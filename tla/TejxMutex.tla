------------------------------ MODULE TejxMutex ------------------------------
(***************************************************************************)
(* The mutex of the TejX runtime (runtime/core/mutex.rs): a flag that      *)
(* threads compare-and-swap, a queue of the park tokens of virtual threads *)
(* that found it taken, and a direct hand-off: unlock does not clear the   *)
(* flag when somebody queues but grants the mutex to the token at the head.*)
(*                                                                         *)
(* One action is one atomic access to the shared state.  wait_lock, the    *)
(* SpinMutex around the queue, is held across steps only in lock's slow    *)
(* path; every other section under it is a single step.                    *)
(*                                                                         *)
(* A failed attempt to take the mutex changes nothing, so the 33 attempts  *)
(* of the fast path and its spin loop are one attempt at an arbitrary      *)
(* later moment.  Park tokens come from a counter that never repeats;      *)
(* only their equality is ever tested, so here a fresh token is any one    *)
(* that nothing refers to.                                                 *)
(***************************************************************************)
EXTENDS Sequences, Naturals, VThreadPark

CONSTANTS
  VThreads,   \* virtual threads
  OsThreads,  \* threads outside the scheduler (the process's main OS thread)
  Tokens,     \* bound: park tokens in use at once
  NoToken,    \* granted_token = 0
  NoThread,   \* wait_lock is free
  Nested,     \* threads that may lock again while they hold the mutex
  Rogue       \* threads that may unlock a mutex they do not hold

Threads == VThreads \union OsThreads

ASSUME MutexAssumption ==
  /\ VThreads \intersect OsThreads = {}
  /\ NoToken \notin Tokens
  /\ NoThread \notin Threads
  /\ Nested \subseteq Threads
  /\ Rogue \subseteq Threads

VARIABLES
  state,     \* TejxMutex.state: the mutex is taken
  granted,   \* TejxMutex.granted_token
  waiters,   \* TejxMutex.wait_lock's queue
  waitLock,  \* the thread inside wait_lock across steps
  pc,        \* where each thread is in lock() or unlock(); "run": in its program
  token,     \* the park token of the current lock()
  popped,    \* the token the current unlock() took off the queue
  held       \* history: lock() calls returned and not yet undone by unlock()

mutexVars == <<state, granted, waiters, waitLock, pc, token, popped, held>>
vars == <<mutexVars, parkVars>>

Init ==
  /\ ParkInit
  /\ state = FALSE
  /\ granted = NoToken
  /\ waiters = <<>>
  /\ waitLock = NoThread
  /\ pc = [t \in Threads |-> "run"]
  /\ token = [t \in Threads |-> NoToken]
  /\ popped = [t \in Threads |-> NoToken]
  /\ held = [t \in Threads |-> 0]

-----------------------------------------------------------------------------
Goto(t, from, to) ==
  /\ pc[t] = from
  /\ pc' = [pc EXCEPT ![t] = to]

\* lock() returns to the program, the mutex is t's.
Acquired(t, from) ==
  /\ Goto(t, from, "run")
  /\ held' = [held EXCEPT ![t] = @ + 1]
  /\ token' = [token EXCEPT ![t] = NoToken]

\* compare_exchange(false, true) on the flag.
CasSucceeds == state = FALSE /\ state' = TRUE
CasFails == state = TRUE /\ UNCHANGED state

TokensInUse ==
  {granted} \union {token[t] : t \in Threads} \union {popped[t] : t \in Threads}
    \union {waiters[i] : i \in DOMAIN waiters} \union parked \union unparked
\* vt_next_park_token.
FreshToken == CHOOSE tk \in Tokens : tk \notin TokensInUse

\* Vec::retain(|&t| t != token): a token is queued at most once.
Without(s, tk) ==
  IF \E i \in DOMAIN s : s[i] = tk
    THEN LET i == CHOOSE i \in DOMAIN s : s[i] = tk
         IN  SubSeq(s, 1, i - 1) \o SubSeq(s, i + 1, Len(s))
    ELSE s

-----------------------------------------------------------------------------
(* lock(): the attempt without a queue *)

Lock(t) ==
  /\ held[t] = 0 \/ (t \in Nested /\ held[t] = 1)
  /\ Goto(t, "run", "fast")
  /\ UNCHANGED <<state, granted, waiters, waitLock, token, popped, held, parkVars>>

\* Where the fast path gives up: virtual threads queue, others spin.
Slow(t) == IF t \in VThreads THEN "slow" ELSE "spin"

FastLoad(t) ==
  /\ Goto(t, "fast", IF granted = NoToken THEN "fastCas" ELSE Slow(t))
  /\ UNCHANGED <<state, granted, waiters, waitLock, token, popped, held, parkVars>>

FastCas(t) ==
  /\ \/ CasSucceeds /\ Acquired(t, "fastCas")
     \/ CasFails /\ Goto(t, "fastCas", Slow(t)) /\ UNCHANGED <<held, token>>
  /\ UNCHANGED <<granted, waiters, waitLock, popped, parkVars>>

-----------------------------------------------------------------------------
(* lock(): a virtual thread queues and parks *)

\* Takes a token and wait_lock, reads granted_token.
SlowLoad(t) ==
  /\ waitLock = NoThread
  /\ Tokens \ TokensInUse # {}
  /\ token' = [token EXCEPT ![t] = FreshToken]
  /\ IF granted = NoToken
       THEN /\ Goto(t, "slow", "slowCas")
            /\ waitLock' = t
            /\ UNCHANGED waiters
       ELSE /\ Goto(t, "slow", "park")
            /\ waiters' = Append(waiters, FreshToken)
            /\ UNCHANGED waitLock
  /\ UNCHANGED <<state, granted, popped, held, parkVars>>
\* Mutant: wait_lock is still held when the thread parks.
SlowCasHolding(t) ==
  /\ waitLock = t
  /\ \/ /\ CasSucceeds /\ Acquired(t, "slowCas")
        /\ waitLock' = NoThread
        /\ UNCHANGED waiters
     \/ /\ CasFails
        /\ Goto(t, "slowCas", "park")
        /\ waiters' = Append(waiters, token[t])
        /\ UNCHANGED <<waitLock, held, token>>
  /\ UNCHANGED <<granted, popped, parkVars>>

SlowCas(t) ==
  /\ waitLock = t
  /\ waitLock' = NoThread
  /\ \/ CasSucceeds /\ Acquired(t, "slowCas") /\ UNCHANGED waiters
     \/ /\ CasFails
        /\ Goto(t, "slowCas", "park")
        /\ waiters' = Append(waiters, token[t])
        /\ UNCHANGED <<held, token>>
  /\ UNCHANGED <<granted, popped, parkVars>>

Park(t) ==
  /\ \/ ParkConsumes(token[t]) /\ Goto(t, "park", "woken")
     \/ ParkSuspends(token[t]) /\ Goto(t, "park", "suspend")
  /\ UNCHANGED <<state, granted, waiters, waitLock, token, popped, held>>
\* Mutant: the worker parks the thread without a second look for a permit.
SuspendBlindly(t) ==
  /\ Goto(t, "suspend", "parked")
  /\ parked' = parked \union {token[t]}
  /\ UNCHANGED <<state, granted, waiters, waitLock, token, popped, held, unparked>>

Suspend(t) ==
  /\ \/ RouteConsumes(token[t]) /\ Goto(t, "suspend", "woken")
     \/ RouteParks(token[t]) /\ Goto(t, "suspend", "parked")
  /\ UNCHANGED <<state, granted, waiters, waitLock, token, popped, held>>

\* Out of the table, the thread is in a run queue and a worker resumes it.
Resume(t) ==
  /\ token[t] \notin parked
  /\ Goto(t, "parked", "woken")
  /\ UNCHANGED <<state, granted, waiters, waitLock, token, popped, held, parkVars>>

CheckGrant(t) ==
  /\ Goto(t, "woken", IF granted = token[t] THEN "take" ELSE "retry")
  /\ UNCHANGED <<state, granted, waiters, waitLock, token, popped, held, parkVars>>
\* Mutant: the grant is not cleared by the thread that takes it.
TakeGrantKeeping(t) ==
  /\ Acquired(t, "take")
  /\ UNCHANGED <<state, granted, waiters, waitLock, popped, parkVars>>

TakeGrant(t) ==
  /\ granted' = NoToken
  /\ Acquired(t, "take")
  /\ UNCHANGED <<state, waiters, waitLock, popped, parkVars>>

\* Woken without the grant: one more attempt, then the token is withdrawn.
RetryLoad(t) ==
  /\ Goto(t, "retry", IF granted = NoToken THEN "retryCas" ELSE "withdraw")
  /\ UNCHANGED <<state, granted, waiters, waitLock, token, popped, held, parkVars>>

RetryCas(t) ==
  /\ \/ CasSucceeds /\ Goto(t, "retryCas", "withdrawOwner")
     \/ CasFails /\ Goto(t, "retryCas", "withdraw")
  /\ UNCHANGED <<granted, waiters, waitLock, token, popped, held, parkVars>>

Withdraw(t) ==
  /\ waitLock = NoThread
  /\ waiters' = Without(waiters, token[t])
  /\ \/ Acquired(t, "withdrawOwner")
     \/ /\ Goto(t, "withdraw", "slow")
        /\ token' = [token EXCEPT ![t] = NoToken]
        /\ UNCHANGED held
  /\ UNCHANGED <<state, granted, waitLock, popped, parkVars>>

-----------------------------------------------------------------------------
(* lock(): a thread outside the scheduler spins *)

SpinLoad(t) ==
  /\ granted = NoToken
  /\ Goto(t, "spin", "spinCas")
  /\ UNCHANGED <<state, granted, waiters, waitLock, token, popped, held, parkVars>>
\* Mutant: a store in place of the compare-and-swap.
SpinStore(t) ==
  /\ state' = TRUE
  /\ Acquired(t, "spinCas")
  /\ UNCHANGED <<granted, waiters, waitLock, popped, parkVars>>

SpinCas(t) ==
  /\ \/ CasSucceeds /\ Acquired(t, "spinCas")
     \/ CasFails /\ Goto(t, "spinCas", "spin") /\ UNCHANGED <<held, token>>
  /\ UNCHANGED <<granted, waiters, waitLock, popped, parkVars>>

-----------------------------------------------------------------------------
(* unlock() *)

Unlock(t) ==
  /\ held[t] > 0 \/ t \in Rogue
  /\ Goto(t, "run", "pop")
  /\ held' = [held EXCEPT ![t] = IF @ > 0 THEN @ - 1 ELSE 0]
  /\ UNCHANGED <<state, granted, waiters, waitLock, token, popped, parkVars>>

Pop(t) ==
  /\ waitLock = NoThread
  /\ \/ /\ waiters # <<>>
        /\ popped' = [popped EXCEPT ![t] = Head(waiters)]
        /\ waiters' = Tail(waiters)
        /\ Goto(t, "pop", "grant")
     \/ /\ waiters = <<>>
        /\ Goto(t, "pop", "clear")
        /\ UNCHANGED <<popped, waiters>>
  /\ UNCHANGED <<state, granted, waitLock, token, held, parkVars>>
\* Mutant: unlock frees the mutex it hands over.
GrantFreeing(t) ==
  /\ Goto(t, "grant", "unpark")
  /\ granted' = popped[t]
  /\ state' = FALSE
  /\ UNCHANGED <<waiters, waitLock, token, popped, held, parkVars>>

Grant(t) ==
  /\ Goto(t, "grant", "unpark")
  /\ granted' = popped[t]
  /\ UNCHANGED <<state, waiters, waitLock, token, popped, held, parkVars>>
\* Mutant: a thread that is not parked yet gets no permit.
UnparkGrantedIfParked(t) ==
  /\ Goto(t, "unpark", "run")
  /\ parked' = parked \ {popped[t]}
  /\ popped' = [popped EXCEPT ![t] = NoToken]
  /\ UNCHANGED <<state, granted, waiters, waitLock, token, held, unparked>>

UnparkGranted(t) ==
  /\ Goto(t, "unpark", "run")
  /\ Unpark(popped[t])
  /\ popped' = [popped EXCEPT ![t] = NoToken]
  /\ UNCHANGED <<state, granted, waiters, waitLock, token, held>>

ClearGrant(t) ==
  /\ Goto(t, "clear", "release")
  /\ granted' = NoToken
  /\ UNCHANGED <<state, waiters, waitLock, token, popped, held, parkVars>>

Release(t) ==
  /\ Goto(t, "release", "run")
  /\ state' = FALSE
  /\ UNCHANGED <<granted, waiters, waitLock, token, popped, held, parkVars>>

-----------------------------------------------------------------------------
LockStep(t) ==
  \/ FastLoad(t) \/ FastCas(t)
  \/ SlowLoad(t) \/ SlowCas(t)
  \/ Park(t) \/ Suspend(t) \/ Resume(t)
  \/ CheckGrant(t) \/ TakeGrant(t)
  \/ RetryLoad(t) \/ RetryCas(t) \/ Withdraw(t)
  \/ SpinLoad(t) \/ SpinCas(t)

UnlockStep(t) ==
  \/ Pop(t)
  \/ Grant(t) \/ UnparkGranted(t)
  \/ ClearGrant(t) \/ Release(t)

Next ==
  \E t \in Threads : Lock(t) \/ LockStep(t) \/ Unlock(t) \/ UnlockStep(t)

Spec == Init /\ [][Next]_vars

(***************************************************************************)
(* Fairness.  Every thread inside lock() or unlock() keeps running: each   *)
(* is on an OS thread, or in a run queue that workers drain.  wait_lock is *)
(* a std Mutex; its sections are short, so a thread that keeps asking for  *)
(* it gets it (strong fairness of the steps that need it).  A program that *)
(* holds the mutex releases it.  Nothing makes a program call lock().      *)
(***************************************************************************)
Fairness ==
  \A t \in Threads :
    /\ WF_vars(LockStep(t))
    /\ WF_vars(UnlockStep(t))
    /\ SF_vars(SlowLoad(t))
    /\ SF_vars(Withdraw(t))
    /\ SF_vars(Pop(t))
    /\ WF_vars(held[t] > 0 /\ Unlock(t))

FairSpec == Spec /\ Fairness

-----------------------------------------------------------------------------
(* Properties *)

Labels == {"run", "fast", "fastCas", "slow", "slowCas", "park", "suspend",
           "parked", "woken", "take", "retry", "retryCas", "withdraw",
           "withdrawOwner", "spin", "spinCas", "pop", "grant", "unpark",
           "clear", "release"}

\* Every variable stays within the values its Rust type can take.
TypeOK ==
  /\ state \in BOOLEAN
  /\ granted \in Tokens \union {NoToken}
  /\ waiters \in Seq(Tokens)
  /\ waitLock \in Threads \union {NoThread}
  /\ pc \in [Threads -> Labels]
  /\ token \in [Threads -> Tokens \union {NoToken}]
  /\ popped \in [Threads -> Tokens \union {NoToken}]
  /\ held \in [Threads -> Nat]
  /\ parked \subseteq Tokens
  /\ unparked \subseteq Tokens

\* t holds the mutex, or is inside unlock() and has not passed it on yet.
Owns(t) ==
  held[t] > 0 \/ pc[t] \in {"pop", "grant", "clear", "release", "withdrawOwner"}

\* Ownership is conserved through the hand-off: the flag is set exactly while
\* one thread owns the mutex or one token was granted it, never both, so unlock
\* neither frees a mutex it handed over nor lets a running thread overtake the
\* grantee (mutex.rs:89-103, 132-149).
OwnershipConserved ==
  /\ \A s, t \in Threads : Owns(s) /\ Owns(t) => s = t
  /\ \A t \in Threads : Owns(t) => state /\ granted = NoToken
  /\ granted # NoToken => state
  /\ state => granted # NoToken \/ \E t \in Threads : Owns(t)

\* Two threads are never between lock() and unlock() at once.
MutualExclusion ==
  \A s, t \in Threads : held[s] > 0 /\ held[t] > 0 => s = t

Queued(t) == \E i \in DOMAIN waiters : waiters[i] = token[t]
BeingWoken(t) == \E u \in Threads : pc[u] \in {"grant", "unpark"} /\ popped[u] = token[t]

\* No park token is lost between the queue, the unlocker that took it off, the
\* permit and the park table, whoever calls unlock() and however the two-step
\* park interleaves with the unpark: a suspended thread is queued or somebody is
\* about to wake it (mutex.rs:71-110, vthread.rs:1431-1440, 1592-1616).
NoLostToken ==
  \A t \in VThreads :
    /\ pc[t] \in {"park", "suspend"} =>
         Queued(t) \/ BeingWoken(t) \/ token[t] \in unparked
    /\ pc[t] = "parked" /\ token[t] \in parked =>
         (Queued(t) \/ BeingWoken(t)) /\ token[t] \notin unparked

\* A granted mutex reaches the thread it was granted to: the unlocker unparks it
\* and it finds the grant (mutex.rs:86-92, 141-144).
HandoffArrives ==
  \A t \in VThreads :
    (granted # NoToken /\ granted = token[t]) ~> held[t] > 0

\* A queued thread is not overtaken for ever: it leaves the queue, or the mutex
\* is released with nobody granted (mutex.rs:132-149).
QueuedServed == \A t \in VThreads : Queued(t) ~> (~ Queued(t) \/ state = FALSE)

\* The mutex implements the lock a program expects.
Abstract == INSTANCE AbstractLock WITH inside <- {t \in Threads : held[t] > 0}
ImplementsLock == Abstract!Spec

\* What the tests of Mutex take for granted when they join threads that share
\* one (tests/positive/core/concurrency_primitives.tx:51-56): no thread stays
\* parked on a mutex that is free while nobody is inside lock() or unlock().
NoStrandedWaiter ==
  (\E t \in VThreads : pc[t] = "parked" /\ token[t] \in parked) =>
    state \/ \E u \in Threads : pc[u] \notin {"run", "parked"}

=============================================================================
