---------------------------- MODULE TejxCondition ----------------------------
(***************************************************************************)
(* Condition variables (runtime/core/condition.rs) and the mutex they are  *)
(* used with.  wait() registers the caller, unlocks, sleeps and locks      *)
(* again; notify() takes the oldest virtual thread or, when there is none, *)
(* the oldest OS thread; notifyAll() drains both lists.                    *)
(*                                                                         *)
(* A notifier takes a waiter off its list under the list's SpinMutex and   *)
(* unparks it after that, so the waiter may be anywhere between its        *)
(* registration and its sleep.  Mutex and condition park their threads in  *)
(* the same table, under tokens that the shared counter keeps apart.       *)
(***************************************************************************)
EXTENDS TejxMutex

CONSTANT CondTokens   \* bound: park tokens of waits in progress

ASSUME CondAssumption ==
  /\ CondTokens \intersect Tokens = {}
  /\ NoToken \notin CondTokens

VARIABLES
  vtWaiters,  \* ConditionData.vt_waiters: tokens of virtual threads
  osWaiters,  \* ConditionData.os_waiters: the flag of a thread is named by it
  flag,       \* the flag each OS thread spins on
  phase,      \* where each thread is in wait(), notify() or notifyAll()
  condToken,  \* the park token of the current wait()
  wake        \* tokens a notifier took off vt_waiters and has yet to unpark

condVars == <<vtWaiters, osWaiters, flag, phase, condToken, wake>>
allVars == <<vars, condVars>>

CondInit ==
  /\ Init
  /\ vtWaiters = <<>>
  /\ osWaiters = <<>>
  /\ flag = [t \in OsThreads |-> FALSE]
  /\ phase = [t \in Threads |-> "program"]
  /\ condToken = [t \in Threads |-> NoToken]
  /\ wake = [t \in Threads |-> <<>>]

PhaseStep(t, from, to) ==
  /\ phase[t] = from
  /\ phase' = [phase EXCEPT ![t] = to]

SeqElements(s) == {s[i] : i \in DOMAIN s}

CondTokensInUse ==
  SeqElements(vtWaiters) \union {condToken[t] : t \in Threads}
    \union (UNION {SeqElements(wake[t]) : t \in Threads}) \union parked \union unparked
FreshCondToken == CHOOSE tk \in CondTokens : tk \notin CondTokensInUse

-----------------------------------------------------------------------------
(* wait(mutex), called with the mutex held *)

WaitRegister(t) ==
  /\ pc[t] = "run" /\ held[t] = 1
  /\ PhaseStep(t, "program", "unlock")
  /\ IF t \in VThreads
       THEN /\ CondTokens \ CondTokensInUse # {}
            /\ condToken' = [condToken EXCEPT ![t] = FreshCondToken]
            /\ vtWaiters' = Append(vtWaiters, FreshCondToken)
            /\ UNCHANGED <<osWaiters, flag>>
       ELSE /\ flag' = [flag EXCEPT ![t] = FALSE]
            /\ osWaiters' = Append(osWaiters, t)
            /\ UNCHANGED <<vtWaiters, condToken>>
  /\ UNCHANGED <<vars, wake>>

WaitUnlock(t) ==
  /\ PhaseStep(t, "unlock", "sleep")
  /\ Unlock(t)
  /\ UNCHANGED <<vtWaiters, osWaiters, flag, condToken, wake>>

\* unlock() has returned: a virtual thread parks.
WaitPark(t) ==
  /\ t \in VThreads /\ pc[t] = "run"
  /\ \/ ParkConsumes(condToken[t]) /\ PhaseStep(t, "sleep", "relock")
     \/ ParkSuspends(condToken[t]) /\ PhaseStep(t, "sleep", "suspend")
  /\ UNCHANGED <<mutexVars, vtWaiters, osWaiters, flag, condToken, wake>>

WaitSuspend(t) ==
  /\ \/ RouteConsumes(condToken[t]) /\ PhaseStep(t, "suspend", "relock")
     \/ RouteParks(condToken[t]) /\ PhaseStep(t, "suspend", "parked")
  /\ UNCHANGED <<mutexVars, vtWaiters, osWaiters, flag, condToken, wake>>

WaitResume(t) ==
  /\ condToken[t] \notin parked
  /\ PhaseStep(t, "parked", "relock")
  /\ UNCHANGED <<vars, vtWaiters, osWaiters, flag, condToken, wake>>
\* Mutant: the OS thread sleeps once, whatever its flag says.
WaitSpinOnce(t) ==
  /\ t \in OsThreads /\ pc[t] = "run"
  /\ PhaseStep(t, "sleep", "relock")
  /\ UNCHANGED <<vars, vtWaiters, osWaiters, flag, condToken, wake>>

\* unlock() has returned: an OS thread spins until its flag is set.
WaitSpin(t) ==
  /\ t \in OsThreads /\ pc[t] = "run" /\ flag[t]
  /\ PhaseStep(t, "sleep", "relock")
  /\ UNCHANGED <<vars, vtWaiters, osWaiters, flag, condToken, wake>>

WaitLock(t) ==
  /\ PhaseStep(t, "relock", "return")
  /\ Lock(t)
  /\ UNCHANGED <<vtWaiters, osWaiters, flag, condToken, wake>>

WaitReturn(t) ==
  /\ pc[t] = "run"
  /\ PhaseStep(t, "return", "program")
  /\ condToken' = [condToken EXCEPT ![t] = NoToken]
  /\ UNCHANGED <<vars, vtWaiters, osWaiters, flag, wake>>

-----------------------------------------------------------------------------
(* notify() and notifyAll(), called with or without the mutex *)

Notify(t) ==
  /\ pc[t] = "run"
  /\ \/ /\ vtWaiters # <<>>
        /\ wake' = [wake EXCEPT ![t] = <<Head(vtWaiters)>>]
        /\ vtWaiters' = Tail(vtWaiters)
        /\ PhaseStep(t, "program", "unpark")
     \/ /\ vtWaiters = <<>>
        /\ PhaseStep(t, "program", "notifyOs")
        /\ UNCHANGED <<wake, vtWaiters>>
  /\ UNCHANGED <<vars, osWaiters, flag, condToken>>

NotifyAll(t) ==
  /\ pc[t] = "run"
  /\ PhaseStep(t, "program", "unparkAll")
  /\ wake' = [wake EXCEPT ![t] = vtWaiters]
  /\ vtWaiters' = <<>>
  /\ UNCHANGED <<vars, osWaiters, flag, condToken>>
\* Mutant: a waiter that is not parked yet gets no permit.
NotifyUnparkIfParked(t) ==
  /\ wake[t] # <<>>
  /\ parked' = parked \ {Head(wake[t])}
  /\ wake' = [wake EXCEPT ![t] = Tail(@)]
  /\ \/ PhaseStep(t, "unpark", "program")
     \/ phase[t] = "unparkAll" /\ UNCHANGED phase
  /\ UNCHANGED <<mutexVars, unparked, vtWaiters, osWaiters, flag, condToken>>

\* The next of the tokens taken off the list is unparked, outside its lock.
NotifyUnpark(t) ==
  /\ wake[t] # <<>>
  /\ Unpark(Head(wake[t]))
  /\ wake' = [wake EXCEPT ![t] = Tail(@)]
  /\ \/ PhaseStep(t, "unpark", "program")
     \/ phase[t] = "unparkAll" /\ UNCHANGED phase
  /\ UNCHANGED <<mutexVars, vtWaiters, osWaiters, flag, condToken>>

NotifyOs(t) ==
  /\ PhaseStep(t, "notifyOs", "program")
  /\ IF osWaiters = <<>>
       THEN UNCHANGED <<osWaiters, flag>>
       ELSE /\ flag' = [flag EXCEPT ![Head(osWaiters)] = TRUE]
            /\ osWaiters' = Tail(osWaiters)
  /\ UNCHANGED <<vars, vtWaiters, condToken, wake>>

NotifyAllOs(t) ==
  /\ wake[t] = <<>>
  /\ PhaseStep(t, "unparkAll", "program")
  /\ flag' = [o \in OsThreads |-> flag[o] \/ o \in SeqElements(osWaiters)]
  /\ osWaiters' = <<>>
  /\ UNCHANGED <<vars, vtWaiters, condToken, wake>>

-----------------------------------------------------------------------------
\* The program's own lock() and unlock().
ProgramStep(t) ==
  /\ phase[t] = "program"
  /\ Lock(t) \/ Unlock(t)
  /\ UNCHANGED condVars

MutexStep(t) == (LockStep(t) \/ UnlockStep(t)) /\ UNCHANGED condVars

WaitStep(t) ==
  \/ WaitUnlock(t) \/ WaitPark(t) \/ WaitSuspend(t) \/ WaitResume(t)
  \/ WaitSpin(t) \/ WaitLock(t) \/ WaitReturn(t)

NotifyStep(t) == NotifyUnpark(t) \/ NotifyOs(t) \/ NotifyAllOs(t)

CondNext ==
  \E t \in Threads :
    \/ ProgramStep(t) \/ MutexStep(t)
    \/ WaitRegister(t) \/ WaitStep(t)
    \/ Notify(t) \/ NotifyAll(t) \/ NotifyStep(t)

CondSpec == CondInit /\ [][CondNext]_allVars

(***************************************************************************)
(* Fairness: as for the mutex, a thread inside wait(), notify() or         *)
(* notifyAll() keeps running.  Nothing makes a program notify.             *)
(***************************************************************************)
CondFairness ==
  \A t \in Threads :
    /\ WF_allVars(MutexStep(t))
    /\ WF_allVars(WaitStep(t))
    /\ WF_allVars(NotifyStep(t))
    /\ SF_allVars(Pop(t) /\ UNCHANGED condVars)

FairCondSpec == CondSpec /\ CondFairness

-----------------------------------------------------------------------------
(* Properties *)

Phases == {"program", "unlock", "sleep", "suspend", "parked", "relock", "return",
           "unpark", "unparkAll", "notifyOs"}

\* Every variable stays within the values its Rust type can take.
CondTypeOK ==
  /\ vtWaiters \in Seq(CondTokens)
  /\ osWaiters \in Seq(OsThreads)
  /\ flag \in [OsThreads -> BOOLEAN]
  /\ phase \in [Threads -> Phases]
  /\ condToken \in [Threads -> CondTokens \union {NoToken}]
  /\ wake \in [Threads -> Seq(CondTokens)]

InWait(t) == phase[t] \in {"unlock", "sleep", "suspend", "parked"}
Registered(t) ==
  IF t \in VThreads THEN condToken[t] \in SeqElements(vtWaiters)
                    ELSE t \in SeqElements(osWaiters)
Notified(t) ==
  IF t \in VThreads
    THEN \/ condToken[t] \in unparked \/ \E u \in Threads : condToken[t] \in SeqElements(wake[u])
         \/ phase[t] = "parked" /\ condToken[t] \notin parked
    ELSE flag[t]

\* A thread between registration and wake-up is in exactly one place: on the
\* list, or with a notifier or a permit that will end its sleep; so no notify is
\* lost between the registration and the sleep (condition.rs:58-66, 93-104).
WaiterAccounted == \A t \in Threads : InWait(t) => (Registered(t) # Notified(t))

\* wait() never sleeps less than until a notify chose it: a thread leaves its
\* sleep only when it is no longer on the list, and a hand-off of the mutex or
\* the wake-up of another waiter never ends it (condition.rs:65, 74).
WakesOnlyWhenNotified ==
  [][\A t \in Threads :
       (InWait(t) /\ phase'[t] = "relock") => ~ Registered(t)]_allVars

\* The mutex stays exclusive when wait() unlocks and locks it on behalf of the
\* program (condition.rs:64-66).
CondOwnership == OwnershipConserved

\* A thread that notify or notifyAll took off the list goes on to lock the mutex.
NotifiedWakes == \A t \in Threads : (InWait(t) /\ Notified(t)) ~> phase[t] = "relock"

=============================================================================
