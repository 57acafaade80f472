-------------------------- MODULE TejxCondition_proofs --------------------------
(***************************************************************************)
(* Proofs about the mutex and the condition, for any number of threads and *)
(* tokens.  The part on the mutex cites nothing of TejxCondition.          *)
(*                                                                         *)
(* OwnershipConserved needs IInv: tokens are distinct, and a thread about  *)
(* to take the lock was granted it.  NoLostToken needs TokenInv, which     *)
(* holds with rogue unlocks too.                                           *)
(*                                                                         *)
(* WaiterAccounted is not inductive.  CondInv adds that a list of waiters  *)
(* holds nobody twice, that each wait has a token of its own, which is in  *)
(* the park table only when its thread has left its stack, and that a      *)
(* notifier between two calls has no token in its hands.  The mutex parks  *)
(* in the same table: MutexTokens says that it does so under other tokens. *)
(***************************************************************************)
EXTENDS TejxCondition, SequenceTheorems, TLAPS

-----------------------------------------------------------------------------
(* The queue *)

\* What retain leaves is a queue of tokens (mutex.rs:102, 109).
LEMMA WithoutType ==
  ASSUME NEW s \in Seq(Tokens), NEW tk
  PROVE  Without(s, tk) \in Seq(Tokens)
<1>1. CASE \E i \in DOMAIN s : s[i] = tk
  <2> DEFINE i == CHOOSE i \in DOMAIN s : s[i] = tk
  <2>1. i \in 1 .. Len(s)
    BY <1>1
  <2> HIDE DEF i
  <2>2. Len(s) \in Nat /\ \A j \in 1 .. Len(s) : s[j] \in Tokens
    BY LenProperties
  <2>3. /\ \A j \in 1 .. (i - 1) : s[j] \in Tokens
        /\ \A j \in (i + 1) .. Len(s) : s[j] \in Tokens
    BY <2>1, <2>2
  <2>4. SubSeq(s, 1, i - 1) \in Seq(Tokens)
    BY <2>1, <2>3, i - 1 \in Int, SubSeqProperties
  <2>5. SubSeq(s, i + 1, Len(s)) \in Seq(Tokens)
    BY <2>1, <2>3, <2>2, i + 1 \in Int, Len(s) \in Int, SubSeqProperties
  <2>6. SubSeq(s, 1, i - 1) \o SubSeq(s, i + 1, Len(s)) \in Seq(Tokens)
    BY <2>4, <2>5, ConcatProperties
  <2>7. QED
    BY <1>1, <2>6 DEF Without, i
<1>2. CASE ~ \E i \in DOMAIN s : s[i] = tk
  BY <1>2 DEF Without
<1>3. QED
  BY <1>1, <1>2

-----------------------------------------------------------------------------
(* Type correctness *)

\* A fresh token is one of the tokens nobody refers to.
LEMMA FreshTokenFact ==
  ASSUME Tokens \ TokensInUse # {}
  PROVE  FreshToken \in Tokens /\ FreshToken \notin TokensInUse
BY DEF FreshToken

\* The token of a thread that queues, parks or withdraws, and the one an
\* unlocker passes on, are real tokens.
TokensTyped ==
  \A t \in Threads :
    /\ pc[t] \in {"slowCas", "park", "suspend", "parked", "woken", "take",
                  "retry", "retryCas", "withdraw", "withdrawOwner"} => token[t] \in Tokens
    /\ pc[t] \in {"grant", "unpark"} => popped[t] \in Tokens

TypeInv == TypeOK /\ TokensTyped

\* The new mutex (mutex.rs:37-43) is well typed.
LEMMA TypeInit == Init => TypeInv
<1>1. <<>> \in Seq(Tokens)
  BY EmptySeq
<1>2. Init => pc \in [Threads -> Labels] /\ held \in [Threads -> Nat]
  BY DEF Init, Labels
<1>3. Init => TypeOK
  BY <1>1, <1>2 DEF Init, TypeOK, ParkInit
<1>4. Init => TokensTyped
  BY DEF Init, TokensTyped
<1>5. QED
  BY <1>3, <1>4 DEF TypeInv

\* Every step of lock() and unlock() keeps the types, and keeps the tokens that
\* the program counters stand for real.
LEMMA TypeStep == TypeInv /\ [Next]_vars => TypeInv'
<1> SUFFICES ASSUME TypeInv, [Next]_vars PROVE TypeInv'
  OBVIOUS
<1> USE DEF TypeInv, TypeOK, TokensTyped, Goto, Labels, parkVars
<1>0. CASE UNCHANGED vars
  BY <1>0 DEF vars, mutexVars
<1> SUFFICES ASSUME NEW t \in Threads,
                    Lock(t) \/ LockStep(t) \/ Unlock(t) \/ UnlockStep(t)
             PROVE  TypeInv'
  BY <1>0 DEF Next
<1>1. CASE Lock(t)
  BY <1>1 DEF Lock
<1>2. CASE FastLoad(t)
  BY <1>2 DEF FastLoad, Slow
<1>3. CASE FastCas(t)
  <2>1. CASE CasSucceeds /\ Acquired(t, "fastCas")
    BY <1>3, <2>1 DEF FastCas, CasSucceeds, Acquired
  <2>2. CASE CasFails /\ Goto(t, "fastCas", Slow(t)) /\ UNCHANGED <<held, token>>
    BY <1>3, <2>2 DEF FastCas, CasFails, Slow
  <2>3. QED
    BY <1>3, <2>1, <2>2 DEF FastCas
<1>4. CASE SlowLoad(t)
  <2>1. FreshToken \in Tokens
    BY <1>4, FreshTokenFact DEF SlowLoad
  <2>2. Append(waiters, FreshToken) \in Seq(Tokens)
    BY <2>1, AppendProperties
  <2>3. QED
    BY <1>4, <2>1, <2>2 DEF SlowLoad
<1>5. CASE SlowCas(t)
  <2>1. token[t] \in Tokens
    BY <1>5 DEF SlowCas, Acquired
  <2>2. Append(waiters, token[t]) \in Seq(Tokens)
    BY <2>1, AppendProperties
  <2>3. CASE CasSucceeds /\ Acquired(t, "slowCas")
    BY <1>5, <2>1, <2>3 DEF SlowCas, CasSucceeds, Acquired
  <2>4. CASE CasFails /\ Goto(t, "slowCas", "park") /\ UNCHANGED <<held, token>>
    BY <1>5, <2>1, <2>2, <2>4 DEF SlowCas, CasFails
  <2>5. QED
    BY <1>5, <2>3, <2>4 DEF SlowCas
<1>6. CASE Park(t)
  BY <1>6 DEF Park, ParkConsumes, ParkSuspends
<1>7. CASE Suspend(t)
  BY <1>7 DEF Suspend, RouteConsumes, RouteParks
<1>8. CASE Resume(t)
  BY <1>8 DEF Resume
<1>9. CASE CheckGrant(t)
  BY <1>9 DEF CheckGrant
<1>10. CASE TakeGrant(t)
  BY <1>10 DEF TakeGrant, Acquired
<1>11. CASE RetryLoad(t)
  BY <1>11 DEF RetryLoad
<1>12. CASE RetryCas(t)
  BY <1>12 DEF RetryCas, CasSucceeds, CasFails
<1>13. CASE Withdraw(t)
  <2>1. waiters' \in Seq(Tokens)
    BY <1>13, WithoutType DEF Withdraw
  <2>2. CASE Acquired(t, "withdrawOwner")
    BY <1>13, <2>1, <2>2 DEF Withdraw, Acquired
  <2>3. CASE Goto(t, "withdraw", "slow") /\ token' = [token EXCEPT ![t] = NoToken]
             /\ UNCHANGED held
    BY <1>13, <2>1, <2>3 DEF Withdraw
  <2>4. QED
    BY <1>13, <2>2, <2>3 DEF Withdraw
<1>14. CASE SpinLoad(t)
  BY <1>14 DEF SpinLoad
<1>15. CASE SpinCas(t)
  <2>1. CASE CasSucceeds /\ Acquired(t, "spinCas")
    BY <1>15, <2>1 DEF SpinCas, CasSucceeds, Acquired
  <2>2. CASE CasFails /\ Goto(t, "spinCas", "spin") /\ UNCHANGED <<held, token>>
    BY <1>15, <2>2 DEF SpinCas, CasFails
  <2>3. QED
    BY <1>15, <2>1, <2>2 DEF SpinCas
<1>16. CASE Unlock(t)
  BY <1>16 DEF Unlock
<1>17. CASE Pop(t)
  <2>1. CASE waiters # <<>>
    <3>1. Head(waiters) \in Tokens /\ Tail(waiters) \in Seq(Tokens)
      BY <2>1, HeadTailProperties
    <3>2. QED
      <4>1. /\ popped' = [popped EXCEPT ![t] = Head(waiters)]
            /\ waiters' = Tail(waiters)
            /\ Goto(t, "pop", "grant")
            /\ UNCHANGED <<state, granted, waitLock, token, held, parkVars>>
        BY <1>17, <2>1 DEF Pop
      <4> QED
        BY <3>1, <4>1
  <2>2. CASE waiters = <<>>
    BY <1>17, <2>2 DEF Pop
  <2>3. QED
    BY <2>1, <2>2
<1>18. CASE Grant(t)
  BY <1>18 DEF Grant
<1>19. CASE UnparkGranted(t)
  BY <1>19 DEF UnparkGranted, Unpark
<1>20. CASE ClearGrant(t)
  BY <1>20 DEF ClearGrant
<1>21. CASE Release(t)
  BY <1>21 DEF Release
<1>22. QED
  BY <1>1, <1>2, <1>3, <1>4, <1>5, <1>6, <1>7, <1>8, <1>9, <1>10, <1>11, <1>12,
     <1>13, <1>14, <1>15, <1>16, <1>17, <1>18, <1>19, <1>20, <1>21
     DEF LockStep, UnlockStep

\* Every variable of the mutex keeps its type, whatever the threads do.
THEOREM TypeCorrect == Spec => []TypeOK
<1>1. TypeInv => TypeOK
  BY DEF TypeInv
<1>2. QED
  BY TypeInit, TypeStep, <1>1, PTL DEF Spec

-----------------------------------------------------------------------------
(* Ownership *)

\* No two threads have the same park token.
TokensDistinct ==
  \A s, t \in Threads : token[s] = token[t] /\ token[s] # NoToken => s = t

\* A thread about to accept a grant is the one the mutex was granted to.
TakersGranted == \A t \in Threads : pc[t] = "take" => granted = token[t]

\* A thread holds the mutex once at most, and not at all inside unlock().
HeldOnce ==
  \A t \in Threads :
    /\ held[t] <= 1
    /\ pc[t] \in {"pop", "grant", "unpark", "clear", "release", "withdrawOwner"}
         => held[t] = 0

IInv ==
  /\ TypeInv
  /\ TokensDistinct
  /\ TakersGranted
  /\ HeldOnce
  /\ OwnershipConserved

\* A new mutex has no owner, no grant and no waiter.
LEMMA OwnershipInit == Init => IInv
<1> SUFFICES ASSUME Init PROVE IInv
  OBVIOUS
<1>1. TypeInv
  BY TypeInit
<1>2. TokensDistinct /\ TakersGranted
  BY DEF Init, TokensDistinct, TakersGranted
<1>3. HeldOnce
  BY DEF Init, HeldOnce
<1>4. OwnershipConserved
  BY DEF Init, OwnershipConserved, Owns
<1>5. QED
  BY <1>1, <1>2, <1>3, <1>4 DEF IInv

\* A thread that takes the mutex while nobody owns it becomes its one owner.
LEMMA AcquirePreserves ==
  ASSUME IInv, NEW t \in Threads, NEW from, Acquired(t, from),
         TypeInv', state', granted' = NoToken,
         \A s \in Threads : Owns(s) => s = t,
         held[t] = 0,
         granted \in {NoToken, token[t]}
  PROVE  IInv'
<1> USE DEF IInv, TypeInv, TypeOK, Acquired, Goto
<1>1. TokensDistinct'
  BY DEF TokensDistinct
<1>2. TakersGranted'
  <2> SUFFICES ASSUME NEW u \in Threads, pc'[u] = "take" PROVE FALSE
    BY DEF TakersGranted
  <2>1. u # t /\ pc[u] = "take" /\ token[u] \in Tokens
    BY DEF TokensTyped
  <2>2. granted = token[u]
    BY <2>1 DEF TakersGranted
  <2>3. QED
    BY <2>1, <2>2, MutexAssumption DEF TokensDistinct
<1>3. HeldOnce'
  BY DEF HeldOnce
<1>4. \A s \in Threads : Owns(s)' <=> s = t
  BY DEF Owns
<1>5. OwnershipConserved'
  BY <1>4 DEF OwnershipConserved
<1>6. QED
  BY <1>1, <1>2, <1>3, <1>5

\* Every step of threads that unlock only what they hold conserves ownership: it
\* is created by a compare-and-swap, moved by a grant and ended by the store.
LEMMA OwnershipStep ==
  ASSUME Rogue = {}
  PROVE  IInv /\ [Next]_vars => IInv'
<1> SUFFICES ASSUME IInv, [Next]_vars PROVE IInv'
  OBVIOUS
<1>t. TypeInv /\ TypeInv'
  BY TypeStep DEF IInv
<1>0. CASE UNCHANGED vars
  BY <1>0, <1>t DEF vars, mutexVars, parkVars, IInv, TokensDistinct, TakersGranted,
     HeldOnce, OwnershipConserved, Owns
<1> SUFFICES ASSUME NEW t \in Threads,
                    Lock(t) \/ LockStep(t) \/ Unlock(t) \/ UnlockStep(t)
             PROVE  IInv'
  BY <1>0 DEF Next
<1> USE DEF TypeInv, TypeOK, Goto
<1>1. CASE \/ Lock(t) \/ FastLoad(t) \/ Park(t) \/ Suspend(t) \/ Resume(t)
           \/ RetryLoad(t) \/ SpinLoad(t)
  <2>1. /\ UNCHANGED <<state, granted, token, held>>
        /\ \E lbl \in Labels :
             /\ lbl \notin {"take", "pop", "grant", "unpark", "clear", "release",
                            "withdrawOwner"}
             /\ pc' = [pc EXCEPT ![t] = lbl]
        /\ pc[t] \notin {"pop", "grant", "clear", "release", "withdrawOwner"}
    BY <1>1, <1>t DEF Lock, FastLoad, Slow, Park, Suspend, Resume, RetryLoad, SpinLoad,
       Labels
  <2>2. TokensDistinct' /\ TakersGranted' /\ HeldOnce'
    BY <2>1, <1>t DEF IInv, TokensDistinct, TakersGranted, HeldOnce
  <2>3. \A s \in Threads : Owns(s)' <=> Owns(s)
    BY <2>1, <1>t DEF Owns
  <2>4. OwnershipConserved'
    BY <2>1, <2>3 DEF IInv, OwnershipConserved
  <2>5. QED
    BY <2>2, <2>4, <1>t DEF IInv
<1>2. ASSUME state = FALSE PROVE granted = NoToken /\ \A s \in Threads : ~ Owns(s)
  BY <1>2 DEF IInv, OwnershipConserved
<1>3. ASSUME pc[t] \in {"pop", "grant", "clear", "release", "withdrawOwner"}
      PROVE  /\ state /\ granted = NoToken
             /\ held[t] = 0
             /\ \A s \in Threads : Owns(s) => s = t
             /\ \A s \in Threads : s # t => held[s] = 0
             /\ \A s \in Threads : pc[s] # "take"
  <2>1. Owns(t)
    BY <1>3 DEF Owns
  <2>2. state /\ granted = NoToken /\ \A s \in Threads : Owns(s) => s = t
    BY <2>1 DEF IInv, OwnershipConserved
  <2>3. held[t] = 0
    BY <1>3 DEF IInv, HeldOnce
  <2>4. \A s \in Threads : s # t => held[s] = 0
    BY <2>2, <1>t DEF Owns
  <2>5. \A s \in Threads : pc[s] # "take"
    BY <2>2, <1>t, MutexAssumption DEF IInv, TakersGranted, TokensTyped
  <2>6. QED
    BY <2>2, <2>3, <2>4, <2>5
<1>4. ASSUME CasSucceeds, NEW from, Acquired(t, from), UNCHANGED granted
      PROVE  IInv'
  <2>1. state = FALSE /\ state'
    BY <1>4 DEF CasSucceeds
  <2>2. granted = NoToken /\ \A s \in Threads : ~ Owns(s)
    BY <2>1, <1>2
  <2>3. held[t] = 0
    BY <2>2, <1>t DEF Owns
  <2>4. QED
    BY <1>4, <2>1, <2>2, <2>3, <1>t, AcquirePreserves
<1>5. ASSUME UNCHANGED <<state, granted, held>>,
             \A s \in Threads : s # t => pc'[s] = pc[s] /\ token'[s] = token[s],
             \/ pc[t] \notin {"pop", "grant", "clear", "release", "withdrawOwner"}
             \/ pc[t] = "pop" /\ pc'[t] \in {"grant", "clear"},
             \/ pc'[t] \notin {"take", "pop", "grant", "unpark", "clear", "release",
                               "withdrawOwner"}
             \/ pc[t] = "pop" /\ pc'[t] \in {"grant", "clear"},
             \/ token'[t] \in {NoToken, token[t]}
             \/ \A s \in Threads : token'[t] # token[s]
      PROVE  IInv'
  <2>1. TokensDistinct'
    <3>1. \A r, s \in Threads : token[r] = token[s] /\ token[r] # NoToken => r = s
      BY DEF IInv, TokensDistinct
    <3>2. \A s \in Threads : s # t => token'[s] = token[s]
      BY <1>5
    <3>3. \A s \in Threads : s # t /\ token'[t] = token[s] => token'[t] = NoToken
      BY <1>5, <3>1
    <3> QED
      BY <3>1, <3>2, <3>3 DEF TokensDistinct
  <2>2. TakersGranted'
    BY <1>5, <1>t DEF IInv, TakersGranted
  <2>3. HeldOnce'
    BY <1>5, <1>t DEF IInv, HeldOnce
  <2>4. \A s \in Threads : Owns(s)' <=> Owns(s)
    BY <1>5, <1>t DEF Owns
  <2>5. OwnershipConserved'
    BY <1>5, <2>4 DEF IInv, OwnershipConserved
  <2>6. QED
    BY <2>1, <2>2, <2>3, <2>5, <1>t DEF IInv
<1>6. CASE FastCas(t)
  <2>1. CASE CasSucceeds /\ Acquired(t, "fastCas")
    BY <1>6, <2>1, <1>4 DEF FastCas
  <2>2. CASE CasFails /\ Goto(t, "fastCas", Slow(t)) /\ UNCHANGED <<held, token>>
    BY <1>6, <2>2, <1>5, <1>t DEF FastCas, CasFails, Slow
  <2>3. QED
    BY <1>6, <2>1, <2>2 DEF FastCas
<1>7. CASE SlowLoad(t)
  <2>1. FreshToken \notin TokensInUse
    BY <1>7, FreshTokenFact DEF SlowLoad
  <2>2. \A s \in Threads : token'[t] # token[s]
    BY <1>7, <2>1, <1>t DEF SlowLoad, TokensInUse
  <2>3. QED
    BY <1>7, <2>2, <1>5, <1>t DEF SlowLoad
<1>8. CASE SlowCas(t)
  <2>1. CASE CasSucceeds /\ Acquired(t, "slowCas")
    BY <1>8, <2>1, <1>4 DEF SlowCas
  <2>2. CASE CasFails /\ Goto(t, "slowCas", "park") /\ UNCHANGED <<held, token>>
    BY <1>8, <2>2, <1>5, <1>t DEF SlowCas, CasFails
  <2>3. QED
    BY <1>8, <2>1, <2>2 DEF SlowCas
<1>9. CASE CheckGrant(t)
  <2>1. CASE granted = token[t]
    <3>1. UNCHANGED <<state, granted, token, held>> /\ pc' = [pc EXCEPT ![t] = "take"]
          /\ pc[t] = "woken"
      BY <1>9, <2>1 DEF CheckGrant
    <3>2. TokensDistinct' /\ TakersGranted' /\ HeldOnce'
      BY <2>1, <3>1, <1>t DEF IInv, TokensDistinct, TakersGranted, HeldOnce
    <3>3. \A s \in Threads : Owns(s)' <=> Owns(s)
      BY <3>1, <1>t DEF Owns
    <3>4. OwnershipConserved'
      BY <3>1, <3>3 DEF IInv, OwnershipConserved
    <3>5. QED
      BY <3>2, <3>4, <1>t DEF IInv
  <2>2. CASE granted # token[t]
    BY <1>9, <2>2, <1>5, <1>t DEF CheckGrant
  <2>3. QED
    BY <2>1, <2>2
<1>10. CASE TakeGrant(t)
  <2>1. granted = token[t] /\ granted # NoToken
    BY <1>10, <1>t, MutexAssumption DEF IInv, TakeGrant, Acquired, TakersGranted, TokensTyped
  <2>2. state /\ \A s \in Threads : ~ Owns(s)
    BY <2>1 DEF IInv, OwnershipConserved
  <2>3. held[t] = 0
    BY <2>2, <1>t DEF Owns
  <2>4. QED
    BY <1>10, <2>1, <2>2, <2>3, <1>t, AcquirePreserves DEF TakeGrant
<1>11. CASE RetryCas(t)
  <2>1. CASE CasSucceeds /\ Goto(t, "retryCas", "withdrawOwner")
    <3>1. /\ UNCHANGED <<granted, token, held>> /\ state = FALSE /\ state'
          /\ pc' = [pc EXCEPT ![t] = "withdrawOwner"]
      BY <1>11, <2>1 DEF RetryCas, CasSucceeds
    <3>2. TokensDistinct' /\ TakersGranted'
      BY <3>1, <1>t DEF IInv, TokensDistinct, TakersGranted
    <3>3. \A s \in Threads : ~ Owns(s)
      BY <3>1, <1>2
    <3>4. held[t] = 0
      BY <3>3, <1>t DEF Owns
    <3>5. HeldOnce'
      BY <3>1, <3>4, <1>t DEF IInv, HeldOnce
    <3>6. \A s \in Threads : Owns(s)' <=> s = t
      BY <3>1, <1>2, <1>t DEF Owns
    <3>7. OwnershipConserved'
      BY <3>1, <3>6, <1>2 DEF OwnershipConserved
    <3>8. QED
      BY <3>2, <3>5, <3>7, <1>t DEF IInv
  <2>2. CASE CasFails /\ Goto(t, "retryCas", "withdraw")
    BY <1>11, <2>2, <1>5, <1>t DEF RetryCas, CasFails
  <2>3. QED
    BY <1>11, <2>1, <2>2 DEF RetryCas
<1>12. CASE Withdraw(t)
  <2>1. CASE Acquired(t, "withdrawOwner")
    BY <1>12, <2>1, <1>3, <1>t, AcquirePreserves DEF Withdraw, Acquired
  <2>2. CASE Goto(t, "withdraw", "slow") /\ token' = [token EXCEPT ![t] = NoToken]
             /\ UNCHANGED held
    BY <1>12, <2>2, <1>5, <1>t DEF Withdraw
  <2>3. QED
    BY <1>12, <2>1, <2>2 DEF Withdraw
<1>13. CASE SpinCas(t)
  <2>1. CASE CasSucceeds /\ Acquired(t, "spinCas")
    BY <1>13, <2>1, <1>4 DEF SpinCas
  <2>2. CASE CasFails /\ Goto(t, "spinCas", "spin") /\ UNCHANGED <<held, token>>
    BY <1>13, <2>2, <1>5, <1>t DEF SpinCas, CasFails
  <2>3. QED
    BY <1>13, <2>1, <2>2 DEF SpinCas
<1>14. CASE Unlock(t)
  <2>1. held[t] = 1 /\ Owns(t)
    BY <1>14, <1>t, Rogue = {} DEF Unlock, Owns, IInv, HeldOnce
  <2>2. /\ UNCHANGED <<state, granted, token>> /\ pc' = [pc EXCEPT ![t] = "pop"]
        /\ held' = [held EXCEPT ![t] = 0]
    BY <1>14, <2>1, <1>t DEF Unlock
  <2>3. TokensDistinct' /\ TakersGranted' /\ HeldOnce'
    BY <2>2, <1>t DEF IInv, TokensDistinct, TakersGranted, HeldOnce
  <2>4. \A s \in Threads : Owns(s)' => Owns(s)
    BY <2>1, <2>2, <1>t DEF Owns
  <2>5. Owns(t)'
    BY <2>2, <1>t DEF Owns
  <2>6. OwnershipConserved'
    BY <2>1, <2>2, <2>4, <2>5 DEF IInv, OwnershipConserved
  <2>7. QED
    BY <2>3, <2>6, <1>t DEF IInv
<1>15. CASE Pop(t)
  BY <1>15, <1>5, <1>t DEF Pop
<1>16. CASE Grant(t)
  <2>1. /\ UNCHANGED <<state, token, held>> /\ pc[t] = "grant"
        /\ pc' = [pc EXCEPT ![t] = "unpark"] /\ granted' \in Tokens
    BY <1>16, <1>t DEF Grant, TokensTyped
  <2>2. \A s \in Threads : ~ Owns(s)'
    BY <2>1, <1>3, <1>t DEF Owns
  <2>3. TokensDistinct' /\ TakersGranted' /\ HeldOnce'
    BY <2>1, <1>3, <1>t DEF IInv, TokensDistinct, TakersGranted, HeldOnce
  <2>4. OwnershipConserved'
    BY <2>1, <2>2, <1>3, MutexAssumption DEF OwnershipConserved
  <2>5. QED
    BY <2>3, <2>4, <1>t DEF IInv
<1>17. CASE UnparkGranted(t)
  BY <1>17, <1>5, <1>t DEF UnparkGranted
<1>18. CASE ClearGrant(t)
  <2>1. /\ UNCHANGED <<state, granted, token, held>> /\ pc[t] = "clear"
        /\ pc' = [pc EXCEPT ![t] = "release"]
    BY <1>18, <1>3 DEF ClearGrant
  <2>2. \A s \in Threads : Owns(s)' <=> Owns(s)
    BY <2>1, <1>t DEF Owns
  <2>3. TokensDistinct' /\ TakersGranted' /\ HeldOnce' /\ OwnershipConserved'
    BY <2>1, <2>2, <1>t DEF IInv, TokensDistinct, TakersGranted, HeldOnce,
       OwnershipConserved
  <2>4. QED
    BY <2>3, <1>t DEF IInv
<1>19. CASE Release(t)
  <2>1. /\ UNCHANGED <<granted, token, held>> /\ pc[t] = "release" /\ state' = FALSE
        /\ pc' = [pc EXCEPT ![t] = "run"]
    BY <1>19 DEF Release
  <2>2. \A s \in Threads : ~ Owns(s)'
    BY <2>1, <1>3, <1>t DEF Owns
  <2>3. TokensDistinct' /\ TakersGranted' /\ HeldOnce'
    BY <2>1, <1>t DEF IInv, TokensDistinct, TakersGranted, HeldOnce
  <2>4. OwnershipConserved'
    BY <2>1, <2>2, <1>3 DEF OwnershipConserved
  <2>5. QED
    BY <2>3, <2>4, <1>t DEF IInv
<1>20. QED
  BY <1>1, <1>6, <1>7, <1>8, <1>9, <1>10, <1>11, <1>12, <1>13, <1>14, <1>15, <1>16,
     <1>17, <1>18, <1>19 DEF LockStep, UnlockStep

\* The mutex has exactly one owner or one pending grant while its flag is set,
\* for any number of threads that unlock only what they hold.
THEOREM Ownership ==
  ASSUME Rogue = {}
  PROVE  Spec => []OwnershipConserved
<1>1. IInv => OwnershipConserved
  BY DEF IInv
<1>2. QED
  BY OwnershipInit, OwnershipStep, <1>1, PTL DEF Spec

\* Two threads never hold the mutex at once.
THEOREM Exclusion ==
  ASSUME Rogue = {}
  PROVE  Spec => []MutualExclusion
<1>1. OwnershipConserved => MutualExclusion
  BY DEF OwnershipConserved, MutualExclusion, Owns
<1>2. QED
  BY Ownership, <1>1, PTL

-----------------------------------------------------------------------------
(* Refinement *)

Inside == {t \in Threads : held[t] > 0}

\* At most one thread holds the mutex, and it does so once.
LEMMA HeldFacts ==
  ASSUME IInv
  PROVE  /\ \A t \in Threads : held[t] \in {0, 1}
         /\ \A s, t \in Threads : held[s] > 0 /\ held[t] > 0 => s = t
         /\ state = FALSE \/ granted # NoToken => \A t \in Threads : held[t] = 0
<1>1. \A t \in Threads : held[t] \in {0, 1}
  BY DEF IInv, TypeInv, TypeOK, HeldOnce
<1>2. \A t \in Threads : held[t] > 0 => Owns(t)
  BY DEF Owns
<1>3. state = FALSE \/ granted # NoToken => \A t \in Threads : ~ Owns(t)
  BY DEF IInv, OwnershipConserved
<1>4. QED
  BY <1>1, <1>2, <1>3 DEF IInv, OwnershipConserved

\* Every step is one of the abstract lock, or one a program cannot see.
LEMMA RefinementStep ==
  ASSUME Rogue = {}, IInv, IInv', [Next]_vars
  PROVE  [Abstract!Next]_Inside
<1>1. CASE UNCHANGED held
  BY <1>1 DEF Inside
<1>2. ASSUME NEW t \in Threads, NEW from, Acquired(t, from),
             \A s \in Threads : held[s] = 0
      PROVE  Abstract!Enter(t)
  <2>0. held \in [Threads -> Nat]
    BY DEF IInv, TypeInv, TypeOK
  <2>1. held'[t] = 1 /\ \A s \in Threads : s # t => held'[s] = 0
    BY <1>2, <2>0 DEF Acquired
  <2>2. Inside = {} /\ Inside' = {t}
    BY <1>2, <2>1 DEF Inside
  <2>3. QED
    BY <2>2 DEF Abstract!Enter, Inside
<1>3. ASSUME NEW t \in Threads, Unlock(t)
      PROVE  Abstract!Leave(t)
  <2>0. held \in [Threads -> Nat]
    BY DEF IInv, TypeInv, TypeOK
  <2>1. held[t] = 1 /\ \A s \in Threads : s # t => held[s] = 0
    BY <1>3, HeldFacts, Rogue = {} DEF Unlock
  <2>2. \A s \in Threads : held'[s] = 0
    BY <1>3, <2>0, <2>1 DEF Unlock
  <2>3. Inside = {t} /\ Inside' = {}
    BY <2>2, <2>1 DEF Inside
  <2>4. QED
    BY <2>3 DEF Abstract!Leave, Inside
<1>4. ASSUME NEW t \in Threads, TakeGrant(t)
      PROVE  \A s \in Threads : held[s] = 0
  <2>1. granted # NoToken
    BY <1>4, MutexAssumption
       DEF TakeGrant, Acquired, Goto, IInv, TypeInv, TokensTyped, TakersGranted
  <2>2. QED
    BY <2>1, HeldFacts
<1>5. ASSUME NEW t \in Threads, Withdraw(t), Acquired(t, "withdrawOwner")
      PROVE  \A s \in Threads : held[s] = 0
  <2>1. Owns(t) /\ held[t] = 0
    BY <1>5 DEF Acquired, Goto, Owns, IInv, HeldOnce
  <2>2. \A s \in Threads : Owns(s) => s = t
    BY <2>1 DEF IInv, OwnershipConserved
  <2>3. QED
    BY <2>1, <2>2, HeldFacts DEF Owns
<1>6. ASSUME NEW t \in Threads, LockStep(t), held' # held
      PROVE  (\E from \in Labels : Acquired(t, from)) /\ \A s \in Threads : held[s] = 0
  <2>1. CASE FastCas(t) \/ SlowCas(t) \/ SpinCas(t)
    BY <1>6, <2>1, HeldFacts DEF FastCas, SlowCas, SpinCas, CasSucceeds, CasFails, Labels
  <2>2. CASE TakeGrant(t)
    BY <2>2, <1>4 DEF TakeGrant, Labels
  <2>3. CASE Withdraw(t)
    BY <1>6, <2>3, <1>5 DEF Withdraw, Labels
  <2>4. QED
    BY <1>6, <2>1, <2>2, <2>3 DEF LockStep, FastLoad, SlowLoad, Park, Suspend, Resume,
       CheckGrant, RetryLoad, RetryCas, SpinLoad
<1>7. CASE held' # held
  <2>1. PICK t \in Threads : Lock(t) \/ LockStep(t) \/ Unlock(t) \/ UnlockStep(t)
    BY <1>7 DEF Next, vars, mutexVars
  <2>2. LockStep(t) \/ Unlock(t)
    BY <1>7, <2>1 DEF Lock, UnlockStep, Pop, Grant, UnparkGranted, ClearGrant, Release
  <2>3. Abstract!Enter(t) \/ Abstract!Leave(t)
    BY <1>7, <2>2, <1>2, <1>3, <1>6
  <2>4. QED
    BY <2>3 DEF Abstract!Next
<1>8. QED
  BY <1>1, <1>7

\* The mutex implements the abstract lock: each of its steps enters, leaves or
\* changes nothing a program can see.
THEOREM Refinement ==
  ASSUME Rogue = {}
  PROVE  Spec => ImplementsLock
<1>1. Init => Abstract!Init
  BY DEF Init, Abstract!Init
<1>2. IInv /\ IInv' /\ [Next]_vars => [Abstract!Next]_Inside
  BY RefinementStep
<1>3. QED
  BY OwnershipInit, OwnershipStep, <1>1, <1>2, PTL
     DEF Spec, ImplementsLock, Abstract!Spec, Inside

-----------------------------------------------------------------------------
(* No token is lost, whoever calls unlock().                               *)
(*                                                                         *)
(* NoLostToken is not inductive.  TokenInv adds that no two threads share  *)
(* a token, that a token is in the park table only once its thread has     *)
(* left its stack, and says the same of every thread, virtual or not.      *)

In(s, tk) == \E i \in DOMAIN s : s[i] = tk

LEMMA InAt ==
  ASSUME NEW s \in Seq(Tokens), NEW i \in 1 .. Len(s)
  PROVE  In(s, s[i])
BY LenProperties DEF In

LEMMA AppendKeeps ==
  ASSUME NEW s \in Seq(Tokens), NEW x \in Tokens
  PROVE  In(Append(s, x), x) /\ \A tk : In(s, tk) => In(Append(s, x), tk)
<1>1. /\ Len(s) \in Nat /\ DOMAIN s = 1 .. Len(s)
      /\ DOMAIN Append(s, x) = 1 .. (Len(s) + 1)
  OBVIOUS
<1>2. Append(s, x)[Len(s) + 1] = x /\ \A i \in 1 .. Len(s) : Append(s, x)[i] = s[i]
  BY AppendProperties
<1> QED
  BY <1>1, <1>2 DEF In

LEMMA TailKeeps ==
  ASSUME NEW s \in Seq(Tokens), s # <<>>, NEW tk, In(s, tk), tk # Head(s)
  PROVE  In(Tail(s), tk)
<1>1. PICK i \in 1 .. Len(s) : s[i] = tk
  BY DEF In
<1>2. i # 1
  BY <1>1
<1>3. i - 1 \in 1 .. Len(Tail(s)) /\ Tail(s)[i - 1] = s[i]
  <2>1. Tail(s) \in Seq(Tokens) /\ Len(Tail(s)) = Len(s) - 1
        /\ \A j \in 1 .. Len(Tail(s)) : Tail(s)[j] = s[j + 1]
    BY HeadTailProperties
  <2>2. i - 1 \in 1 .. Len(Tail(s))
    BY <1>2, <2>1
  <2>3. Tail(s)[i - 1] = s[(i - 1) + 1]
    BY <2>1, <2>2
  <2> QED
    BY <2>2, <2>3
<1>4. Tail(s) \in Seq(Tokens)
  BY HeadTailProperties
<1>5. In(Tail(s), Tail(s)[i - 1])
  BY <1>3, <1>4, InAt
<1> QED
  BY <1>1, <1>3, <1>5

\* retain takes out nothing but the token it was asked for (mutex.rs:102, 109).
LEMMA WithoutKeeps ==
  ASSUME NEW s \in Seq(Tokens), NEW x, NEW tk, In(s, tk), tk # x
  PROVE  In(Without(s, x), tk)
<1>1. CASE \E i \in DOMAIN s : s[i] = x
  <2> DEFINE k == CHOOSE i \in DOMAIN s : s[i] = x
             before == SubSeq(s, 1, k - 1)
             after == SubSeq(s, k + 1, Len(s))
  <2>1. k \in 1 .. Len(s) /\ s[k] = x
    BY <1>1
  <2>2. PICK i \in 1 .. Len(s) : s[i] = tk
    BY DEF In
  <2>3. Without(s, x) = before \o after
    BY <1>1 DEF Without
  <2> HIDE DEF k
  <2>4. \A j \in 1 .. Len(s) : s[j] \in Tokens
    BY LenProperties
  <2>5. /\ before \in Seq(Tokens) /\ Len(before) = k - 1
        /\ \A j \in 1 .. (k - 1) : before[j] = s[j]
    <3>1. \A j \in 1 .. (k - 1) : s[j] \in Tokens
      BY <2>1, <2>4
    <3>2. /\ before \in Seq(Tokens)
          /\ Len(before) = IF 1 <= k - 1 THEN (k - 1) - 1 + 1 ELSE 0
          /\ \A j \in 1 .. (k - 1) - 1 + 1 : before[j] = s[1 + j - 1]
      BY <2>1, <3>1, k - 1 \in Int, SubSeqProperties
    <3> QED
      BY <2>1, <3>2
  <2>6. /\ after \in Seq(Tokens) /\ Len(after) = Len(s) - k
        /\ \A j \in 1 .. (Len(s) - k) : after[j] = s[k + j]
    <3>1. \A j \in (k + 1) .. Len(s) : s[j] \in Tokens
      BY <2>1, <2>4
    <3>2. /\ after \in Seq(Tokens)
          /\ Len(after) = IF k + 1 <= Len(s) THEN Len(s) - (k + 1) + 1 ELSE 0
          /\ \A j \in 1 .. Len(s) - (k + 1) + 1 : after[j] = s[(k + 1) + j - 1]
      BY <2>1, <3>1, k + 1 \in Int, Len(s) \in Int, SubSeqProperties
    <3> QED
      BY <2>1, <3>2
  <2>7. /\ before \o after \in Seq(Tokens)
        /\ Len(before \o after) = Len(s) - 1
        /\ \A j \in 1 .. (Len(s) - 1) :
             (before \o after)[j] = IF j <= k - 1 THEN before[j] ELSE after[j - (k - 1)]
    <3> HIDE DEF before, after
    <3>1. /\ before \o after \in Seq(Tokens)
          /\ Len(before \o after) = Len(before) + Len(after)
          /\ \A j \in 1 .. Len(before) + Len(after) :
               (before \o after)[j] = IF j <= Len(before) THEN before[j] ELSE after[j - Len(before)]
      BY <2>5, <2>6, ConcatProperties
    <3>2. Len(before) + Len(after) = Len(s) - 1
      BY <2>1, <2>5, <2>6
    <3> QED
      BY <2>5, <3>1, <3>2
  <2>8. CASE i < k
    <3>1. i \in 1 .. (k - 1) /\ i \in 1 .. (Len(s) - 1)
      BY <2>1, <2>2, <2>8
    <3>2. (before \o after)[i] = tk
      <4> HIDE DEF before, after
      <4> QED
        BY <2>2, <2>5, <2>7, <3>1
    <3> QED
      BY <2>3, <2>7, <3>1, <3>2, InAt
  <2>9. CASE i > k
    <3>1. i - 1 \in 1 .. (Len(s) - 1) /\ ~ (i - 1 <= k - 1) /\ i - k \in 1 .. (Len(s) - k)
      BY <2>1, <2>2, <2>9
    <3>2. (before \o after)[i - 1] = tk
      <4> HIDE DEF before, after
      <4>1. (before \o after)[i - 1] = after[(i - 1) - (k - 1)]
        BY <2>7, <3>1
      <4>2. (i - 1) - (k - 1) = i - k /\ k + (i - k) = i
        BY <2>1, <2>2
      <4> QED
        BY <2>2, <2>6, <3>1, <4>1, <4>2
    <3> QED
      BY <2>3, <2>7, <3>1, <3>2, InAt
  <2> QED
    BY <2>1, <2>2, <2>8, <2>9
<1>2. CASE ~ \E i \in DOMAIN s : s[i] = x
  BY <1>2 DEF Without
<1> QED
  BY <1>1, <1>2

-----------------------------------------------------------------------------
(* Tokens *)

\* Somebody will take the token of t off the queue, or has and is about to unpark it.
Coming(t) == In(waiters, token[t]) \/ BeingWoken(t)

TokensKept ==
  \A t \in Threads :
    /\ pc[t] \in {"slowCas", "park", "suspend"} => token[t] \notin parked
    /\ pc[t] \in {"park", "suspend"} => Coming(t) \/ token[t] \in unparked
    /\ pc[t] = "parked" /\ token[t] \in parked => Coming(t) /\ token[t] \notin unparked

TokenInv == TypeInv /\ TokensDistinct /\ TokensKept

LEMMA TokenInit == Init => TokenInv
BY TypeInit DEF Init, TokenInv, TokensDistinct, TokensKept

\* A step that leaves the queue, the popped tokens and the park table alone, and the
\* thread in no place where it needs to be woken.
LEMMA TokensElsewhere ==
  ASSUME TokenInv, TypeInv', NEW t \in Threads, NEW to,
         pc' = [pc EXCEPT ![t] = to],
         token' \in {token, [token EXCEPT ![t] = NoToken]},
         to \notin {"slowCas", "park", "suspend", "parked"},
         pc[t] \in {"grant", "unpark"} => to = "unpark",
         UNCHANGED <<waiters, popped, parkVars>>
  PROVE  TokenInv'
<1> USE DEF TokenInv, TypeInv, TypeOK
<1>1. /\ pc'[t] = to /\ token'[t] \in {NoToken, token[t]}
      /\ \A s \in Threads \ {t} : pc'[s] = pc[s] /\ token'[s] = token[s]
  OBVIOUS
<1>2. TokensDistinct'
  <2>1. \A s \in Threads : token'[s] \in {NoToken, token[s]}
    BY <1>1
  <2>2. TokensDistinct
    OBVIOUS
  <2> QED
    BY ONLY <2>1, <2>2 DEF TokensDistinct
<1>3. \A s \in Threads \ {t} : Coming(s) => Coming(s)'
  BY <1>1 DEF Coming, BeingWoken
<1>4. TokensKept'
  BY <1>1, <1>3 DEF TokensKept, parkVars
<1> QED
  BY <1>2, <1>4

LEMMA SlowLoadKeeps == ASSUME TokenInv, TypeInv', NEW t \in Threads, SlowLoad(t) PROVE TokenInv'
<1> USE DEF TokenInv, TypeInv, TypeOK
<1>1. FreshToken \in Tokens /\ FreshToken \notin TokensInUse
  BY FreshTokenFact DEF SlowLoad
<1>2. /\ token'[t] = FreshToken
      /\ \A s \in Threads \ {t} : pc'[s] = pc[s] /\ token'[s] = token[s]
      /\ FreshToken \notin parked
      /\ \A s \in Threads : FreshToken # token[s]
      /\ UNCHANGED <<popped, parked, unparked>>
  BY <1>1 DEF SlowLoad, Goto, TokensInUse, parkVars
<1>3. TokensDistinct'
  BY <1>2 DEF TokensDistinct
<1>4. pc[t] = "slow" /\ (pc'[t] = "slowCas" \/ (pc'[t] = "park" /\ waiters' = Append(waiters, FreshToken)))
  BY DEF SlowLoad, Goto
<1>5. waiters' \in {waiters, Append(waiters, FreshToken)}
  BY DEF SlowLoad
<1>6. \A tk : In(waiters, tk) => In(waiters', tk)
  BY <1>1, <1>5, AppendKeeps
<1>7. \A s \in Threads \ {t} : Coming(s) => Coming(s)'
  BY <1>2, <1>4, <1>6 DEF Coming, BeingWoken
<1>8. pc'[t] = "park" => Coming(t)'
  <2> SUFFICES ASSUME pc'[t] = "park" PROVE In(waiters', token'[t])
    BY DEF Coming
  <2>1. waiters' = Append(waiters, FreshToken)
    BY <1>4
  <2>2. In(Append(waiters, FreshToken), FreshToken)
    BY <1>1, AppendKeeps
  <2> QED
    BY <1>2, <2>1, <2>2
<1>9. TokensKept'
  BY <1>2, <1>4, <1>7, <1>8 DEF TokensKept
<1> QED
  BY <1>3, <1>9

\* The thread that found the mutex taken queues its token before it parks.
LEMMA SlowCasKeeps == ASSUME TokenInv, TypeInv', NEW t \in Threads, SlowCas(t) PROVE TokenInv'
<1> USE DEF TokenInv, TypeInv, TypeOK
<1>1. CASE Acquired(t, "slowCas") /\ UNCHANGED waiters
  BY <1>1, TokensElsewhere DEF SlowCas, Acquired, Goto
<1>2. CASE CasFails /\ Goto(t, "slowCas", "park") /\ waiters' = Append(waiters, token[t])
             /\ UNCHANGED <<held, token>>
  <2>1. pc[t] = "slowCas" /\ pc'[t] = "park" /\ \A s \in Threads \ {t} : pc'[s] = pc[s]
    BY <1>2 DEF Goto
  <2>2. token[t] \in Tokens
    BY <2>1 DEF TokensTyped
  <2>3. UNCHANGED <<token, popped, parked, unparked>>
    BY <1>2 DEF SlowCas, parkVars
  <2>4. \A tk : In(waiters, tk) => In(waiters', tk)
    BY <1>2, <2>2, AppendKeeps
  <2>5. \A s \in Threads \ {t} : Coming(s) => Coming(s)'
    BY <2>1, <2>3, <2>4 DEF Coming, BeingWoken
  <2>6. Coming(t)'
    BY <1>2, <2>2, <2>3, AppendKeeps DEF Coming
  <2>7. TokensKept'
    BY <2>1, <2>3, <2>5, <2>6 DEF TokensKept
  <2>8. TokensDistinct'
    BY <2>3 DEF TokensDistinct
  <2> QED
    BY <2>7, <2>8
<1> QED
  BY <1>1, <1>2 DEF SlowCas

\* The two halves of parking: a permit is consumed by the thread it was left for, and
\* the thread is in the table only if there is none.
LEMMA ParkKeeps ==
  ASSUME TokenInv, TypeInv', NEW t \in Threads, Park(t) \/ Suspend(t)
  PROVE  TokenInv'
<1> USE DEF TokenInv, TypeInv, TypeOK
<1>1. pc[t] \in {"park", "suspend"} /\ token[t] \in Tokens /\ token[t] \notin parked
  BY DEF Park, Suspend, Goto, TokensTyped, TokensKept
<1>2. /\ UNCHANGED <<token, waiters, popped>>
      /\ \A s \in Threads \ {t} : pc'[s] = pc[s]
  BY DEF Park, Suspend, Goto
<1>3. \/ /\ token[t] \in unparked /\ pc'[t] = "woken"
         /\ unparked' = unparked \ {token[t]} /\ parked' = parked
      \/ /\ token[t] \notin unparked /\ pc'[t] = "suspend"
         /\ unparked' = unparked /\ parked' = parked
      \/ /\ token[t] \notin unparked /\ pc'[t] = "parked"
         /\ unparked' = unparked /\ parked' = parked \union {token[t]}
  BY DEF Park, Suspend, Goto, ParkConsumes, ParkSuspends, RouteConsumes, RouteParks, parkVars
<1>4. \A s \in Threads : Coming(s) <=> Coming(s)'
  BY <1>1, <1>2, <1>3 DEF Coming, BeingWoken
<1>5. \A s \in Threads \ {t} : token[s] # token[t]
  BY <1>1, MutexAssumption DEF TokensDistinct
<1>6. TokensKept'
  BY <1>1, <1>2, <1>3, <1>4, <1>5 DEF TokensKept
<1>7. TokensDistinct'
  BY <1>2 DEF TokensDistinct
<1> QED
  BY <1>6, <1>7

LEMMA WithdrawKeeps == ASSUME TokenInv, TypeInv', NEW t \in Threads, Withdraw(t) PROVE TokenInv'
<1> USE DEF TokenInv, TypeInv, TypeOK
<1>1. /\ pc[t] \in {"withdraw", "withdrawOwner"} /\ pc'[t] \in {"run", "slow"}
      /\ token' = [token EXCEPT ![t] = NoToken]
      /\ waiters' = Without(waiters, token[t])
      /\ UNCHANGED <<popped, parked, unparked>>
      /\ \A s \in Threads \ {t} : pc'[s] = pc[s]
  BY DEF Withdraw, Acquired, Goto, parkVars
<1>2. token[t] \in Tokens
  BY <1>1 DEF TokensTyped
<1>3. token'[t] = NoToken /\ \A s \in Threads \ {t} : token'[s] = token[s] /\ token[s] # token[t]
  BY <1>1, <1>2, MutexAssumption DEF TokensDistinct
<1>4. \A s \in Threads \ {t} : Coming(s) => Coming(s)'
  <2> SUFFICES ASSUME NEW s \in Threads \ {t}, Coming(s) PROVE Coming(s)'
    OBVIOUS
  <2>1. CASE In(waiters, token[s])
    BY <1>1, <1>3, <2>1, WithoutKeeps DEF Coming
  <2>2. CASE BeingWoken(s)
    BY <1>1, <1>3, <2>2 DEF Coming, BeingWoken
  <2> QED
    BY <2>1, <2>2 DEF Coming
<1>5. TokensKept'
  BY <1>1, <1>3, <1>4 DEF TokensKept
<1>6. TokensDistinct'
  BY <1>3 DEF TokensDistinct
<1> QED
  BY <1>5, <1>6

\* What leaves the queue is in the hands of the thread that took it.
LEMMA PopKeeps == ASSUME TokenInv, TypeInv', NEW t \in Threads, Pop(t) PROVE TokenInv'
<1> USE DEF TokenInv, TypeInv, TypeOK
<1>1. CASE waiters = <<>>
  BY <1>1, TokensElsewhere DEF Pop, Goto
<1>2. CASE waiters # <<>>
  <2>1. /\ pc[t] = "pop" /\ pc'[t] = "grant"
        /\ \A s \in Threads \ {t} : pc'[s] = pc[s] /\ popped'[s] = popped[s]
        /\ popped'[t] = Head(waiters) /\ waiters' = Tail(waiters)
        /\ UNCHANGED <<token, parked, unparked>>
    BY <1>2 DEF Pop, Goto, parkVars
  <2>2. \A s \in Threads : Coming(s) => Coming(s)'
    <3> SUFFICES ASSUME NEW s \in Threads, Coming(s) PROVE Coming(s)'
      OBVIOUS
    <3>1. CASE token[s] = Head(waiters)
      BY <2>1, <3>1 DEF Coming, BeingWoken
    <3>2. CASE token[s] # Head(waiters) /\ In(waiters, token[s])
      BY <1>2, <2>1, <3>2, TailKeeps DEF Coming
    <3>3. CASE BeingWoken(s)
      BY <2>1, <3>3 DEF Coming, BeingWoken
    <3> QED
      BY <3>1, <3>2, <3>3 DEF Coming
  <2>3. TokensKept'
    BY <2>1, <2>2 DEF TokensKept
  <2>4. TokensDistinct'
    BY <2>1 DEF TokensDistinct
  <2> QED
    BY <2>3, <2>4
<1> QED
  BY <1>1, <1>2

\* The unlocker ends with the thread out of the table or a permit for it.
LEMMA UnparkKeeps == ASSUME TokenInv, TypeInv', NEW t \in Threads, UnparkGranted(t) PROVE TokenInv'
<1> USE DEF TokenInv, TypeInv, TypeOK
<1> DEFINE tk == popped[t]
<1>1. /\ pc[t] = "unpark" /\ pc'[t] = "run"
      /\ \A s \in Threads \ {t} : pc'[s] = pc[s] /\ popped'[s] = popped[s]
      /\ UNCHANGED <<token, waiters>>
      /\ \/ tk \in parked /\ parked' = parked \ {tk} /\ unparked' = unparked
         \/ tk \notin parked /\ parked' = parked /\ unparked' = unparked \union {tk}
  BY DEF UnparkGranted, Goto, Unpark
<1>2. \A s \in Threads : token[s] # tk => (Coming(s) => Coming(s)')
  BY <1>1 DEF Coming, BeingWoken
<1>3. \A s \in Threads : pc'[s] \in {"slowCas", "park", "suspend", "parked"} => s # t /\ pc[s] = pc'[s]
  BY <1>1
<1>4. TokensKept'
  BY <1>1, <1>2, <1>3 DEF TokensKept
<1>5. TokensDistinct'
  BY <1>1 DEF TokensDistinct
<1> QED
  BY <1>4, <1>5

LEMMA TokenStep == TokenInv /\ [Next]_vars => TokenInv'
<1> SUFFICES ASSUME TokenInv, [Next]_vars PROVE TokenInv'
  OBVIOUS
<1>t. TypeInv'
  BY TypeStep DEF TokenInv
<1>0. CASE UNCHANGED vars
  BY <1>0, <1>t DEF vars, mutexVars, parkVars, TokenInv, TokensDistinct, TokensKept, Coming,
     In, BeingWoken
<1> SUFFICES ASSUME NEW t \in Threads,
                    Lock(t) \/ LockStep(t) \/ Unlock(t) \/ UnlockStep(t)
             PROVE  TokenInv'
  BY <1>0 DEF Next
<1>1. CASE SlowLoad(t)
  BY <1>1, <1>t, SlowLoadKeeps
<1>2. CASE SlowCas(t)
  BY <1>2, <1>t, SlowCasKeeps
<1>3. CASE Park(t) \/ Suspend(t)
  BY <1>3, <1>t, ParkKeeps
<1>4. CASE Withdraw(t)
  BY <1>4, <1>t, WithdrawKeeps
<1>5. CASE Pop(t)
  BY <1>5, <1>t, PopKeeps
<1>6. CASE UnparkGranted(t)
  BY <1>6, <1>t, UnparkKeeps
<1>7. CASE \/ Lock(t) \/ FastLoad(t) \/ FastCas(t) \/ Resume(t) \/ CheckGrant(t) \/ TakeGrant(t)
           \/ RetryLoad(t) \/ RetryCas(t) \/ SpinLoad(t) \/ SpinCas(t)
           \/ Unlock(t) \/ Grant(t) \/ ClearGrant(t) \/ Release(t)
  <2>1. PICK to \in Labels :
          /\ pc' = [pc EXCEPT ![t] = to]
          /\ to \notin {"slowCas", "park", "suspend", "parked"}
          /\ pc[t] \in {"grant", "unpark"} => to = "unpark"
    BY <1>7 DEF Lock, FastLoad, FastCas, Resume, CheckGrant, TakeGrant, RetryLoad, RetryCas,
       SpinLoad, SpinCas, Unlock, Grant, ClearGrant, Release, Goto, Acquired, Slow, Labels
  <2>2. /\ token' \in {token, [token EXCEPT ![t] = NoToken]}
        /\ UNCHANGED <<waiters, popped, parkVars>>
    BY <1>7 DEF Lock, FastLoad, FastCas, Resume, CheckGrant, TakeGrant, RetryLoad, RetryCas,
       SpinLoad, SpinCas, Unlock, Grant, ClearGrant, Release, Acquired
  <2> QED
    BY <1>t, <2>1, <2>2, TokensElsewhere
<1> QED
  BY <1>1, <1>2, <1>3, <1>4, <1>5, <1>6, <1>7 DEF LockStep, UnlockStep

\* No token is lost between the queue, the unlocker, the permits and the park table, however
\* the two halves of parking meet an unpark, and even if threads unlock what they do not hold.
THEOREM TokensNeverLost == Spec => []NoLostToken
<1>1. TokenInv => NoLostToken
  BY DEF TokenInv, TokensKept, Coming, In, NoLostToken, Queued, Threads
<1> QED
  BY TokenInit, TokenStep, <1>1, PTL DEF Spec

-----------------------------------------------------------------------------
(* Lists of waiters *)

Once(s) == \A i, j \in DOMAIN s : s[i] = s[j] => i = j

LEMMA ListEmpty == ASSUME NEW S PROVE <<>> \in Seq(S) /\ SeqElements(<<>>) = {} /\ Once(<<>>)
BY EmptySeq DEF SeqElements, Once

LEMMA ListAppend ==
  ASSUME NEW S, NEW s \in Seq(S), NEW x \in S
  PROVE  /\ Append(s, x) \in Seq(S)
         /\ SeqElements(Append(s, x)) = SeqElements(s) \union {x}
         /\ Once(s) /\ x \notin SeqElements(s) => Once(Append(s, x))
<1>1. /\ Len(s) \in Nat /\ DOMAIN s = 1 .. Len(s)
      /\ Append(s, x) \in Seq(S) /\ DOMAIN Append(s, x) = 1 .. (Len(s) + 1)
  BY AppendProperties
<1>2. Append(s, x)[Len(s) + 1] = x /\ \A i \in 1 .. Len(s) : Append(s, x)[i] = s[i]
  BY AppendProperties
<1>3. \A i \in 1 .. (Len(s) + 1) : i \in 1 .. Len(s) \/ i = Len(s) + 1
  BY <1>1
<1>4. SeqElements(Append(s, x)) = SeqElements(s) \union {x}
  <2>1. 1 .. Len(s) \subseteq 1 .. (Len(s) + 1) /\ Len(s) + 1 \in 1 .. (Len(s) + 1)
    BY <1>1
  <2> QED
    BY <1>1, <1>2, <1>3, <2>1 DEF SeqElements
<1>5. Once(s) /\ x \notin SeqElements(s) => Once(Append(s, x))
  BY <1>1, <1>2, <1>3 DEF SeqElements, Once
<1> QED
  BY <1>1, <1>4, <1>5

LEMMA ListTail ==
  ASSUME NEW S, NEW s \in Seq(S), s # <<>>
  PROVE  /\ Head(s) \in S /\ Tail(s) \in Seq(S)
         /\ SeqElements(s) = SeqElements(Tail(s)) \union {Head(s)}
         /\ Once(s) => Once(Tail(s)) /\ Head(s) \notin SeqElements(Tail(s))
<1>1. /\ Head(s) \in S /\ Tail(s) \in Seq(S) /\ Len(Tail(s)) = Len(s) - 1
      /\ \A i \in 1 .. Len(Tail(s)) : Tail(s)[i] = s[i + 1]
  BY HeadTailProperties
<1>2. /\ Len(s) \in Nat /\ Len(s) # 0 /\ DOMAIN s = 1 .. Len(s) /\ Head(s) = s[1]
      /\ DOMAIN Tail(s) = 1 .. (Len(s) - 1)
  BY <1>1, EmptySeq, LenProperties
<1>3. \A i \in 1 .. Len(s) : i = 1 \/ (i - 1 \in 1 .. (Len(s) - 1) /\ (i - 1) + 1 = i)
  BY <1>2
<1>4. \A i \in 1 .. (Len(s) - 1) : i + 1 \in 1 .. Len(s) /\ i + 1 # 1 /\ Tail(s)[i] = s[i + 1]
  BY <1>1, <1>2
<1>5. SeqElements(s) = SeqElements(Tail(s)) \union {Head(s)}
  <2>1. ASSUME NEW i \in DOMAIN s PROVE s[i] \in SeqElements(Tail(s)) \union {Head(s)}
    <3>1. CASE i = 1
      BY <1>2, <3>1
    <3>2. CASE i # 1
      <4>1. i - 1 \in DOMAIN Tail(s) /\ Tail(s)[i - 1] = s[i]
        BY <1>2, <1>3, <1>4, <3>2
      <4> QED
        BY <4>1 DEF SeqElements
    <3> QED
      BY <3>1, <3>2
  <2>2. ASSUME NEW i \in DOMAIN Tail(s) PROVE Tail(s)[i] \in SeqElements(s)
    BY <1>2, <1>4 DEF SeqElements
  <2>3. Head(s) \in SeqElements(s)
    BY <1>2 DEF SeqElements
  <2> QED
    BY <2>1, <2>2, <2>3 DEF SeqElements
<1>6. ASSUME Once(s) PROVE Once(Tail(s)) /\ Head(s) \notin SeqElements(Tail(s))
  <2>1. \A i, j \in 1 .. (Len(s) - 1) : s[i + 1] = s[j + 1] => i = j
    BY <1>2, <1>4, <1>6 DEF Once
  <2>2. \A i \in 1 .. (Len(s) - 1) : s[i + 1] # s[1]
    BY <1>2, <1>4, <1>6 DEF Once
  <2> QED
    BY <1>2, <1>4, <2>1, <2>2 DEF Once, SeqElements
<1> QED
  BY <1>1, <1>5, <1>6

-----------------------------------------------------------------------------
(* The mutex and the park table *)

MutexTokens ==
  /\ waiters \in Seq(Tokens)
  /\ pc \in [Threads -> Labels]
  /\ token \in [Threads -> Tokens \union {NoToken}]
  /\ popped \in [Threads -> Tokens \union {NoToken}]
  /\ TokensTyped

\* What a step of the mutex does to the park table, it does to tokens of its own.
OtherTokensStay ==
  \A x : x \notin Tokens => (x \in parked <=> x \in parked') /\ (x \in unparked <=> x \in unparked')

LEMMA MutexKeeps ==
  ASSUME MutexTokens, NEW t \in Threads, Lock(t) \/ LockStep(t) \/ Unlock(t) \/ UnlockStep(t)
  PROVE  MutexTokens' /\ OtherTokensStay
<1> USE DEF MutexTokens, TokensTyped, Goto, Labels
<1>1. CASE Park(t) \/ Suspend(t)
  <2>1. token[t] \in Tokens
    BY <1>1 DEF Park, Suspend
  <2>2. OtherTokensStay
    BY <1>1, <2>1 DEF Park, Suspend, ParkConsumes, ParkSuspends, RouteConsumes, RouteParks,
       parkVars, OtherTokensStay
  <2>3. MutexTokens'
    BY <1>1 DEF Park, Suspend
  <2> QED
    BY <2>2, <2>3
<1>2. CASE UnparkGranted(t)
  <2>1. popped[t] \in Tokens
    BY <1>2 DEF UnparkGranted
  <2>2. OtherTokensStay
    BY <1>2, <2>1 DEF UnparkGranted, Unpark, OtherTokensStay
  <2>3. MutexTokens'
    BY <1>2 DEF UnparkGranted
  <2> QED
    BY <2>2, <2>3
<1>3. CASE SlowLoad(t)
  <2>1. FreshToken \in Tokens
    BY <1>3, FreshTokenFact DEF SlowLoad
  <2>2. Append(waiters, FreshToken) \in Seq(Tokens)
    BY <2>1, AppendProperties
  <2> QED
    BY <1>3, <2>1, <2>2 DEF SlowLoad, parkVars, OtherTokensStay
<1>4. CASE SlowCas(t)
  <2>1. token[t] \in Tokens
    BY <1>4 DEF SlowCas, Acquired
  <2>2. Append(waiters, token[t]) \in Seq(Tokens)
    BY <2>1, AppendProperties
  <2>3. OtherTokensStay
    BY <1>4 DEF SlowCas, parkVars, OtherTokensStay
  <2>4. CASE Acquired(t, "slowCas") /\ UNCHANGED waiters
    BY <1>4, <2>1, <2>3, <2>4 DEF SlowCas, Acquired
  <2>5. CASE Goto(t, "slowCas", "park") /\ waiters' = Append(waiters, token[t])
             /\ UNCHANGED <<held, token>>
    BY <1>4, <2>1, <2>2, <2>3, <2>5 DEF SlowCas
  <2> QED
    BY <1>4, <2>4, <2>5 DEF SlowCas
<1>5. CASE Withdraw(t)
  <2>1. waiters' \in Seq(Tokens)
    BY <1>5, WithoutType DEF Withdraw
  <2>2. OtherTokensStay
    BY <1>5 DEF Withdraw, parkVars, OtherTokensStay
  <2>3. CASE Acquired(t, "withdrawOwner")
    BY <1>5, <2>1, <2>2, <2>3 DEF Withdraw, Acquired
  <2>4. CASE Goto(t, "withdraw", "slow") /\ token' = [token EXCEPT ![t] = NoToken]
             /\ UNCHANGED held
    BY <1>5, <2>1, <2>2, <2>4 DEF Withdraw
  <2> QED
    BY <1>5, <2>3, <2>4 DEF Withdraw
<1>6. CASE Pop(t)
  <2>1. OtherTokensStay
    BY <1>6 DEF Pop, parkVars, OtherTokensStay
  <2>2. CASE waiters # <<>>
    <3>1. Head(waiters) \in Tokens /\ Tail(waiters) \in Seq(Tokens)
      BY <2>2, HeadTailProperties
    <3> QED
      BY <1>6, <2>1, <2>2, <3>1 DEF Pop
  <2>3. CASE waiters = <<>>
    BY <1>6, <2>1, <2>3 DEF Pop
  <2> QED
    BY <2>2, <2>3
<1>7. CASE FastCas(t) \/ SpinCas(t) \/ TakeGrant(t)
  <2>1. UNCHANGED <<waiters, popped, parkVars>>
    BY <1>7 DEF FastCas, SpinCas, TakeGrant
  <2>2. OtherTokensStay
    BY <2>1 DEF parkVars, OtherTokensStay
  <2>3. \/ pc' = [pc EXCEPT ![t] = "run"] /\ token' = [token EXCEPT ![t] = NoToken]
        \/ token' = token /\ \E to \in {"slow", "spin"} : pc' = [pc EXCEPT ![t] = to]
    BY <1>7 DEF FastCas, SpinCas, TakeGrant, Acquired, Slow
  <2> QED
    BY <2>1, <2>2, <2>3
<1>8. CASE \/ Lock(t) \/ FastLoad(t) \/ Resume(t) \/ CheckGrant(t) \/ RetryLoad(t) \/ RetryCas(t)
           \/ SpinLoad(t) \/ Unlock(t) \/ Grant(t) \/ ClearGrant(t) \/ Release(t)
  <2>1. UNCHANGED <<waiters, popped, token, parkVars>>
    BY <1>8 DEF Lock, FastLoad, Resume, CheckGrant, RetryLoad, RetryCas, SpinLoad, Unlock, Grant,
       ClearGrant, Release
  <2>2. OtherTokensStay
    BY <2>1 DEF parkVars, OtherTokensStay
  <2>3. MutexTokens'
    BY <1>8, <2>1 DEF Lock, FastLoad, Resume, CheckGrant, RetryLoad, RetryCas, SpinLoad, Unlock,
       Grant, ClearGrant, Release, Slow
  <2> QED
    BY <2>2, <2>3
<1> QED
  BY <1>1, <1>2, <1>3, <1>4, <1>5, <1>6, <1>7, <1>8 DEF LockStep, UnlockStep

-----------------------------------------------------------------------------
(* The waiters *)

\* A virtual thread whose token is on the list or on its way to it.
HasToken(t) == t \in VThreads /\ phase[t] \in {"unlock", "sleep", "suspend", "parked"}

CondTyped ==
  /\ MutexTokens
  /\ CondTypeOK
  /\ \A t \in Threads : HasToken(t) => condToken[t] \in CondTokens
  /\ \A t \in Threads : phase[t] \in {"suspend", "parked"} => t \in VThreads

TokensApart ==
  \A s, t \in Threads : condToken[s] = condToken[t] /\ condToken[s] # NoToken => s = t

ListsInv ==
  /\ Once(vtWaiters) /\ Once(osWaiters)
  /\ \A t \in OsThreads : t \in SeqElements(osWaiters) => phase[t] \in {"unlock", "sleep"}
  /\ \A t \in Threads : HasToken(t) /\ phase[t] # "parked" => condToken[t] \notin parked

HandsInv ==
  \A t \in Threads :
    /\ phase[t] \notin {"unpark", "unparkAll"} => wake[t] = <<>>
    /\ phase[t] = "unpark" => wake[t] # <<>> /\ Tail(wake[t]) = <<>>

CondInv == CondTyped /\ TokensApart /\ ListsInv /\ HandsInv /\ WaiterAccounted

LEMMA CondInitInv == CondInit => CondInv
<1> SUFFICES ASSUME CondInit PROVE CondInv
  OBVIOUS
<1> USE DEF CondInit
<1>1. MutexTokens
  BY TypeInit DEF TypeInv, TypeOK, MutexTokens
<1>2. CondTypeOK
  BY ListEmpty DEF CondTypeOK, Phases
<1>3. CondTyped
  BY <1>1, <1>2 DEF CondTyped, HasToken
<1>4. ListsInv
  BY ListEmpty DEF ListsInv, HasToken
<1>5. TokensApart /\ HandsInv /\ WaiterAccounted
  BY DEF TokensApart, HandsInv, WaiterAccounted, InWait
<1> QED
  BY <1>3, <1>4, <1>5 DEF CondInv

\* A step that leaves the lists, the flags and the notifiers' hands alone.  The threads that
\* still wait are where they were, and their tokens are.
LEMMA WaitersStay ==
  ASSUME CondInv, CondTyped', NEW t \in Threads, NEW next \in Phases,
         phase' = [phase EXCEPT ![t] = next],
         InWait(t)' => InWait(t) /\ (phase[t] = "parked" <=> next = "parked"),
         {phase[t], next} \intersect {"unpark", "unparkAll"} # {} => next = phase[t],
         condToken' \in {condToken, [condToken EXCEPT ![t] = NoToken]},
         InWait(t)' => condToken' = condToken,
         InWait(t) /\ ~InWait(t)' => ~Registered(t),
         UNCHANGED <<vtWaiters, osWaiters, flag, wake>>,
         \A s \in Threads : HasToken(s) /\ HasToken(s)' =>
           (condToken[s] \in parked <=> condToken[s] \in parked') /\
           (condToken[s] \in unparked <=> condToken[s] \in unparked')
  PROVE  CondInv'
<1> USE DEF CondInv, CondTyped, CondTypeOK
<1>1. /\ phase'[t] = next /\ \A s \in Threads \ {t} : phase'[s] = phase[s]
      /\ \A s \in Threads \ {t} : condToken'[s] = condToken[s]
      /\ condToken'[t] \in {NoToken, condToken[t]}
  OBVIOUS
<1>2. TokensApart'
  <2>1. \A s \in Threads : condToken'[s] \in {NoToken, condToken[s]}
    BY <1>1
  <2>2. TokensApart
    OBVIOUS
  <2> QED
    BY ONLY <2>1, <2>2 DEF TokensApart
<1>3. \A s \in Threads : InWait(s)' =>
        InWait(s) /\ condToken'[s] = condToken[s] /\ (phase'[s] = "parked" <=> phase[s] = "parked")
  BY <1>1 DEF InWait
<1>4. ListsInv'
  <2>1. \A s \in OsThreads : s \in SeqElements(osWaiters) => phase'[s] \in {"unlock", "sleep"}
    <3> SUFFICES ASSUME NEW s \in OsThreads, s \in SeqElements(osWaiters)
                 PROVE  phase'[s] \in {"unlock", "sleep"}
      OBVIOUS
    <3>1. phase[s] \in {"unlock", "sleep"}
      BY DEF ListsInv
    <3>2. CASE s = t
      <4>1. s \notin VThreads /\ s \in Threads
        BY MutexAssumption DEF Threads
      <4>2. InWait(s) /\ Registered(s)
        BY <3>1, <4>1 DEF InWait, Registered
      <4>3. InWait(s)'
        BY <3>2, <4>2
      <4>4. phase'[s] \in {"unlock", "sleep", "suspend", "parked"}
        BY <4>3 DEF InWait
      <4> QED
        BY <4>1, <4>4
    <3>3. CASE s # t
      BY <1>1, <3>1, <3>3 DEF Threads
    <3> QED
      BY <3>2, <3>3
  <2>2. \A s \in Threads : HasToken(s)' => HasToken(s) /\ condToken'[s] = condToken[s]
                             /\ (phase'[s] = "parked" <=> phase[s] = "parked")
    BY <1>3 DEF HasToken, InWait
  <2> QED
    BY <2>1, <2>2 DEF ListsInv
<1>5. HandsInv'
  BY <1>1 DEF HandsInv
<1>6. WaiterAccounted'
  <2> SUFFICES ASSUME NEW s \in Threads, InWait(s)' PROVE (Registered(s) # Notified(s))'
    BY DEF WaiterAccounted
  <2>1. InWait(s) /\ condToken'[s] = condToken[s] /\ (phase'[s] = "parked" <=> phase[s] = "parked")
    BY <1>3
  <2>2. Registered(s) # Notified(s)
    BY <2>1 DEF WaiterAccounted
  <2>3. CASE s \in VThreads
    <3>1. HasToken(s) /\ HasToken(s)'
      BY <2>1, <2>3 DEF HasToken, InWait
    <3>2. Registered(s)' <=> Registered(s)
      BY <2>1, <2>3 DEF Registered
    <3>3. Notified(s)' <=> Notified(s)
      BY <2>1, <2>3, <3>1 DEF Notified
    <3>4. Registered(s) \in BOOLEAN /\ Notified(s) \in BOOLEAN
           /\ Registered(s)' \in BOOLEAN /\ Notified(s)' \in BOOLEAN
      BY <2>3 DEF Registered, Notified
    <3> QED
      BY <2>2, <3>2, <3>3, <3>4
  <2>4. CASE s \notin VThreads
    BY <2>2, <2>4 DEF Registered, Notified
  <2> QED
    BY <2>3, <2>4
<1> QED
  BY <1>2, <1>4, <1>5, <1>6

LEMMA FreshCondTokenFact ==
  ASSUME CondTokens \ CondTokensInUse # {}
  PROVE  FreshCondToken \in CondTokens /\ FreshCondToken \notin CondTokensInUse
BY DEF FreshCondToken

LEMMA CondTypedStep ==
  ASSUME CondInv, NEW t \in Threads,
         \/ ProgramStep(t) \/ MutexStep(t)
         \/ WaitRegister(t) \/ WaitStep(t)
         \/ Notify(t) \/ NotifyAll(t) \/ NotifyStep(t)
  PROVE  CondTyped'
<1> USE DEF CondInv, CondTyped, CondTypeOK, PhaseStep, HasToken, Phases
<1>m. ASSUME UNCHANGED mutexVars PROVE MutexTokens'
  BY <1>m DEF mutexVars, MutexTokens, TokensTyped
<1>1. CASE ProgramStep(t) \/ MutexStep(t)
  <2>1. MutexTokens'
    BY <1>1, MutexKeeps DEF ProgramStep, MutexStep
  <2> QED
    BY <1>1, <2>1 DEF ProgramStep, MutexStep, condVars
<1>2. CASE WaitRegister(t)
  <2>1. MutexTokens'
    BY <1>2, <1>m DEF WaitRegister, vars
  <2>2. CASE t \in VThreads
    <3>1. FreshCondToken \in CondTokens
      BY <1>2, <2>2, FreshCondTokenFact DEF WaitRegister
    <3>2. Append(vtWaiters, FreshCondToken) \in Seq(CondTokens)
      BY <3>1, AppendProperties
    <3> QED
      BY <1>2, <2>1, <2>2, <3>1, <3>2 DEF WaitRegister
  <2>3. CASE t \notin VThreads
    <3>1. Append(osWaiters, t) \in Seq(OsThreads)
      BY <2>3, AppendProperties DEF Threads
    <3> QED
      BY <1>2, <2>1, <2>3, <3>1 DEF WaitRegister
  <2> QED
    BY <2>2, <2>3
<1>3. CASE WaitUnlock(t) \/ WaitLock(t)
  <2>1. MutexTokens'
    BY <1>3, MutexKeeps DEF WaitUnlock, WaitLock
  <2> QED
    BY <1>3, <2>1 DEF WaitUnlock, WaitLock
<1>4. CASE WaitPark(t) \/ WaitSuspend(t) \/ WaitResume(t) \/ WaitSpin(t) \/ WaitReturn(t)
  <2>1. MutexTokens'
    BY <1>4, <1>m DEF WaitPark, WaitSuspend, WaitResume, WaitSpin, WaitReturn, vars
  <2> QED
    BY <1>4, <2>1 DEF WaitPark, WaitSuspend, WaitResume, WaitSpin, WaitReturn
<1>5. CASE Notify(t) \/ NotifyAll(t)
  <2>1. MutexTokens'
    BY <1>5, <1>m DEF Notify, NotifyAll, vars
  <2>2. CASE Notify(t) /\ vtWaiters # <<>>
    <3>1. Head(vtWaiters) \in CondTokens /\ Tail(vtWaiters) \in Seq(CondTokens)
      BY <2>2, ListTail
    <3>2. <<Head(vtWaiters)>> \in Seq(CondTokens)
      BY <3>1
    <3> QED
      BY <2>1, <2>2, <3>1, <3>2 DEF Notify
  <2>3. CASE Notify(t) /\ vtWaiters = <<>>
    BY <2>1, <2>3 DEF Notify
  <2>4. CASE NotifyAll(t)
    BY <2>1, <2>4, ListEmpty DEF NotifyAll
  <2> QED
    BY <1>5, <2>2, <2>3, <2>4
<1>6. CASE NotifyUnpark(t)
  <2>1. MutexTokens'
    BY <1>6, <1>m DEF NotifyUnpark
  <2>2. Tail(wake[t]) \in Seq(CondTokens)
    BY <1>6, ListTail DEF NotifyUnpark
  <2> QED
    BY <1>6, <2>1, <2>2 DEF NotifyUnpark
<1>7. CASE NotifyOs(t)
  <2>1. MutexTokens'
    BY <1>7, <1>m DEF NotifyOs, vars
  <2>2. CASE osWaiters # <<>>
    <3>1. Head(osWaiters) \in OsThreads /\ Tail(osWaiters) \in Seq(OsThreads)
      BY <2>2, ListTail
    <3> QED
      BY <1>7, <2>1, <2>2, <3>1 DEF NotifyOs
  <2>3. CASE osWaiters = <<>>
    BY <1>7, <2>1, <2>3 DEF NotifyOs
  <2> QED
    BY <2>2, <2>3
<1>8. CASE NotifyAllOs(t)
  <2>1. MutexTokens'
    BY <1>8, <1>m DEF NotifyAllOs, vars
  <2>2. \A o \in OsThreads : (flag[o] \/ o \in SeqElements(osWaiters)) \in BOOLEAN
    OBVIOUS
  <2>3. flag' \in [OsThreads -> BOOLEAN]
    BY <1>8, <2>2 DEF NotifyAllOs
  <2> QED
    BY <1>8, <2>1, <2>3, ListEmpty DEF NotifyAllOs
<1> QED
  BY <1>1, <1>2, <1>3, <1>4, <1>5, <1>6, <1>7, <1>8 DEF WaitStep, NotifyStep

\* A wait that registers gets a token nobody knows, or is on the list once.
LEMMA RegisterKeeps ==
  ASSUME CondInv, CondTyped', NEW t \in Threads, WaitRegister(t)
  PROVE  CondInv'
<1> USE DEF CondInv, CondTyped, CondTypeOK
<1>1. /\ phase[t] = "program" /\ phase'[t] = "unlock"
      /\ \A s \in Threads \ {t} : phase'[s] = phase[s]
      /\ UNCHANGED <<parked, unparked, wake>>
  BY DEF WaitRegister, PhaseStep, vars, parkVars
<1>2. HandsInv'
  BY <1>1 DEF HandsInv
<1>3. CASE t \in VThreads
  <2> DEFINE fresh == FreshCondToken
  <2>1. /\ condToken' = [condToken EXCEPT ![t] = fresh]
        /\ vtWaiters' = Append(vtWaiters, fresh)
        /\ UNCHANGED <<osWaiters, flag>>
        /\ fresh \in CondTokens /\ fresh \notin CondTokensInUse
    BY <1>3, FreshCondTokenFact DEF WaitRegister
  <2> HIDE DEF fresh
  <2>2. /\ fresh \notin SeqElements(vtWaiters) /\ fresh \notin parked /\ fresh \notin unparked
        /\ \A s \in Threads : fresh # condToken[s] /\ fresh \notin SeqElements(wake[s])
    BY <2>1 DEF CondTokensInUse
  <2>3. condToken'[t] = fresh /\ \A s \in Threads \ {t} : condToken'[s] = condToken[s]
    BY <2>1
  <2>4. /\ SeqElements(vtWaiters') = SeqElements(vtWaiters) \union {fresh}
        /\ Once(vtWaiters')
    BY <2>1, <2>2, ListAppend DEF ListsInv
  <2>5. TokensApart'
    BY <2>2, <2>3 DEF TokensApart
  <2>6. ListsInv'
    <3>1. \A s \in OsThreads : s \in Threads /\ s # t
      BY <1>3, MutexAssumption DEF Threads
    <3>2. \A s \in Threads : HasToken(s)' /\ phase'[s] # "parked" => condToken'[s] \notin parked'
      BY <1>1, <2>2, <2>3 DEF ListsInv, HasToken
    <3> QED
      BY <1>1, <2>1, <2>4, <3>1, <3>2 DEF ListsInv
  <2>7. WaiterAccounted'
    <3> SUFFICES ASSUME NEW s \in Threads, InWait(s)' PROVE (Registered(s) # Notified(s))'
      BY DEF WaiterAccounted
    <3>1. CASE s = t
      <4>1. Registered(s)'
        BY <1>3, <2>3, <2>4, <3>1 DEF Registered
      <4>2. ~Notified(s)'
        BY <1>1, <1>3, <2>2, <2>3, <3>1 DEF Notified
      <4> QED
        BY <4>1, <4>2
    <3>2. CASE s # t /\ s \in VThreads
      <4>1. InWait(s) /\ condToken'[s] = condToken[s] /\ condToken[s] # fresh
        BY <1>1, <2>2, <2>3, <3>2 DEF InWait
      <4>2. Registered(s) # Notified(s)
        BY <4>1 DEF WaiterAccounted
      <4>3. (Registered(s)' <=> Registered(s)) /\ (Notified(s)' <=> Notified(s))
        BY <1>1, <2>4, <3>2, <4>1 DEF Registered, Notified
      <4>4. Registered(s) \in BOOLEAN /\ Notified(s) \in BOOLEAN
             /\ Registered(s)' \in BOOLEAN /\ Notified(s)' \in BOOLEAN
        BY <3>2 DEF Registered, Notified
      <4> QED
        BY <4>2, <4>3, <4>4
    <3>3. CASE s # t /\ s \notin VThreads
      <4>1. Registered(s) # Notified(s)
        BY <1>1, <3>3 DEF WaiterAccounted, InWait
      <4> QED
        BY <2>1, <3>3, <4>1 DEF Registered, Notified
    <3> QED
      BY <3>1, <3>2, <3>3
  <2> QED
    BY <1>2, <2>5, <2>6, <2>7
<1>4. CASE t \notin VThreads
  <2>0. t \in OsThreads
    BY <1>4 DEF Threads
  <2>1. /\ flag' = [flag EXCEPT ![t] = FALSE] /\ osWaiters' = Append(osWaiters, t)
        /\ UNCHANGED <<vtWaiters, condToken>>
    BY <1>4 DEF WaitRegister
  <2>2. t \notin SeqElements(osWaiters)
    BY <1>1, <2>0 DEF ListsInv
  <2>3. SeqElements(osWaiters') = SeqElements(osWaiters) \union {t} /\ Once(osWaiters')
    BY <2>0, <2>1, <2>2, ListAppend DEF ListsInv
  <2>4. flag'[t] = FALSE /\ \A s \in OsThreads \ {t} : flag'[s] = flag[s]
    BY <2>0, <2>1
  <2>5. TokensApart'
    BY <2>1 DEF TokensApart
  <2>6. ListsInv'
    BY <1>1, <1>4, <2>1, <2>3 DEF ListsInv, HasToken, Threads
  <2>7. WaiterAccounted'
    <3> SUFFICES ASSUME NEW s \in Threads, InWait(s)' PROVE (Registered(s) # Notified(s))'
      BY DEF WaiterAccounted
    <3>1. CASE s = t
      BY <1>4, <2>3, <2>4, <3>1 DEF Registered, Notified
    <3>2. CASE s # t /\ s \in VThreads
      <4>1. InWait(s)
        BY <1>1, <3>2 DEF InWait
      <4>2. Registered(s) # Notified(s)
        BY <4>1 DEF WaiterAccounted
      <4>3. phase'[s] = phase[s]
        BY <1>1, <3>2
      <4> QED
        BY <1>1, <2>1, <3>2, <4>2, <4>3 DEF Registered, Notified
    <3>3. CASE s # t /\ s \notin VThreads
      <4>1. InWait(s)
        BY <1>1, <3>3 DEF InWait
      <4>2. Registered(s) # Notified(s)
        BY <4>1 DEF WaiterAccounted
      <4>3. flag'[s] = flag[s] /\ (s \in SeqElements(osWaiters') <=> s \in SeqElements(osWaiters))
        BY <2>3, <2>4, <3>3 DEF Threads
      <4> QED
        BY <3>3, <4>2, <4>3 DEF Registered, Notified
    <3> QED
      BY <3>1, <3>2, <3>3
  <2> QED
    BY <1>2, <2>5, <2>6, <2>7
<1> QED
  BY <1>3, <1>4

\* The thread is put in the table: there is no permit, so who has its token will find it.
LEMMA ParksKeeps ==
  ASSUME CondInv, CondTyped', NEW t \in Threads, WaitSuspend(t), RouteParks(condToken[t])
  PROVE  CondInv'
<1> USE DEF CondInv, CondTyped, CondTypeOK
<1>0. condToken[t] \in unparked \/ condToken[t] \notin unparked
  OBVIOUS
<1>1. /\ phase[t] = "suspend" /\ phase'[t] = "parked"
      /\ \A s \in Threads \ {t} : phase'[s] = phase[s]
      /\ condToken[t] \notin unparked /\ parked' = parked \union {condToken[t]} /\ unparked' = unparked
      /\ UNCHANGED <<vtWaiters, osWaiters, flag, condToken, wake>>
  BY DEF WaitSuspend, RouteParks, RouteConsumes, PhaseStep
<1>2. t \in VThreads /\ condToken[t] \in CondTokens
  BY <1>1 DEF HasToken
<1>3. \A s \in Threads \ {t} : condToken[s] # condToken[t]
  BY <1>2, CondAssumption DEF TokensApart
<1>4. TokensApart' /\ HandsInv'
  BY <1>1 DEF TokensApart, HandsInv
<1>5. ListsInv'
  <2>1. \A s \in OsThreads : s \in Threads /\ s # t
    BY <1>2, MutexAssumption DEF Threads
  <2> QED
    BY <1>1, <1>3, <2>1 DEF ListsInv, HasToken
<1>6. WaiterAccounted'
  <2> SUFFICES ASSUME NEW s \in Threads, InWait(s)' PROVE (Registered(s) # Notified(s))'
    BY DEF WaiterAccounted
  <2>1. InWait(s)
    BY <1>1 DEF InWait
  <2>2. Registered(s) # Notified(s)
    BY <2>1 DEF WaiterAccounted
  <2>3. CASE s = t
    BY <1>1, <1>2, <2>2, <2>3 DEF Registered, Notified
  <2>4. CASE s # t
    BY <1>1, <1>3, <2>2, <2>4 DEF Registered, Notified
  <2> QED
    BY <2>3, <2>4
<1> QED
  BY <1>4, <1>5, <1>6

\* What a notifier takes off the list is in its hands.
LEMMA NotifyKeeps ==
  ASSUME CondInv, CondTyped', NEW t \in Threads, Notify(t) \/ NotifyAll(t), phase'[t] # "notifyOs"
  PROVE  CondInv'
<1> USE DEF CondInv, CondTyped, CondTypeOK
<1>1. /\ phase[t] = "program" /\ phase'[t] \in {"unpark", "unparkAll"}
      /\ \A s \in Threads \ {t} : phase'[s] = phase[s]
      /\ UNCHANGED <<osWaiters, flag, condToken, parked, unparked>>
      /\ wake[t] = <<>> /\ \A u \in Threads \ {t} : wake'[u] = wake[u]
  BY DEF Notify, NotifyAll, PhaseStep, vars, parkVars, HandsInv
<1>2. /\ SeqElements(vtWaiters) = SeqElements(vtWaiters') \union SeqElements(wake'[t])
      /\ SeqElements(vtWaiters') \intersect SeqElements(wake'[t]) = {}
      /\ Once(vtWaiters')
      /\ phase'[t] = "unpark" => wake'[t] # <<>> /\ Tail(wake'[t]) = <<>>
  <2>1. CASE NotifyAll(t)
    <3>1. phase'[t] = "unparkAll" /\ wake'[t] = vtWaiters /\ vtWaiters' = <<>>
      BY <2>1 DEF NotifyAll, PhaseStep
    <3> QED
      BY <3>1, ListEmpty
  <2>2. CASE Notify(t)
    <3>1. /\ vtWaiters # <<>>
          /\ wake'[t] = <<Head(vtWaiters)>> /\ vtWaiters' = Tail(vtWaiters)
      BY <1>1, <2>2 DEF Notify, PhaseStep
    <3>2. SeqElements(<<Head(vtWaiters)>>) = {Head(vtWaiters)}
      BY DEF SeqElements
    <3>3. <<Head(vtWaiters)>> # <<>> /\ Tail(<<Head(vtWaiters)>>) = <<>>
      OBVIOUS
    <3>4. /\ SeqElements(vtWaiters) = SeqElements(Tail(vtWaiters)) \union {Head(vtWaiters)}
          /\ Once(Tail(vtWaiters)) /\ Head(vtWaiters) \notin SeqElements(Tail(vtWaiters))
      BY <3>1, ListTail DEF ListsInv
    <3> QED
      BY <3>1, <3>2, <3>3, <3>4
  <2> QED
    BY <2>1, <2>2
<1>3. TokensApart'
  BY <1>1 DEF TokensApart
<1>4. HandsInv'
  BY <1>1, <1>2 DEF HandsInv
<1>5. ListsInv'
  BY <1>1, <1>2 DEF ListsInv, HasToken, Threads
<1>6. WaiterAccounted'
  <2> SUFFICES ASSUME NEW s \in Threads, InWait(s)' PROVE (Registered(s) # Notified(s))'
    BY DEF WaiterAccounted
  <2>1. InWait(s) /\ s # t /\ phase'[s] = phase[s]
    BY <1>1 DEF InWait
  <2>2. Registered(s) # Notified(s)
    BY <2>1 DEF WaiterAccounted
  <2>3. CASE s \in VThreads
    <3> DEFINE tk == condToken[s]
               Hand == \E u \in Threads : tk \in SeqElements(wake[u])
               HandNext == \E u \in Threads : tk \in SeqElements(wake'[u])
    <3>1. HandNext <=> Hand \/ tk \in SeqElements(wake'[t])
      <4>1. tk \notin SeqElements(wake[t])
        BY <1>1, ListEmpty
      <4> QED
        BY <1>1, <4>1
    <3>2. Registered(s)' = (tk \in SeqElements(vtWaiters'))
      BY <1>1, <2>3 DEF Registered
    <3>3. Notified(s)' = (tk \in unparked \/ HandNext \/ (phase[s] = "parked" /\ tk \notin parked))
      BY <1>1, <2>1, <2>3 DEF Notified
    <3>4. /\ Registered(s) = (tk \in SeqElements(vtWaiters))
          /\ Notified(s) = (tk \in unparked \/ Hand \/ (phase[s] = "parked" /\ tk \notin parked))
      BY <2>3 DEF Registered, Notified
    <3> HIDE DEF Hand, HandNext, tk
    <3> QED
      BY <1>2, <2>2, <3>1, <3>2, <3>3, <3>4
  <2>4. CASE s \notin VThreads
    BY <1>1, <2>2, <2>4 DEF Registered, Notified
  <2> QED
    BY <2>3, <2>4
<1> QED
  BY <1>3, <1>4, <1>5, <1>6

\* A token in the notifier's hands ends as a thread out of the table or as a permit.
LEMMA NotifyUnparkKeeps ==
  ASSUME CondInv, CondTyped', NEW t \in Threads, NotifyUnpark(t)
  PROVE  CondInv'
<1> USE DEF CondInv, CondTyped, CondTypeOK
<1> DEFINE h == Head(wake[t])
<1>1. /\ phase[t] \in {"unpark", "unparkAll"} /\ phase'[t] \in {"program", "unparkAll"}
      /\ phase'[t] = "program" => phase[t] = "unpark"
      /\ \A s \in Threads \ {t} : phase'[s] = phase[s]
      /\ UNCHANGED <<vtWaiters, osWaiters, flag, condToken>>
      /\ wake[t] # <<>> /\ wake'[t] = Tail(wake[t])
      /\ \A u \in Threads \ {t} : wake'[u] = wake[u]
      /\ \/ h \in parked /\ parked' = parked \ {h} /\ unparked' = unparked
         \/ h \notin parked /\ parked' = parked /\ unparked' = unparked \union {h}
  BY DEF NotifyUnpark, PhaseStep, Unpark
<1>2. SeqElements(wake[t]) = SeqElements(wake'[t]) \union {h}
  BY <1>1, ListTail
<1>3. TokensApart'
  BY <1>1 DEF TokensApart
<1>4. HandsInv'
  BY <1>1 DEF HandsInv
<1>5. ListsInv'
  BY <1>1 DEF ListsInv, HasToken, Threads
<1>6. WaiterAccounted'
  <2> SUFFICES ASSUME NEW s \in Threads, InWait(s)' PROVE (Registered(s) # Notified(s))'
    BY DEF WaiterAccounted
  <2>1. InWait(s) /\ s # t /\ phase'[s] = phase[s]
    BY <1>1 DEF InWait
  <2>2. Registered(s) # Notified(s)
    BY <2>1 DEF WaiterAccounted
  <2>3. CASE s \in VThreads
    <3> DEFINE tk == condToken[s]
               Hand == \E u \in Threads : tk \in SeqElements(wake[u])
               HandNext == \E u \in Threads : tk \in SeqElements(wake'[u])
    <3>1. Hand <=> HandNext \/ tk = h
      BY <1>1, <1>2
    <3>2. phase[s] # "parked" => tk \notin parked
      BY <2>1, <2>3 DEF ListsInv, HasToken, InWait
    <3>3. Registered(s)' = (tk \in SeqElements(vtWaiters))
      BY <1>1, <2>3 DEF Registered
    <3>4. Notified(s)' = (tk \in unparked' \/ HandNext \/ (phase[s] = "parked" /\ tk \notin parked'))
      BY <1>1, <2>1, <2>3 DEF Notified
    <3>5. /\ Registered(s) = (tk \in SeqElements(vtWaiters))
          /\ Notified(s) = (tk \in unparked \/ Hand \/ (phase[s] = "parked" /\ tk \notin parked))
      BY <2>3 DEF Registered, Notified
    <3> HIDE DEF Hand, HandNext, tk, h
    <3>6. Notified(s)' = Notified(s)
      BY <1>1, <3>1, <3>2, <3>4, <3>5
    <3> QED
      BY <2>2, <3>3, <3>5, <3>6
  <2>4. CASE s \notin VThreads
    BY <1>1, <2>2, <2>4 DEF Registered, Notified
  <2> QED
    BY <2>3, <2>4
<1> QED
  BY <1>3, <1>4, <1>5, <1>6

\* OS threads: the flag of whoever leaves the list is set.
LEMMA NotifyOsKeeps ==
  ASSUME CondInv, CondTyped', NEW t \in Threads, NotifyOs(t) \/ NotifyAllOs(t)
  PROVE  CondInv'
<1> USE DEF CondInv, CondTyped, CondTypeOK
<1>1. /\ phase[t] \in {"notifyOs", "unparkAll"} /\ phase'[t] = "program" /\ wake[t] = <<>>
      /\ \A s \in Threads \ {t} : phase'[s] = phase[s]
      /\ UNCHANGED <<vtWaiters, condToken, wake, parked, unparked>>
  BY DEF NotifyOs, NotifyAllOs, PhaseStep, vars, parkVars, HandsInv
<1>2. \E gone \in SUBSET OsThreads :
        /\ SeqElements(osWaiters) = SeqElements(osWaiters') \union gone
        /\ SeqElements(osWaiters') \intersect gone = {}
        /\ Once(osWaiters')
        /\ \A o \in OsThreads \ gone : flag'[o] = flag[o]
        /\ \A o \in gone : flag'[o] = TRUE
  <2>1. CASE NotifyOs(t) /\ osWaiters = <<>>
    <3>1. UNCHANGED <<osWaiters, flag>>
      BY <2>1 DEF NotifyOs
    <3> WITNESS {} \in SUBSET OsThreads
    <3> QED
      BY <3>1 DEF ListsInv
  <2>2. CASE NotifyOs(t) /\ osWaiters # <<>>
    <3>1. flag' = [flag EXCEPT ![Head(osWaiters)] = TRUE] /\ osWaiters' = Tail(osWaiters)
      BY <2>2 DEF NotifyOs
    <3>2. /\ Head(osWaiters) \in OsThreads
          /\ SeqElements(osWaiters) = SeqElements(Tail(osWaiters)) \union {Head(osWaiters)}
          /\ Once(Tail(osWaiters)) /\ Head(osWaiters) \notin SeqElements(Tail(osWaiters))
      BY <2>2, ListTail DEF ListsInv
    <3>3. /\ \A o \in OsThreads \ {Head(osWaiters)} : flag'[o] = flag[o]
          /\ \A o \in {Head(osWaiters)} : flag'[o] = TRUE
      BY <3>1, <3>2
    <3> {Head(osWaiters)} \in SUBSET OsThreads
      BY <3>2
    <3> WITNESS {Head(osWaiters)} \in SUBSET OsThreads
    <3> QED
      BY <3>1, <3>2, <3>3
  <2>3. CASE NotifyAllOs(t)
    <3>1. /\ flag' = [o \in OsThreads |-> flag[o] \/ o \in SeqElements(osWaiters)]
          /\ osWaiters' = <<>>
      BY <2>3 DEF NotifyAllOs
    <3>2. SeqElements(osWaiters) \subseteq OsThreads
      BY LenProperties DEF SeqElements
    <3>3. /\ \A o \in OsThreads \ SeqElements(osWaiters) : flag'[o] = flag[o]
          /\ \A o \in SeqElements(osWaiters) : flag'[o] = TRUE
      BY <3>1, <3>2
    <3> SeqElements(osWaiters) \in SUBSET OsThreads
      BY <3>2
    <3> WITNESS SeqElements(osWaiters) \in SUBSET OsThreads
    <3> QED
      BY <3>1, <3>3, ListEmpty
  <2> QED
    BY <2>1, <2>2, <2>3
<1>3. TokensApart' /\ HandsInv'
  BY <1>1 DEF TokensApart, HandsInv
<1>4. ListsInv'
  BY <1>1, <1>2 DEF ListsInv, HasToken, Threads
<1>5. WaiterAccounted'
  <2> SUFFICES ASSUME NEW s \in Threads, InWait(s)' PROVE (Registered(s) # Notified(s))'
    BY DEF WaiterAccounted
  <2>1. InWait(s) /\ s # t /\ phase'[s] = phase[s]
    BY <1>1 DEF InWait
  <2>2. Registered(s) # Notified(s)
    BY <2>1 DEF WaiterAccounted
  <2>3. CASE s \in VThreads
    BY <1>1, <2>1, <2>2, <2>3 DEF Registered, Notified
  <2>4. CASE s \notin VThreads
    <3>1. s \in OsThreads
      BY <2>4 DEF Threads
    <3>2. (s \in SeqElements(osWaiters)) # flag[s]
      BY <2>2, <2>4 DEF Registered, Notified
    <3>3. (s \in SeqElements(osWaiters')) # flag'[s]
      <4>1. PICK gone \in SUBSET OsThreads :
              /\ SeqElements(osWaiters) = SeqElements(osWaiters') \union gone
              /\ SeqElements(osWaiters') \intersect gone = {}
              /\ \A o \in OsThreads \ gone : flag'[o] = flag[o]
              /\ \A o \in gone : flag'[o] = TRUE
        BY <1>2
      <4>2. CASE s \in gone
        BY <3>1, <4>1, <4>2
      <4>3. CASE s \notin gone
        <5>1. s \in SeqElements(osWaiters') <=> s \in SeqElements(osWaiters)
          BY <4>1, <4>3
        <5>2. flag'[s] = flag[s]
          BY <3>1, <4>1, <4>3
        <5> QED
          BY <3>2, <5>1, <5>2
      <4> QED
        BY <4>2, <4>3
    <3> QED
      BY <2>4, <3>3 DEF Registered, Notified
  <2> QED
    BY <2>3, <2>4
<1> QED
  BY <1>3, <1>4, <1>5

\* A thread in a wait that was notified is not on the list any more.
LEMMA NotifiedIsOff ==
  ASSUME CondInv, NEW t \in Threads, InWait(t), Notified(t)
  PROVE  ~Registered(t)
<1>1. Registered(t) # Notified(t)
  BY DEF CondInv, WaiterAccounted
<1>2. CASE t \in VThreads
  BY <1>1, <1>2 DEF Notified, Registered
<1>3. CASE t \notin VThreads
  <2>1. flag[t] \in BOOLEAN
    BY <1>3 DEF CondInv, CondTyped, CondTypeOK, Threads
  <2>2. flag[t]
    BY <1>3 DEF Notified
  <2>3. (t \in SeqElements(osWaiters)) # flag[t]
    BY <1>1, <1>3 DEF Notified, Registered
  <2>4. t \notin SeqElements(osWaiters)
    BY <2>1, <2>2, <2>3
  <2> QED
    BY <1>3, <2>4 DEF Registered
<1> QED
  BY <1>2, <1>3

\* The mutex is at work, for the program or for a thread in wait().
LEMMA MutexPartKeeps ==
  ASSUME CondInv, CondTyped', NEW t \in Threads,
         ProgramStep(t) \/ MutexStep(t) \/ WaitUnlock(t) \/ WaitLock(t)
  PROVE  CondInv'
<1> USE DEF PhaseStep, InWait
<1>1. OtherTokensStay
  BY MutexKeeps DEF CondInv, CondTyped, ProgramStep, MutexStep, WaitUnlock, WaitLock
<1>2. \A s \in Threads : HasToken(s) =>
        (condToken[s] \in parked <=> condToken[s] \in parked') /\
        (condToken[s] \in unparked <=> condToken[s] \in unparked')
  BY <1>1, CondAssumption DEF CondInv, CondTyped, OtherTokensStay
<1>3. phase \in [Threads -> Phases]
  BY DEF CondInv, CondTyped, CondTypeOK
<1>4. UNCHANGED <<vtWaiters, osWaiters, flag, wake, condToken>>
  BY DEF ProgramStep, MutexStep, WaitUnlock, WaitLock, condVars
<1>5. CASE ProgramStep(t) \/ MutexStep(t)
  <2>1. phase' = phase
    BY <1>5 DEF ProgramStep, MutexStep, condVars
  <2>2. phase[t] \in Phases /\ phase' = [phase EXCEPT ![t] = phase[t]]
    BY <1>3, <2>1
  <2>3. InWait(t)' <=> InWait(t)
    BY <2>1
  <2> QED
    BY <1>2, <1>4, <2>2, <2>3, WaitersStay
<1>6. CASE WaitUnlock(t)
  <2>1. phase[t] = "unlock" /\ phase' = [phase EXCEPT ![t] = "sleep"] /\ phase'[t] = "sleep"
    BY <1>3, <1>6 DEF WaitUnlock
  <2>2. InWait(t) /\ InWait(t)' /\ "sleep" \in Phases
    BY <2>1 DEF Phases
  <2> QED
    BY <1>2, <1>4, <2>1, <2>2, WaitersStay
<1>7. CASE WaitLock(t)
  <2>1. phase[t] = "relock" /\ phase' = [phase EXCEPT ![t] = "return"] /\ phase'[t] = "return"
    BY <1>3, <1>7 DEF WaitLock
  <2>2. ~InWait(t) /\ ~InWait(t)' /\ "return" \in Phases
    BY <2>1 DEF Phases
  <2> QED
    BY <1>2, <1>4, <2>1, <2>2, WaitersStay
<1> QED
  BY <1>5, <1>6, <1>7

\* A sleep ends with a permit, out of the table, or with the flag set: after a notify.
WakeStep(t) ==
  \/ WaitPark(t) /\ ParkConsumes(condToken[t])
  \/ WaitSuspend(t) /\ RouteConsumes(condToken[t])
  \/ WaitResume(t) \/ WaitSpin(t)

LEMMA WakesNotified ==
  ASSUME CondInv, NEW t \in Threads, WakeStep(t)
  PROVE  ~Registered(t)
<1> USE DEF WakeStep
<1>1. InWait(t)
  BY DEF WaitPark, WaitSuspend, WaitResume, WaitSpin, PhaseStep, InWait
<1>2. Notified(t)
  <2>1. CASE \/ WaitPark(t) /\ ParkConsumes(condToken[t])
             \/ WaitSuspend(t) /\ RouteConsumes(condToken[t])
    <3>1. t \in VThreads /\ condToken[t] \in unparked
      BY <2>1 DEF WaitPark, WaitSuspend, PhaseStep, ParkConsumes, RouteConsumes, RouteParks,
         CondInv, CondTyped
    <3> QED
      BY <3>1 DEF Notified
  <2>2. CASE WaitResume(t)
    <3>1. t \in VThreads /\ phase[t] = "parked" /\ condToken[t] \notin parked
      BY <2>2 DEF WaitResume, PhaseStep, CondInv, CondTyped
    <3> QED
      BY <3>1 DEF Notified
  <2>3. CASE WaitSpin(t)
    <3>1. t \notin VThreads /\ flag[t]
      BY <2>3, MutexAssumption DEF WaitSpin
    <3> QED
      BY <3>1 DEF Notified
  <2> QED
    BY <2>1, <2>2, <2>3
<1> QED
  BY <1>1, <1>2, NotifiedIsOff

LEMMA WakesKeep ==
  ASSUME CondInv, CondTyped', NEW t \in Threads, WakeStep(t)
  PROVE  CondInv'
<1> USE DEF WakeStep
<1>1. phase \in [Threads -> Phases] /\ "relock" \in Phases
  BY DEF CondInv, CondTyped, CondTypeOK, Phases
<1>2. /\ InWait(t) /\ phase' = [phase EXCEPT ![t] = "relock"]
      /\ UNCHANGED <<vtWaiters, osWaiters, flag, wake, condToken>>
  BY <1>1 DEF WaitPark, WaitSuspend, WaitResume, WaitSpin, PhaseStep, InWait, ParkConsumes,
     ParkSuspends, RouteConsumes, RouteParks
<1>3. phase'[t] = "relock" /\ ~InWait(t)' /\ ~HasToken(t)'
  BY <1>1, <1>2 DEF InWait, HasToken
<1>5. ~Registered(t)
  BY WakesNotified
<1>6. \A s \in Threads : HasToken(s) /\ HasToken(s)' =>
        (condToken[s] \in parked <=> condToken[s] \in parked') /\
        (condToken[s] \in unparked <=> condToken[s] \in unparked')
  <2>1. \A s \in Threads : HasToken(s) /\ HasToken(s)' => condToken[s] # condToken[t]
    BY <1>3, CondAssumption DEF CondInv, CondTyped, TokensApart
  <2>2. parked' = parked /\ unparked' \in {unparked, unparked \ {condToken[t]}}
    BY DEF WaitPark, WaitSuspend, WaitResume, WaitSpin, ParkConsumes, ParkSuspends,
       RouteConsumes, RouteParks, vars, parkVars
  <2> QED
    BY <2>1, <2>2
<1>7. phase[t] \notin {"unpark", "unparkAll"}
  BY <1>2 DEF InWait
<1> QED
  BY <1>1, <1>2, <1>3, <1>5, <1>6, <1>7, WaitersStay

\* Steps that only move their thread along.
LEMMA MovesKeep ==
  ASSUME CondInv, CondTyped', NEW t \in Threads,
         \/ WaitPark(t) /\ ParkSuspends(condToken[t])
         \/ WaitReturn(t)
         \/ Notify(t) /\ phase'[t] = "notifyOs"
  PROVE  CondInv'
<1> USE DEF PhaseStep, InWait
<1>1. phase \in [Threads -> Phases] /\ {"suspend", "program", "notifyOs"} \subseteq Phases
  BY DEF CondInv, CondTyped, CondTypeOK, Phases
<1>2. /\ UNCHANGED <<parked, unparked, vtWaiters, osWaiters, flag, wake>>
      /\ \/ /\ phase[t] = "sleep" /\ phase' = [phase EXCEPT ![t] = "suspend"]
            /\ condToken' = condToken
         \/ /\ phase[t] = "return" /\ phase' = [phase EXCEPT ![t] = "program"]
            /\ condToken' = [condToken EXCEPT ![t] = NoToken]
         \/ /\ phase[t] = "program" /\ phase' = [phase EXCEPT ![t] = "notifyOs"]
            /\ condToken' = condToken
  <2>1. CASE WaitPark(t) /\ ParkSuspends(condToken[t])
    BY <2>1 DEF WaitPark, ParkSuspends, ParkConsumes, parkVars
  <2>2. CASE WaitReturn(t)
    BY <2>2 DEF WaitReturn, vars, parkVars
  <2>3. CASE Notify(t) /\ phase'[t] = "notifyOs"
    BY <1>1, <2>3 DEF Notify, vars, parkVars
  <2> QED
    BY <2>1, <2>2, <2>3
<1>3. CASE phase[t] = "sleep" /\ phase' = [phase EXCEPT ![t] = "suspend"] /\ condToken' = condToken
  <2>1. phase'[t] = "suspend"
    BY <1>1, <1>3
  <2> QED
    BY <1>1, <1>2, <1>3, <2>1, WaitersStay
<1>4. CASE /\ phase[t] = "return" /\ phase' = [phase EXCEPT ![t] = "program"]
           /\ condToken' = [condToken EXCEPT ![t] = NoToken]
  <2>1. phase'[t] = "program"
    BY <1>1, <1>4
  <2>2. \A s \in Threads : HasToken(s)' => s # t
    BY <2>1 DEF HasToken
  <2> QED
    BY <1>1, <1>2, <1>4, <2>1, <2>2, WaitersStay
<1>5. CASE phase[t] = "program" /\ phase' = [phase EXCEPT ![t] = "notifyOs"] /\ condToken' = condToken
  <2>1. phase'[t] = "notifyOs"
    BY <1>1, <1>5
  <2> QED
    BY <1>1, <1>2, <1>5, <2>1, WaitersStay
<1> QED
  BY <1>2, <1>3, <1>4, <1>5

LEMMA CondStepInv == CondInv /\ [CondNext]_allVars => CondInv'
<1> SUFFICES ASSUME CondInv, [CondNext]_allVars PROVE CondInv'
  OBVIOUS
<1>1. CASE UNCHANGED allVars
  <2> USE <1>1 DEF allVars, vars, mutexVars, parkVars, condVars, CondInv
  <2>1. CondTyped'
    <3>1. MutexTokens'
      BY DEF CondTyped, MutexTokens, TokensTyped
    <3>2. CondTypeOK'
      BY DEF CondTyped, CondTypeOK
    <3> QED
      BY <3>1, <3>2 DEF CondTyped, HasToken
  <2>2. TokensApart' /\ ListsInv' /\ HandsInv'
    BY DEF TokensApart, ListsInv, HandsInv, HasToken
  <2>3. WaiterAccounted'
    BY DEF WaiterAccounted, InWait, Registered, Notified
  <2> QED
    BY <2>1, <2>2, <2>3
<1>2. ASSUME NEW t \in Threads,
             \/ ProgramStep(t) \/ MutexStep(t)
             \/ WaitRegister(t) \/ WaitStep(t)
             \/ Notify(t) \/ NotifyAll(t) \/ NotifyStep(t)
      PROVE  CondInv'
  <2>1. CondTyped'
    BY <1>2, CondTypedStep
  <2>2. CASE ProgramStep(t) \/ MutexStep(t) \/ WaitUnlock(t) \/ WaitLock(t)
    BY <2>1, <2>2, MutexPartKeeps
  <2>3. CASE WaitRegister(t)
    BY <2>1, <2>3, RegisterKeeps
  <2>4. CASE WaitPark(t)
    <3>1. ParkConsumes(condToken[t]) \/ ParkSuspends(condToken[t])
      BY <2>4 DEF WaitPark
    <3> QED
      BY <2>1, <2>4, <3>1, WakesKeep, MovesKeep DEF WakeStep
  <2>5. CASE WaitSuspend(t)
    <3>1. RouteConsumes(condToken[t]) \/ RouteParks(condToken[t])
      BY <2>5 DEF WaitSuspend
    <3> QED
      BY <2>1, <2>5, <3>1, WakesKeep, ParksKeeps DEF WakeStep
  <2>6. CASE WaitResume(t) \/ WaitSpin(t)
    BY <2>1, <2>6, WakesKeep DEF WakeStep
  <2>7. CASE WaitReturn(t)
    BY <2>1, <2>7, MovesKeep
  <2>8. CASE Notify(t) \/ NotifyAll(t)
    <3>1. phase'[t] = "notifyOs" => Notify(t)
      BY <2>8 DEF NotifyAll, PhaseStep, CondInv, CondTyped, CondTypeOK
    <3> QED
      BY <2>1, <2>8, <3>1, NotifyKeeps, MovesKeep
  <2>9. CASE NotifyUnpark(t)
    BY <2>1, <2>9, NotifyUnparkKeeps
  <2>10. CASE NotifyOs(t) \/ NotifyAllOs(t)
    BY <2>1, <2>10, NotifyOsKeeps
  <2> QED
    BY <1>2, <2>2, <2>3, <2>4, <2>5, <2>6, <2>7, <2>8, <2>9, <2>10 DEF WaitStep, NotifyStep
<1> QED
  BY <1>1, <1>2 DEF CondNext

\* A thread between its registration and its wake-up is on the list of waiters, or a notifier, a
\* permit or the flag has it, and never both: no notify is lost between the registration and the
\* sleep, and none is counted twice (condition.rs:58-66, 93-104).
THEOREM WaitersAccounted == CondSpec => []WaiterAccounted
<1>1. CondInv => WaiterAccounted
  BY DEF CondInv
<1> QED
  BY <1>1, CondInitInv, CondStepInv, PTL DEF CondSpec

\* A thread leaves its sleep only when a notify took it off its list: the hand-off of a mutex and
\* the wake-up of another waiter never end a wait (condition.rs:65, 74).
THEOREM WakesAreNotified == CondSpec => WakesOnlyWhenNotified
<1>1. ASSUME CondInv, [CondNext]_allVars
      PROVE  [\A t \in Threads :
                (InWait(t) /\ phase'[t] = "relock") => ~ Registered(t)]_allVars
  <2> SUFFICES ASSUME CondNext, NEW s \in Threads, InWait(s), phase'[s] = "relock"
               PROVE  ~Registered(s)
    BY <1>1
  <2>1. PICK t \in Threads :
          \/ ProgramStep(t) \/ MutexStep(t)
          \/ WaitRegister(t) \/ WaitStep(t)
          \/ Notify(t) \/ NotifyAll(t) \/ NotifyStep(t)
    BY DEF CondNext
  <2>2. phase \in [Threads -> Phases]
    BY <1>1 DEF CondInv, CondTyped, CondTypeOK
  <2>3. phase[s] \notin {"program", "relock", "return", "unpark", "unparkAll", "notifyOs"}
    BY DEF InWait
  <2>4. CASE s # t
    <3>1. phase'[s] = phase[s]
      BY <2>1, <2>2, <2>4 DEF ProgramStep, MutexStep, condVars, WaitRegister, WaitStep, WaitUnlock,
         WaitPark, WaitSuspend, WaitResume, WaitSpin, WaitLock, WaitReturn, Notify, NotifyAll,
         NotifyStep, NotifyUnpark, NotifyOs, NotifyAllOs, PhaseStep
    <3> QED
      BY <2>3, <3>1
  <2>5. CASE s = t
    <3>1. WakeStep(t)
      BY <2>1, <2>2, <2>3, <2>5 DEF ProgramStep, MutexStep, condVars, WaitRegister, WaitStep,
         WaitUnlock, WaitPark, WaitSuspend, WaitLock, WaitReturn, Notify, NotifyAll, NotifyStep,
         NotifyUnpark, NotifyOs, NotifyAllOs, PhaseStep, WakeStep
    <3> QED
      BY <1>1, <2>5, <3>1, WakesNotified
  <2> QED
    BY <2>4, <2>5
<1> QED
  BY <1>1, CondInitInv, CondStepInv, PTL DEF CondSpec, WakesOnlyWhenNotified

=============================================================================
