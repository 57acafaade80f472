---------------------------- MODULE Safepoint_proofs ----------------------------
(***************************************************************************)
(* Proofs about Safepoint for any number of threads and pauses.            *)
(*                                                                         *)
(* OnlyLateThreadsRun is not inductive.  PauseInv adds who holds the two   *)
(* locks, which program counters a thread's two flags stand for, that a    *)
(* thread that can leave its safepoint during a pause is late, and that    *)
(* what a look has seen safe stays so.                                     *)
(***************************************************************************)
EXTENDS Safepoint, TLAPS

\* The threads whose next steps lead them through a collection.
Collector(t) ==
  \/ pc[t] \in Pausing \union {"collect", "advance"}
  \/ pc[t] = "ioLeft" /\ work[t] # "none"
  \/ pc[t] \in InPollSlow /\ ret[t] = "collect"

LocksHeld ==
  \A t \in Threads :
    /\ Collector(t) => gcLock = t
    /\ pc[t] = "looking" => registry = t
    /\ pc[t] \in Pausing => request
    /\ pc[t] \in {"new", "start"} => work[t] = "none"

FlagsMean ==
  \A t \in Threads :
    /\ inSafepoint[t] <=> pc[t] \in {"capture", "wait", "leave"}
    /\ inIo[t] => pc[t] \in {"ioCheck", "ioYield", "io"}

Leaving(t) == pc[t] = "leave" \/ (pc[t] = "wait" /\ ~ sameEpoch[t])

LeaversLate ==
  \A c, t \in Threads : pc[c] \in Pausing /\ Leaving(t) => t \in late

Quiet(t) == pc[t] = "run" => t \in late

LookSound ==
  \A c \in Threads :
    /\ pc[c] = "looking" => \A t \in registered \ unseen : Quiet(t)
    /\ pc[c] = "stopped" => \A t \in registered : Quiet(t)

PauseInv == TypeOK /\ LocksHeld /\ FlagsMean /\ LeaversLate /\ LookSound

\* Before the first request nobody is in a safepoint, and the first pause has
\* nobody late.
FirstPauseInv ==
  /\ pauses = 0 => request = FALSE
  /\ pauses = 0 => \A t \in Threads : pc[t] \notin InPollSlow \union {"ioYield"}
  /\ pauses \in {0, 1} => late = {}

\* Every variable keeps the type its Rust declaration gives it.
LEMMA TypeStep == TypeOK /\ [Next]_vars => TypeOK'
<1> SUFFICES ASSUME TypeOK, [Next]_vars PROVE TypeOK'
  OBVIOUS
<1> USE SafepointAssumption DEF TypeOK, Labels, InPollSlow, Pausing
<1>1. ASSUME NEW t \in Threads, Register(t) PROVE TypeOK'
  BY <1>1 DEF Register, Goto
<1>2. ASSUME NEW t \in Threads, GoIdle(t) PROVE TypeOK'
  BY <1>2 DEF GoIdle, SetFlag
<1>3. ASSUME NEW t \in Threads, Unregister(t) PROVE TypeOK'
  BY <1>3 DEF Unregister, Goto
<1>4. ASSUME NEW t \in Threads, Poll(t) PROVE TypeOK'
  BY <1>4 DEF Poll, Goto
<1>5. ASSUME NEW t \in Threads, PollAgain(t) PROVE TypeOK'
  BY <1>5 DEF PollAgain, Goto
<1>6. ASSUME NEW t \in Threads, EnterSafepoint(t) PROVE TypeOK'
  BY <1>6 DEF EnterSafepoint, Goto, SetFlag
<1>7. ASSUME NEW t \in Threads, CaptureEpoch(t) PROVE TypeOK'
  BY <1>7 DEF CaptureEpoch, Goto, SetFlag
<1>8. ASSUME NEW t \in Threads, EndWait(t) PROVE TypeOK'
  BY <1>8 DEF EndWait, Goto
<1>9. ASSUME NEW t \in Threads, LeaveSafepoint(t) PROVE TypeOK'
  BY <1>9 DEF LeaveSafepoint, Goto, SetFlag
<1>10. ASSUME NEW t \in Threads, EnterIo(t) PROVE TypeOK'
  BY <1>10 DEF EnterIo, Goto, SetFlag
<1>11. ASSUME NEW t \in Threads, IoCheck(t) PROVE TypeOK'
  BY <1>11 DEF IoCheck, Goto
<1>12. ASSUME NEW t \in Threads, IoYield(t) PROVE TypeOK'
  BY <1>12 DEF IoYield, Goto, SetFlag
<1>13. ASSUME NEW t \in Threads, IoAgain(t) PROVE TypeOK'
  BY <1>13 DEF IoAgain, Goto, SetFlag
<1>14. ASSUME NEW t \in Threads, TakeGcLock(t) PROVE TypeOK'
  BY <1>14 DEF TakeGcLock
<1>15. ASSUME NEW t \in Threads, LeaveIo(t) PROVE TypeOK'
  BY <1>15 DEF LeaveIo, Goto, SetFlag
<1>16. ASSUME NEW t \in Threads, LeaveCheck(t) PROVE TypeOK'
  BY <1>16 DEF LeaveCheck, Goto, AfterIo
<1>17. ASSUME NEW t \in Threads, Request(t) PROVE TypeOK'
  BY <1>17 DEF Request, Goto
<1>18. ASSUME NEW t \in Threads, Look(t) PROVE TypeOK'
  BY <1>18 DEF Look, Goto
<1>19. ASSUME NEW t \in Threads, NEW u \in Threads, LookAt(t, u) PROVE TypeOK'
  BY <1>19 DEF LookAt, Goto
<1>20. ASSUME NEW t \in Threads, AllSafe(t) PROVE TypeOK'
  BY <1>20 DEF AllSafe, Goto
<1>21. ASSUME NEW t \in Threads, LowerRequest(t) PROVE TypeOK'
  BY <1>21 DEF LowerRequest, Goto
<1>22. ASSUME NEW t \in Threads, AdvanceEpoch(t) PROVE TypeOK'
  BY <1>22 DEF AdvanceEpoch, Goto
<1>23. ASSUME NEW t \in Threads, ReleaseGcLock(t) PROVE TypeOK'
  BY <1>23 DEF ReleaseGcLock, Goto
<1>24. ASSUME NEW t \in Threads, StartBusy(t) PROVE TypeOK'
  BY <1>24 DEF StartBusy, Goto
<1>25. CASE UNCHANGED vars
  BY <1>25 DEF vars
<1>26. QED
  BY <1>1, <1>2, <1>3, <1>4, <1>5, <1>6, <1>7, <1>8, <1>9, <1>10, <1>11, <1>12, <1>13,
     <1>14, <1>15, <1>16, <1>17, <1>18, <1>19, <1>20, <1>21, <1>22, <1>23, <1>24, <1>25
     DEF Next, PollStep, IoStep, CollectStep

\* What a pause has found safe stays safe until it ends, whatever step is taken.
LEMMA PauseStep == PauseInv /\ [Next]_vars => PauseInv'
<1> DEFINE Rest == LocksHeld /\ FlagsMean /\ LeaversLate /\ LookSound
<1> SUFFICES ASSUME TypeOK, LocksHeld, FlagsMean, LeaversLate, LookSound, [Next]_vars
             PROVE  TypeOK' /\ Rest'
  BY DEF PauseInv
<1>0. TypeOK'
  BY TypeStep
<1>1. ASSUME NEW t \in Threads, Register(t) PROVE Rest'
  <2>1. LocksHeld'
    BY <1>1 DEF Register, Goto, LocksHeld, Collector, Pausing, InPollSlow, TypeOK
  <2>2. FlagsMean'
    BY <1>1 DEF Register, Goto, FlagsMean, TypeOK
  <2>3. LeaversLate'
    BY <1>1 DEF Register, Goto, LeaversLate, Leaving, Pausing, TypeOK
  <2>4. LookSound'
    BY <1>1 DEF Register, Goto, LookSound, Quiet, TypeOK
  <2>5. QED
    BY <2>1, <2>2, <2>3, <2>4
<1>2. ASSUME NEW t \in Threads, GoIdle(t) PROVE Rest'
  <2>1. LocksHeld'
    BY <1>2 DEF GoIdle, LocksHeld, Collector, Pausing, InPollSlow, TypeOK
  <2>2. FlagsMean'
    BY <1>2 DEF GoIdle, SetFlag, FlagsMean, TypeOK
  <2>3. LeaversLate'
    BY <1>2 DEF GoIdle, LeaversLate, Leaving, Pausing, TypeOK
  <2>4. LookSound'
    BY <1>2 DEF GoIdle, LookSound, Quiet, TypeOK
  <2>5. QED
    BY <2>1, <2>2, <2>3, <2>4
<1>3. ASSUME NEW t \in Threads, Unregister(t) PROVE Rest'
  <2>1. LocksHeld'
    BY <1>3 DEF Unregister, Goto, LocksHeld, Collector, Pausing, InPollSlow, TypeOK
  <2>2. FlagsMean'
    BY <1>3 DEF Unregister, Goto, FlagsMean, TypeOK
  <2>3. LeaversLate'
    BY <1>3 DEF Unregister, Goto, LeaversLate, Leaving, Pausing, TypeOK
  <2>4. LookSound'
    BY <1>3 DEF Unregister, Goto, LookSound, Quiet, TypeOK
  <2>5. QED
    BY <2>1, <2>2, <2>3, <2>4
<1>4. ASSUME NEW t \in Threads, Poll(t) PROVE Rest'
  <2>1. LocksHeld'
    BY <1>4 DEF Poll, Goto, LocksHeld, Collector, Pausing, InPollSlow, TypeOK
  <2>2. FlagsMean'
    BY <1>4 DEF Poll, Goto, FlagsMean, TypeOK
  <2>3. LeaversLate'
    BY <1>4 DEF Poll, Goto, LeaversLate, Leaving, Pausing, TypeOK
  <2>4. LookSound'
    BY <1>4 DEF Poll, Goto, LookSound, Quiet, TypeOK
  <2>5. QED
    BY <2>1, <2>2, <2>3, <2>4
<1>5. ASSUME NEW t \in Threads, PollAgain(t) PROVE Rest'
  <2>1. LocksHeld'
    BY <1>5 DEF PollAgain, Goto, LocksHeld, Collector, Pausing, InPollSlow, TypeOK
  <2>2. FlagsMean'
    BY <1>5 DEF PollAgain, Goto, FlagsMean, TypeOK
  <2>3. LeaversLate'
    BY <1>5 DEF PollAgain, Goto, LeaversLate, Leaving, Pausing, TypeOK
  <2>4. LookSound'
    BY <1>5 DEF PollAgain, Goto, LookSound, Quiet, LocksHeld, Pausing, TypeOK
  <2>5. QED
    BY <2>1, <2>2, <2>3, <2>4
<1>6. ASSUME NEW t \in Threads, EnterSafepoint(t) PROVE Rest'
  <2>1. LocksHeld'
    BY <1>6 DEF EnterSafepoint, Goto, LocksHeld, Collector, Pausing, InPollSlow, TypeOK
  <2>2. FlagsMean'
    BY <1>6 DEF EnterSafepoint, Goto, SetFlag, FlagsMean, TypeOK
  <2>3. LeaversLate'
    BY <1>6 DEF EnterSafepoint, Goto, LeaversLate, Leaving, Pausing, TypeOK
  <2>4. LookSound'
    BY <1>6 DEF EnterSafepoint, Goto, LookSound, Quiet, TypeOK
  <2>5. QED
    BY <2>1, <2>2, <2>3, <2>4
<1>7. ASSUME NEW t \in Threads, CaptureEpoch(t) PROVE Rest'
  <2>1. LocksHeld'
    BY <1>7 DEF CaptureEpoch, Goto, LocksHeld, Collector, Pausing, InPollSlow, TypeOK
  <2>2. FlagsMean'
    BY <1>7 DEF CaptureEpoch, Goto, SetFlag, FlagsMean, TypeOK
  <2>3. LeaversLate'
    BY <1>7 DEF CaptureEpoch, Goto, SetFlag, LeaversLate, Leaving, Pausing, TypeOK
  <2>4. LookSound'
    BY <1>7 DEF CaptureEpoch, Goto, LookSound, Quiet, TypeOK
  <2>5. QED
    BY <2>1, <2>2, <2>3, <2>4
<1>8. ASSUME NEW t \in Threads, EndWait(t) PROVE Rest'
  <2>1. LocksHeld'
    BY <1>8 DEF EndWait, Goto, LocksHeld, Collector, Pausing, InPollSlow, TypeOK
  <2>2. FlagsMean'
    BY <1>8 DEF EndWait, Goto, FlagsMean, TypeOK
  <2>3. LeaversLate'
    BY <1>8 DEF EndWait, Goto, LeaversLate, Leaving, Pausing, LocksHeld, TypeOK
  <2>4. LookSound'
    BY <1>8 DEF EndWait, Goto, LookSound, Quiet, TypeOK
  <2>5. QED
    BY <2>1, <2>2, <2>3, <2>4
<1>9. ASSUME NEW t \in Threads, LeaveSafepoint(t) PROVE Rest'
  <2>1. LocksHeld'
    BY <1>9 DEF LeaveSafepoint, Goto, LocksHeld, Collector, Pausing, InPollSlow, TypeOK
  <2>2. FlagsMean'
    BY <1>9 DEF LeaveSafepoint, Goto, SetFlag, FlagsMean, TypeOK
  <2>3. LeaversLate'
    BY <1>9 DEF LeaveSafepoint, Goto, LeaversLate, Leaving, Pausing, TypeOK
  <2>4. LookSound'
    BY <1>9 DEF LeaveSafepoint, Goto, LookSound, Quiet, LocksHeld, Pausing, LeaversLate,
       Leaving, Collector, TypeOK
  <2>5. QED
    BY <2>1, <2>2, <2>3, <2>4
<1>10. ASSUME NEW t \in Threads, EnterIo(t) PROVE Rest'
  <2>1. LocksHeld'
    BY <1>10 DEF EnterIo, Goto, LocksHeld, Collector, Pausing, InPollSlow, TypeOK
  <2>2. FlagsMean'
    BY <1>10 DEF EnterIo, Goto, SetFlag, FlagsMean, TypeOK
  <2>3. LeaversLate'
    BY <1>10 DEF EnterIo, Goto, LeaversLate, Leaving, Pausing, TypeOK
  <2>4. LookSound'
    BY <1>10 DEF EnterIo, Goto, LookSound, Quiet, TypeOK
  <2>5. QED
    BY <2>1, <2>2, <2>3, <2>4
<1>11. ASSUME NEW t \in Threads, IoCheck(t) PROVE Rest'
  <2>1. LocksHeld'
    BY <1>11 DEF IoCheck, Goto, LocksHeld, Collector, Pausing, InPollSlow, TypeOK
  <2>2. FlagsMean'
    BY <1>11 DEF IoCheck, Goto, FlagsMean, TypeOK
  <2>3. LeaversLate'
    BY <1>11 DEF IoCheck, Goto, LeaversLate, Leaving, Pausing, TypeOK
  <2>4. LookSound'
    BY <1>11 DEF IoCheck, Goto, LookSound, Quiet, TypeOK
  <2>5. QED
    BY <2>1, <2>2, <2>3, <2>4
<1>12. ASSUME NEW t \in Threads, IoYield(t) PROVE Rest'
  <2>1. LocksHeld'
    BY <1>12 DEF IoYield, Goto, LocksHeld, Collector, Pausing, InPollSlow, TypeOK
  <2>2. FlagsMean'
    BY <1>12 DEF IoYield, Goto, SetFlag, FlagsMean, TypeOK
  <2>3. LeaversLate'
    BY <1>12 DEF IoYield, Goto, LeaversLate, Leaving, Pausing, TypeOK
  <2>4. LookSound'
    BY <1>12 DEF IoYield, Goto, LookSound, Quiet, TypeOK
  <2>5. QED
    BY <2>1, <2>2, <2>3, <2>4
<1>13. ASSUME NEW t \in Threads, IoAgain(t) PROVE Rest'
  <2>1. LocksHeld'
    BY <1>13 DEF IoAgain, Goto, LocksHeld, Collector, Pausing, InPollSlow, TypeOK
  <2>2. FlagsMean'
    BY <1>13 DEF IoAgain, Goto, SetFlag, FlagsMean, TypeOK
  <2>3. LeaversLate'
    BY <1>13 DEF IoAgain, Goto, LeaversLate, Leaving, Pausing, TypeOK
  <2>4. LookSound'
    BY <1>13 DEF IoAgain, Goto, LookSound, Quiet, TypeOK
  <2>5. QED
    BY <2>1, <2>2, <2>3, <2>4
<1>14. ASSUME NEW t \in Threads, TakeGcLock(t) PROVE Rest'
  <2>1. LocksHeld'
    BY <1>14, SafepointAssumption DEF TakeGcLock, LocksHeld, Collector, Pausing,
       InPollSlow, TypeOK
  <2>2. FlagsMean'
    BY <1>14 DEF TakeGcLock, FlagsMean, TypeOK
  <2>3. LeaversLate'
    BY <1>14 DEF TakeGcLock, LeaversLate, Leaving, Pausing, TypeOK
  <2>4. LookSound'
    BY <1>14 DEF TakeGcLock, LookSound, Quiet, TypeOK
  <2>5. QED
    BY <2>1, <2>2, <2>3, <2>4
<1>15. ASSUME NEW t \in Threads, LeaveIo(t) PROVE Rest'
  <2>1. LocksHeld'
    BY <1>15 DEF LeaveIo, Goto, LocksHeld, Collector, Pausing, InPollSlow, TypeOK
  <2>2. FlagsMean'
    BY <1>15 DEF LeaveIo, Goto, SetFlag, FlagsMean, TypeOK
  <2>3. LeaversLate'
    BY <1>15 DEF LeaveIo, Goto, LeaversLate, Leaving, Pausing, TypeOK
  <2>4. LookSound'
    BY <1>15 DEF LeaveIo, Goto, LookSound, Quiet, TypeOK
  <2>5. QED
    BY <2>1, <2>2, <2>3, <2>4
<1>16. ASSUME NEW t \in Threads, LeaveCheck(t) PROVE Rest'
  <2>1. LocksHeld'
    BY <1>16 DEF LeaveCheck, Goto, AfterIo, LocksHeld, Collector, Pausing, InPollSlow,
       TypeOK
  <2>2. FlagsMean'
    BY <1>16 DEF LeaveCheck, Goto, AfterIo, FlagsMean, TypeOK
  <2>3. LeaversLate'
    BY <1>16 DEF LeaveCheck, Goto, AfterIo, LeaversLate, Leaving, Pausing, TypeOK
  <2>4. LookSound'
    BY <1>16 DEF LeaveCheck, Goto, AfterIo, LookSound, Quiet, LocksHeld, Pausing, TypeOK
  <2>5. QED
    BY <2>1, <2>2, <2>3, <2>4
<1>17. ASSUME NEW t \in Threads, Request(t) PROVE Rest'
  <2>1. LocksHeld'
    BY <1>17 DEF Request, Goto, LocksHeld, Collector, Pausing, InPollSlow, TypeOK
  <2>2. FlagsMean'
    BY <1>17 DEF Request, Goto, FlagsMean, TypeOK
  <2>3. LeaversLate'
    BY <1>17 DEF Request, Goto, LeaversLate, Leaving, Pausing, LocksHeld, FlagsMean,
       Collector, TypeOK
  <2>4. LookSound'
    BY <1>17 DEF Request, Goto, LookSound, Quiet, LocksHeld, Pausing, LeaversLate, Leaving,
       Collector, TypeOK
  <2>5. QED
    BY <2>1, <2>2, <2>3, <2>4
<1>18. ASSUME NEW t \in Threads, Look(t) PROVE Rest'
  <2>1. LocksHeld'
    BY <1>18 DEF Look, Goto, LocksHeld, Collector, Pausing, InPollSlow, TypeOK
  <2>2. FlagsMean'
    BY <1>18 DEF Look, Goto, FlagsMean, TypeOK
  <2>3. LeaversLate'
    BY <1>18 DEF Look, Goto, LeaversLate, Leaving, Pausing, TypeOK
  <2>4. LookSound'
    BY <1>18 DEF Look, Goto, LookSound, Quiet, TypeOK
  <2>5. QED
    BY <2>1, <2>2, <2>3, <2>4
<1>19. ASSUME NEW t \in Threads, NEW u \in Threads, LookAt(t, u) PROVE Rest'
  <2>1. LocksHeld'
    BY <1>19 DEF LookAt, Goto, LocksHeld, Collector, Pausing, InPollSlow, TypeOK
  <2>2. FlagsMean'
    BY <1>19 DEF LookAt, Goto, FlagsMean, TypeOK
  <2>3. LeaversLate'
    BY <1>19 DEF LookAt, Goto, LeaversLate, Leaving, Pausing, TypeOK
  <2>4. LookSound'
    BY <1>19 DEF LookAt, Goto, LookSound, Quiet, LocksHeld, Pausing, LeaversLate, Leaving,
       Collector, FlagsMean, TypeOK
  <2>5. QED
    BY <2>1, <2>2, <2>3, <2>4
<1>20. ASSUME NEW t \in Threads, AllSafe(t) PROVE Rest'
  <2>1. LocksHeld'
    BY <1>20 DEF AllSafe, Goto, LocksHeld, Collector, Pausing, InPollSlow, TypeOK
  <2>2. FlagsMean'
    BY <1>20 DEF AllSafe, Goto, FlagsMean, TypeOK
  <2>3. LeaversLate'
    BY <1>20 DEF AllSafe, Goto, LeaversLate, Leaving, Pausing, TypeOK
  <2>4. LookSound'
    BY <1>20 DEF AllSafe, Goto, LookSound, Quiet, TypeOK
  <2>5. QED
    BY <2>1, <2>2, <2>3, <2>4
<1>21. ASSUME NEW t \in Threads, LowerRequest(t) PROVE Rest'
  <2>1. LocksHeld'
    BY <1>21 DEF LowerRequest, Goto, LocksHeld, Collector, Pausing, InPollSlow, TypeOK
  <2>2. FlagsMean'
    BY <1>21 DEF LowerRequest, Goto, FlagsMean, TypeOK
  <2>3. LeaversLate'
    BY <1>21 DEF LowerRequest, Goto, LeaversLate, Leaving, Pausing, TypeOK
  <2>4. LookSound'
    BY <1>21 DEF LowerRequest, Goto, LookSound, Quiet, TypeOK
  <2>5. QED
    BY <2>1, <2>2, <2>3, <2>4
<1>22. ASSUME NEW t \in Threads, AdvanceEpoch(t) PROVE Rest'
  <2>1. LocksHeld'
    BY <1>22 DEF AdvanceEpoch, Goto, LocksHeld, Collector, Pausing, InPollSlow, TypeOK
  <2>2. FlagsMean'
    BY <1>22 DEF AdvanceEpoch, Goto, FlagsMean, TypeOK
  <2>3. LeaversLate'
    BY <1>22 DEF AdvanceEpoch, Goto, LeaversLate, Leaving, Pausing, LocksHeld, FlagsMean,
       Collector, TypeOK
  <2>4. LookSound'
    BY <1>22 DEF AdvanceEpoch, Goto, LookSound, Quiet, TypeOK
  <2>5. QED
    BY <2>1, <2>2, <2>3, <2>4
<1>23. ASSUME NEW t \in Threads, ReleaseGcLock(t) PROVE Rest'
  <2>1. LocksHeld'
    BY <1>23 DEF ReleaseGcLock, Goto, LocksHeld, Collector, Pausing, InPollSlow, TypeOK
  <2>2. FlagsMean'
    BY <1>23 DEF ReleaseGcLock, Goto, FlagsMean, TypeOK
  <2>3. LeaversLate'
    BY <1>23 DEF ReleaseGcLock, Goto, LeaversLate, Leaving, Pausing, TypeOK
  <2>4. LookSound'
    BY <1>23 DEF ReleaseGcLock, Goto, LookSound, Quiet, LocksHeld, Pausing, LeaversLate,
       Leaving, Collector, TypeOK
  <2>5. QED
    BY <2>1, <2>2, <2>3, <2>4
<1>24. ASSUME NEW t \in Threads, StartBusy(t) PROVE Rest'
  <2>1. LocksHeld'
    BY <1>24 DEF StartBusy, Goto, LocksHeld, Collector, Pausing, InPollSlow, TypeOK
  <2>2. FlagsMean'
    BY <1>24 DEF StartBusy, Goto, FlagsMean, TypeOK
  <2>3. LeaversLate'
    BY <1>24 DEF StartBusy, Goto, LeaversLate, Leaving, Pausing, TypeOK
  <2>4. LookSound'
    BY <1>24 DEF StartBusy, Goto, LookSound, Quiet, TypeOK
  <2>5. QED
    BY <2>1, <2>2, <2>3, <2>4
<1>25. ASSUME UNCHANGED vars PROVE Rest'
  BY <1>25 DEF vars, LocksHeld, Collector, FlagsMean, LeaversLate, Leaving, LookSound, Quiet,
     Pausing, InPollSlow
<1>26. Rest'
  <2> HIDE DEF Rest
  <2>1. QED
    BY <1>1, <1>2, <1>3, <1>4, <1>5, <1>6, <1>7, <1>8, <1>9, <1>10, <1>11, <1>12,
       <1>13, <1>14, <1>15, <1>16, <1>17, <1>18, <1>19, <1>20, <1>21, <1>22, <1>23,
       <1>24, <1>25 DEF Next, PollStep, IoStep, CollectStep
<1>27. QED
  BY <1>0, <1>26

\* The first pause meets nobody who is still in a safepoint.
LEMMA FirstPauseStep ==
  TypeOK /\ FlagsMean /\ FirstPauseInv /\ [Next]_vars => FirstPauseInv'
<1> SUFFICES ASSUME TypeOK, FlagsMean, FirstPauseInv, [Next]_vars PROVE FirstPauseInv'
  OBVIOUS
<1>1. CASE \E t \in Threads : Request(t)
  BY <1>1, SafepointAssumption
     DEF Request, Goto, TypeOK, FlagsMean, FirstPauseInv, InPollSlow, Pausing, Labels
<1>2. CASE \E t \in Threads : Poll(t) \/ EnterIo(t)
  <2>1. ASSUME NEW t \in Threads, Poll(t) PROVE FirstPauseInv'
    BY <2>1 DEF Poll, Goto, TypeOK, FirstPauseInv, InPollSlow
  <2>2. ASSUME NEW t \in Threads, EnterIo(t) PROVE FirstPauseInv'
    BY <2>2 DEF EnterIo, Goto, TypeOK, FirstPauseInv, InPollSlow
  <2>3. QED
    BY <1>2, <2>1, <2>2
<1>3. CASE \E t \in Threads : Register(t) \/ GoIdle(t) \/ StartBusy(t) \/ Unregister(t)
  <2>1. ASSUME NEW t \in Threads, Register(t) PROVE FirstPauseInv'
    BY <2>1 DEF Register, Goto, TypeOK, FirstPauseInv, InPollSlow
  <2>2. ASSUME NEW t \in Threads, GoIdle(t) PROVE FirstPauseInv'
    BY <2>2 DEF GoIdle, Goto, TypeOK, FirstPauseInv, InPollSlow
  <2>3. ASSUME NEW t \in Threads, StartBusy(t) PROVE FirstPauseInv'
    BY <2>3 DEF StartBusy, Goto, TypeOK, FirstPauseInv, InPollSlow
  <2>4. ASSUME NEW t \in Threads, Unregister(t) PROVE FirstPauseInv'
    BY <2>4 DEF Unregister, Goto, TypeOK, FirstPauseInv, InPollSlow
  <2>5. QED
    BY <1>3, <2>1, <2>2, <2>3, <2>4
<1>4. CASE \E t \in Threads : PollAgain(t) \/ EnterSafepoint(t) \/ CaptureEpoch(t)
                            \/ EndWait(t) \/ LeaveSafepoint(t)
  <2>1. ASSUME NEW t \in Threads, PollAgain(t) PROVE FirstPauseInv'
    BY <2>1 DEF PollAgain, Goto, TypeOK, FirstPauseInv, InPollSlow
  <2>2. ASSUME NEW t \in Threads, EnterSafepoint(t) PROVE FirstPauseInv'
    BY <2>2 DEF EnterSafepoint, Goto, TypeOK, FirstPauseInv, InPollSlow
  <2>3. ASSUME NEW t \in Threads, CaptureEpoch(t) PROVE FirstPauseInv'
    BY <2>3 DEF CaptureEpoch, Goto, TypeOK, FirstPauseInv, InPollSlow
  <2>4. ASSUME NEW t \in Threads, EndWait(t) PROVE FirstPauseInv'
    BY <2>4 DEF EndWait, Goto, TypeOK, FirstPauseInv, InPollSlow
  <2>5. ASSUME NEW t \in Threads, LeaveSafepoint(t) PROVE FirstPauseInv'
    BY <2>5 DEF LeaveSafepoint, Goto, TypeOK, FirstPauseInv, InPollSlow
  <2>6. QED
    BY <1>4, <2>1, <2>2, <2>3, <2>4, <2>5
<1>5. CASE \E t \in Threads : IoStep(t) \/ LeaveIo(t) \/ TakeGcLock(t)
  <2>1. ASSUME NEW t \in Threads, IoCheck(t) PROVE FirstPauseInv'
    BY <2>1 DEF IoCheck, Goto, TypeOK, FirstPauseInv, InPollSlow
  <2>2. ASSUME NEW t \in Threads, IoYield(t) PROVE FirstPauseInv'
    BY <2>2 DEF IoYield, Goto, TypeOK, FirstPauseInv, InPollSlow
  <2>3. ASSUME NEW t \in Threads, IoAgain(t) PROVE FirstPauseInv'
    BY <2>3 DEF IoAgain, Goto, TypeOK, FirstPauseInv, InPollSlow
  <2>4. ASSUME NEW t \in Threads, LeaveCheck(t) PROVE FirstPauseInv'
    BY <2>4 DEF LeaveCheck, AfterIo, Goto, TypeOK, FirstPauseInv, InPollSlow
  <2>5. ASSUME NEW t \in Threads, LeaveIo(t) PROVE FirstPauseInv'
    BY <2>5 DEF LeaveIo, AfterIo, Goto, TypeOK, FirstPauseInv, InPollSlow
  <2>6. ASSUME NEW t \in Threads, TakeGcLock(t) PROVE FirstPauseInv'
    BY <2>6 DEF TakeGcLock, Goto, TypeOK, FirstPauseInv, InPollSlow
  <2>7. QED
    BY <1>5, <2>1, <2>2, <2>3, <2>4, <2>5, <2>6 DEF IoStep
<1>6. CASE \E t \in Threads : Look(t) \/ (\E u \in Threads : LookAt(t, u)) \/ AllSafe(t)
  BY <1>6 DEF Look, LookAt, AllSafe, Goto, TypeOK, FirstPauseInv, InPollSlow
<1>7. CASE \E t \in Threads : LowerRequest(t) \/ AdvanceEpoch(t) \/ ReleaseGcLock(t)
  BY <1>7 DEF LowerRequest, AdvanceEpoch, ReleaseGcLock, Goto, TypeOK, FirstPauseInv,
     InPollSlow
<1>8. CASE UNCHANGED vars
  BY <1>8 DEF vars, FirstPauseInv
<1>9. QED
  BY <1>1, <1>2, <1>3, <1>4, <1>5, <1>6, <1>7, <1>8
     DEF Next, PollStep, IoStep, CollectStep

\* The initial state satisfies every part of the invariant.
LEMMA PauseInit == Init => PauseInv /\ FirstPauseInv
<1> SUFFICES ASSUME Init PROVE PauseInv /\ FirstPauseInv
  OBVIOUS
<1> USE DEF Init
<1>1. TypeOK
  <2>1. pauses \in 0 .. MaxPauses
    BY SafepointAssumption
  <2>2. pc \in [Threads -> Labels]
    BY DEF Labels
  <2>3. ret \in [Threads -> {"run", "ioAgain", "collect"}]
    OBVIOUS
  <2>4. work \in [Threads -> {"none", "alloc", "minor", "major", "remark"}]
    OBVIOUS
  <2>5. QED
    BY <2>1, <2>2, <2>3, <2>4 DEF TypeOK
<1>2. LocksHeld /\ FlagsMean
  BY DEF LocksHeld, Collector, FlagsMean, InPollSlow, Pausing
<1>3. LeaversLate /\ LookSound
  BY DEF LeaversLate, Leaving, LookSound, Quiet, Pausing
<1>4. FirstPauseInv
  BY DEF FirstPauseInv, InPollSlow
<1>5. QED
  BY <1>1, <1>2, <1>3, <1>4 DEF PauseInv

\* Every variable keeps its type in every behaviour.
THEOREM TypeCorrect == Spec => []TypeOK
<1>1. Init => TypeOK
  BY PauseInit DEF PauseInv
<1>2. QED
  BY <1>1, TypeStep, PTL DEF Spec

\* A stopped world is stopped for every thread but those that had not yet left
\* the previous pause's safepoint, for any number of threads and pauses.
THEOREM LateThreadsOnly == Spec => []OnlyLateThreadsRun
<1>1. PauseInv => OnlyLateThreadsRun
  BY DEF PauseInv, LookSound, Quiet, OnlyLateThreadsRun, OnHeap
<1>2. QED
  BY <1>1, PauseInit, PauseStep, PTL DEF Spec

\* The first pause has nobody late: the world really stops for it, whatever the
\* number of threads and of later pauses.
THEOREM FirstPauseStops == Spec => []FirstPauseStopsWorld
<1>1. PauseInv /\ FirstPauseInv => FirstPauseStopsWorld
  <2> SUFFICES ASSUME PauseInv, FirstPauseInv, pauses <= 1
               PROVE  StopTheWorld
    BY DEF FirstPauseStopsWorld
  <2>1. late = {}
    BY SafepointAssumption DEF PauseInv, TypeOK, FirstPauseInv
  <2>2. QED
    BY <2>1 DEF PauseInv, LookSound, Quiet, StopTheWorld, OnHeap
<1>2. PauseInv => TypeOK /\ FlagsMean
  BY DEF PauseInv
<1>3. QED
  BY <1>1, <1>2, PauseInit, PauseStep, FirstPauseStep, PTL DEF Spec

=============================================================================
