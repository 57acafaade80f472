------------------------------- MODULE Safepoint -------------------------------
(***************************************************************************)
(* How a garbage collection stops the world (runtime/gc.rs).  A thread     *)
(* with the collector's lock raises SAFEPOINT_REQUEST and looks at the     *)
(* registered threads until each is in blocking I/O or in a safepoint; it  *)
(* lowers the request and advances the epoch when it is done.  Threads     *)
(* poll the request, and leave a safepoint when the request is down or the *)
(* epoch is not the one they came in with.                                 *)
(*                                                                         *)
(* An epoch only matters by being the current one or not: a thread that    *)
(* captures it holds the current one until the collector advances it.      *)
(* SAFEPOINT_ACK counts polls to wake the collector early, and is left     *)
(* out: the collector decides on the threads' flags, which it reads again  *)
(* every 10 ms.  The abort after 500 unsuccessful looks is not modelled.   *)
(***************************************************************************)
EXTENDS Naturals, FiniteSets

CONSTANTS
  Threads,    \* OS threads: workers, the main thread, the finalizer
  NoThread,   \* a lock is free
  MaxPauses   \* bound: pauses of the world

ASSUME SafepointAssumption ==
  /\ NoThread \notin Threads
  /\ MaxPauses \in Nat

VARIABLES
  registered,  \* THREAD_REGISTRY
  registry,    \* the collector that holds the registry's lock over a look
  request,     \* SAFEPOINT_REQUEST
  inSafepoint, \* ThreadContext.in_safepoint
  inIo,        \* ThreadContext.in_blocking_io
  sameEpoch,   \* the epoch the thread captured is SAFEPOINT_RESUME's
  gcLock,      \* GC_LOCK
  pc,          \* where each thread is; "run": in compiled code, on the heap
  ret,         \* where rt_safepoint_poll_slow returns to
  work,        \* the collection a thread has asked for
  unseen,      \* threads the collector's current look has yet to find safe
  pauses,      \* history: pauses so far, at most MaxPauses
  late         \* history: threads still in the last pause's safepoint when this
               \* pause was requested, that have not polled since

vars == <<registered, registry, request, inSafepoint, inIo, sameEpoch, gcLock,
          pc, ret, work, unseen, pauses, late>>

Init ==
  /\ registered = {}
  /\ registry = NoThread
  /\ request = FALSE
  /\ inSafepoint = [t \in Threads |-> FALSE]
  /\ inIo = [t \in Threads |-> FALSE]
  /\ sameEpoch = [t \in Threads |-> FALSE]
  /\ gcLock = NoThread
  /\ pc = [t \in Threads |-> "new"]
  /\ ret = [t \in Threads |-> "run"]
  /\ work = [t \in Threads |-> "none"]
  /\ unseen = {}
  /\ pauses = 0
  /\ late = {}

-----------------------------------------------------------------------------
Goto(t, from, to) ==
  /\ pc[t] = from
  /\ pc' = [pc EXCEPT ![t] = to]

SetFlag(f, t, value) == f' = [f EXCEPT ![t] = value]

-----------------------------------------------------------------------------
(* Registration, and threads of the runtime that have nothing to do *)

Register(t) ==
  /\ registry = NoThread
  /\ Goto(t, "new", "start")
  /\ registered' = registered \union {t}
  /\ UNCHANGED <<registry, request, inSafepoint, inIo, sameEpoch, gcLock, ret,
                 work, unseen, pauses, late>>

\* A worker that looks for a task, or the finalizer with none, declares itself in
\* blocking I/O; so does a finalizer that was woken for nothing.
GoIdle(t) ==
  /\ pc[t] \in {"start", "run", "ioLeft"} /\ work[t] = "none"
  /\ pc' = [pc EXCEPT ![t] = "io"]
  /\ SetFlag(inIo, t, TRUE)
  /\ late' = late \ {t}
  /\ UNCHANGED <<registered, registry, request, inSafepoint, sameEpoch, gcLock,
                 ret, work, unseen, pauses>>

\* A finalizer that finds work at once looks at the request as after a wait.
StartBusy(t) ==
  /\ Goto(t, "start", "ioLeft")
  /\ UNCHANGED <<registered, registry, request, inSafepoint, inIo, sameEpoch,
                 gcLock, ret, work, unseen, pauses, late>>

Unregister(t) ==
  /\ registry = NoThread
  /\ Goto(t, "run", "gone")
  /\ registered' = registered \ {t}
  /\ UNCHANGED <<registry, request, inSafepoint, inIo, sameEpoch, gcLock, ret,
                 work, unseen, pauses, late>>

-----------------------------------------------------------------------------
(* rt_safepoint_poll and rt_safepoint_poll_slow *)

Poll(t) ==
  /\ request
  /\ Goto(t, "run", "poll")
  /\ ret' = [ret EXCEPT ![t] = "run"]
  /\ late' = late \ {t}
  /\ UNCHANGED <<registered, registry, request, inSafepoint, inIo, sameEpoch,
                 gcLock, work, unseen, pauses>>

PollAgain(t) ==
  /\ Goto(t, "poll", IF request THEN "enter" ELSE ret[t])
  /\ UNCHANGED <<registered, registry, request, inSafepoint, inIo, sameEpoch,
                 gcLock, ret, work, unseen, pauses, late>>

EnterSafepoint(t) ==
  /\ Goto(t, "enter", "capture")
  /\ SetFlag(inSafepoint, t, TRUE)
  /\ UNCHANGED <<registered, registry, request, inIo, sameEpoch, gcLock, ret,
                 work, unseen, pauses, late>>

CaptureEpoch(t) ==
  /\ Goto(t, "capture", "wait")
  /\ SetFlag(sameEpoch, t, TRUE)
  /\ UNCHANGED <<registered, registry, request, inSafepoint, inIo, gcLock, ret,
                 work, unseen, pauses, late>>
\* Mutant: the wait ends when it times out.
EndWaitOnTimeout(t) ==
  /\ Goto(t, "wait", "leave")
  /\ UNCHANGED <<registered, registry, request, inSafepoint, inIo, sameEpoch,
                 gcLock, ret, work, unseen, pauses, late>>

\* Mutant: the wait ends only when the epoch has changed.
EndWaitOnEpoch(t) ==
  /\ ~ sameEpoch[t]
  /\ Goto(t, "wait", "leave")
  /\ UNCHANGED <<registered, registry, request, inSafepoint, inIo, sameEpoch,
                 gcLock, ret, work, unseen, pauses, late>>

\* The wait loop ends; the thread has yet to lower its flag.
EndWait(t) ==
  /\ ~ (request /\ sameEpoch[t])
  /\ Goto(t, "wait", "leave")
  /\ UNCHANGED <<registered, registry, request, inSafepoint, inIo, sameEpoch,
                 gcLock, ret, work, unseen, pauses, late>>

LeaveSafepoint(t) ==
  /\ Goto(t, "leave", ret[t])
  /\ SetFlag(inSafepoint, t, FALSE)
  /\ UNCHANGED <<registered, registry, request, inIo, sameEpoch, gcLock, ret,
                 work, unseen, pauses, late>>

-----------------------------------------------------------------------------
(* ThreadIoGuard, and a worker going idle: around blocking calls, and around
   the wait for GC_LOCK of a thread that wants to collect *)
\* Mutant: a thread waits for GC_LOCK without a ThreadIoGuard.
EnterIoUnlessGc(t) ==
  /\ \E w \in {"none", "alloc", "minor", "major"} :
       /\ work' = [work EXCEPT ![t] = w]
       /\ inIo' = [inIo EXCEPT ![t] = (w = "none")]
  /\ Goto(t, "run", "ioCheck")
  /\ late' = late \ {t}
  /\ UNCHANGED <<registered, registry, request, inSafepoint, sameEpoch, gcLock,
                 ret, unseen, pauses>>

EnterIo(t) ==
  /\ \E w \in {"none", "alloc", "minor", "major"} : work' = [work EXCEPT ![t] = w]
  /\ Goto(t, "run", "ioCheck")
  /\ SetFlag(inIo, t, TRUE)
  /\ late' = late \ {t}
  /\ UNCHANGED <<registered, registry, request, inSafepoint, sameEpoch, gcLock,
                 ret, unseen, pauses>>

IoCheck(t) ==
  /\ Goto(t, "ioCheck", IF request THEN "ioYield" ELSE "io")
  /\ UNCHANGED <<registered, registry, request, inSafepoint, inIo, sameEpoch,
                 gcLock, ret, work, unseen, pauses, late>>

IoYield(t) ==
  /\ Goto(t, "ioYield", "poll")
  /\ SetFlag(inIo, t, FALSE)
  /\ ret' = [ret EXCEPT ![t] = "ioAgain"]
  /\ UNCHANGED <<registered, registry, request, inSafepoint, sameEpoch, gcLock,
                 work, unseen, pauses, late>>

IoAgain(t) ==
  /\ Goto(t, "ioAgain", "io")
  /\ SetFlag(inIo, t, TRUE)
  /\ UNCHANGED <<registered, registry, request, inSafepoint, sameEpoch, gcLock,
                 ret, work, unseen, pauses, late>>

TakeGcLock(t) ==
  /\ work[t] # "none" /\ gcLock = NoThread
  /\ pc[t] = "io"
  /\ gcLock' = t
  /\ UNCHANGED <<registered, registry, request, inSafepoint, inIo, sameEpoch, pc,
                 ret, work, unseen, pauses, late>>

LeaveIo(t) ==
  /\ work[t] # "none" => gcLock = t
  /\ Goto(t, "io", "ioLeft")
  /\ SetFlag(inIo, t, FALSE)
  /\ UNCHANGED <<registered, registry, request, inSafepoint, sameEpoch, gcLock,
                 ret, work, unseen, pauses, late>>
AfterIo(t) == IF work[t] = "none" THEN "run" ELSE "collect"
\* Mutant: a thread comes back from blocking without a look at the request.
LeaveUnchecked(t) ==
  /\ Goto(t, "ioLeft", AfterIo(t))
  /\ ret' = [ret EXCEPT ![t] = AfterIo(t)]
  /\ UNCHANGED <<registered, registry, request, inSafepoint, inIo, sameEpoch,
                 gcLock, work, unseen, pauses, late>>

LeaveCheck(t) ==
  /\ Goto(t, "ioLeft", IF request THEN "poll" ELSE AfterIo(t))
  /\ ret' = [ret EXCEPT ![t] = AfterIo(t)]
  /\ UNCHANGED <<registered, registry, request, inSafepoint, inIo, sameEpoch,
                 gcLock, work, unseen, pauses, late>>

-----------------------------------------------------------------------------
(* trigger_safepoint and resume_safepoint, by the thread with GC_LOCK *)

Request(t) ==
  /\ work[t] # "none" /\ pauses < MaxPauses
  /\ Goto(t, "collect", "look")
  /\ request' = TRUE
  /\ pauses' = pauses + 1
  /\ late' = {u \in Threads : inSafepoint[u]}
  /\ UNCHANGED <<registered, registry, inSafepoint, inIo, sameEpoch, gcLock, ret,
                 work, unseen>>

Look(t) ==
  /\ registry = NoThread
  /\ Goto(t, "look", "looking")
  /\ registry' = t
  /\ unseen' = registered \ {t}
  /\ UNCHANGED <<registered, request, inSafepoint, inIo, sameEpoch, gcLock, ret,
                 work, pauses, late>>

\* The flags of one more thread are read: one that is not safe fails the look.
LookAt(t, u) ==
  /\ pc[t] = "looking" /\ u \in unseen
  /\ IF inIo[u] \/ inSafepoint[u]
       THEN /\ unseen' = unseen \ {u}
            /\ UNCHANGED <<pc, registry>>
       ELSE /\ Goto(t, "looking", "look")
            /\ unseen' = {}
            /\ registry' = NoThread
  /\ UNCHANGED <<registered, request, inSafepoint, inIo, sameEpoch, gcLock, ret,
                 work, pauses, late>>

AllSafe(t) ==
  /\ unseen = {}
  /\ Goto(t, "looking", "stopped")
  /\ registry' = NoThread
  /\ UNCHANGED <<registered, request, inSafepoint, inIo, sameEpoch, gcLock, ret,
                 work, unseen, pauses, late>>

LowerRequest(t) ==
  /\ Goto(t, "stopped", "advance")
  /\ request' = FALSE
  /\ UNCHANGED <<registered, registry, inSafepoint, inIo, sameEpoch, gcLock, ret,
                 work, unseen, pauses, late>>

\* A major collection traces while the threads run, and pauses them again.
AdvanceEpoch(t) ==
  /\ Goto(t, "advance", "collect")
  /\ sameEpoch' = [u \in Threads |-> FALSE]
  /\ work' = [work EXCEPT ![t] = IF @ = "major" THEN "remark" ELSE "none"]
  /\ UNCHANGED <<registered, registry, request, inSafepoint, inIo, gcLock, ret,
                 unseen, pauses, late>>

\* An allocation that waited for GC_LOCK may find that another thread collected.
ReleaseGcLock(t) ==
  /\ work[t] \in {"none", "alloc"}
  /\ Goto(t, "collect", "run")
  /\ gcLock' = NoThread
  /\ work' = [work EXCEPT ![t] = "none"]
  /\ UNCHANGED <<registered, registry, request, inSafepoint, inIo, sameEpoch, ret,
                 unseen, pauses, late>>

-----------------------------------------------------------------------------
PollStep(t) ==
  \/ Poll(t) \/ PollAgain(t)
  \/ EnterSafepoint(t) \/ CaptureEpoch(t) \/ EndWait(t) \/ LeaveSafepoint(t)

IoStep(t) ==
  \/ IoCheck(t) \/ IoYield(t) \/ IoAgain(t) \/ LeaveCheck(t)

CollectStep(t) ==
  \/ Request(t) \/ Look(t) \/ (\E u \in Threads : LookAt(t, u)) \/ AllSafe(t)
  \/ LowerRequest(t) \/ AdvanceEpoch(t) \/ ReleaseGcLock(t)

Next ==
  \E t \in Threads :
    \/ Register(t) \/ GoIdle(t) \/ StartBusy(t) \/ Unregister(t)
    \/ PollStep(t)
    \/ EnterIo(t) \/ IoStep(t) \/ LeaveIo(t) \/ TakeGcLock(t)
    \/ CollectStep(t)

Spec == Init /\ [][Next]_vars

(***************************************************************************)
(* Fairness.  OS threads keep running and compiled code polls at function  *)
(* entries and loop heads, so a thread that runs meets a request.  A       *)
(* collector that got GC_LOCK goes on, and the finalizer is not woken for  *)
(* nothing for ever.  Nothing makes a thread block, come back from         *)
(* blocking, collect or end.                                               *)
(***************************************************************************)
Fairness ==
  \A t \in Threads :
    /\ WF_vars(StartBusy(t))
    /\ WF_vars(PollStep(t))
    /\ WF_vars(IoStep(t))
    /\ SF_vars(LeaveCheck(t))
    /\ WF_vars(gcLock = t /\ LeaveIo(t))
    /\ WF_vars(CollectStep(t))
    /\ SF_vars(Look(t))

FairSpec == Spec /\ Fairness

-----------------------------------------------------------------------------
(* Properties *)

InPollSlow == {"poll", "enter", "capture", "wait", "leave"}
Pausing == {"look", "looking", "stopped"}
Labels == InPollSlow \union Pausing \union
  {"new", "start", "run", "gone", "ioCheck", "ioYield", "ioAgain", "io", "ioLeft",
   "collect", "advance"}

\* Every variable stays within the values its Rust type can take.
TypeOK ==
  /\ registered \subseteq Threads
  /\ registry \in Threads \union {NoThread}
  /\ request \in BOOLEAN
  /\ inSafepoint \in [Threads -> BOOLEAN]
  /\ inIo \in [Threads -> BOOLEAN]
  /\ sameEpoch \in [Threads -> BOOLEAN]
  /\ gcLock \in Threads \union {NoThread}
  /\ pc \in [Threads -> Labels]
  /\ ret \in [Threads -> {"run", "ioAgain", "collect"}]
  /\ work \in [Threads -> {"none", "alloc", "minor", "major", "remark"}]
  /\ unseen \subseteq Threads
  /\ pauses \in 0 .. MaxPauses
  /\ late \subseteq Threads

\* Registered threads that use the heap.
OnHeap == {t \in registered : pc[t] = "run"}

\* While a collector has the world stopped no other registered thread uses the
\* heap ("Initial Mark (STW)", "Remark (STW)", gc.rs:1931, 1963).
StopTheWorld == \A c \in Threads : pc[c] = "stopped" => OnHeap = {}

\* Until a second pause is requested the world stops for every registered thread:
\* what StopTheWorld promises holds for the first pause.
FirstPauseStopsWorld == pauses <= 1 => StopTheWorld

\* A stopped world has no running thread but those that were still on their way
\* out of the previous pause's safepoint when this one was requested, and that
\* have not polled since: a thread that registers, polls, blocks or comes back
\* from blocking at any moment of the pause is stopped (gc.rs:1142-1222,
\* 2779-2858, vthread.rs:1352-1361, 1462-1470).
OnlyLateThreadsRun == \A c \in Threads : pc[c] = "stopped" => OnHeap \subseteq late

\* A pause that was requested comes about and ends: no thread waits on GC_LOCK or
\* in a system call in a way the collector takes for running (gc.rs:1725-1728).
PauseEnds == request ~> ~ request

\* No thread is left in the wait loop: whichever way its capture of the epoch
\* falls between the end of one pause and the request of the next, it leaves
\* (gc.rs:1151-1181, 2860-2883).
WaiterLeaves == \A t \in Threads : pc[t] = "wait" ~> pc[t] # "wait"

=============================================================================
