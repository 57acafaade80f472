----------------------------- MODULE ThreadObject -----------------------------
(***************************************************************************)
(* A Thread object (runtime/core/thread.rs and "Thread Operations" in      *)
(* runtime/core/lib.rs): its callback is held for the collector by a       *)
(* static root, its data by a box the object points to.  Any thread may    *)
(* start or join it, the finalizer runs when nobody can any more, and the  *)
(* virtual thread it begun gives the root back when it ends.             *)
(***************************************************************************)
EXTENDS Naturals

CONSTANTS Callers   \* the threads that use the object, each for one call

Finalizer == "finalizer"

ASSUME CallersAssumption == Finalizer \notin Callers

VARIABLES
  begun,   \* ThreadData.started
  running,   \* ThreadData.slot_live: the virtual thread has not ended
  released,  \* ThreadData.cb_released
  root,      \* what the static root cb_slot holds: "own", "free" or "other"
  box,       \* the data: "held" by the object or "freed"
  caller,    \* where each caller is
  vthread,   \* where the virtual thread is
  ran        \* what the virtual thread found in the root: "", "own" or not

threadVars == <<begun, running, released, root, box, caller, vthread, ran>>

\* rt_Thread_constructor.
ThreadInit ==
  /\ begun = FALSE /\ running = TRUE /\ released = FALSE
  /\ root = "own" /\ box = "held"
  /\ caller = [c \in Callers \cup {Finalizer} |-> "idle"]
  /\ vthread = "none" /\ ran = ""

Moves(c, from, to) == caller[c] = from /\ caller' = [caller EXCEPT ![c] = to]

\* rt_release_thread_cb_slot: whoever sets cb_released gives the root back.
\* Mutant: whoever sees it unset, or has waited for the thread, does.
ReleaseAgain == released' = TRUE /\ root' = "free"

ReleaseRoot ==
  IF released THEN UNCHANGED <<released, root>>
  ELSE released' = TRUE /\ root' = "free"

\* A new Thread object may get the root.
TakeRoot ==
  /\ root = "free" /\ root' = "other"
  /\ UNCHANGED <<begun, running, released, box, caller, vthread, ran>>

---------------------------------------------------------------------------
(* rt_Thread_start and rt_Thread_join *)

\* The pointer in the object is read, then the data is cloned through it.  A box that
\* was freed in between is still read.
Enter(c) ==
  /\ \E to \in {"start", "join"} : Moves(c, "idle", IF box = "held" THEN to ELSE "done")
  /\ UNCHANGED <<begun, running, released, root, box, vthread, ran>>

\* Mutant: the flag is looked at, then set.
StartUnswapped(c, from, to) ==
  /\ Moves(c, from, to)
  /\ begun' = TRUE
  /\ vthread' = "ready"
  /\ UNCHANGED <<running, released, root, box, ran>>

\* begun is swapped: one call starts the virtual thread.
StartOnce(c, from, to) ==
  /\ Moves(c, from, to)
  /\ begun' = TRUE
  /\ vthread' = IF begun THEN vthread ELSE "ready"
  /\ UNCHANGED <<running, released, root, box, ran>>

Start(c) == StartOnce(c, "start", "done")

\* join starts a thread that was not, through rt_Thread_start, which reads the object
\* again.
JoinStarts(c) ==
  IF ~begun /\ box = "held"
  THEN StartOnce(c, "join", "wait")
  ELSE Moves(c, "join", "wait") /\ UNCHANGED <<begun, running, released, root, box, vthread, ran>>

JoinReleases(c) ==
  /\ ~running /\ Moves(c, "wait", "detach")
  /\ ReleaseRoot
  /\ UNCHANGED <<begun, running, box, vthread, ran>>

\* The pointer is swapped with 0: one join frees the box.
JoinFrees(c) ==
  /\ Moves(c, "detach", "done")
  /\ box' = "freed"
  /\ UNCHANGED <<begun, running, released, root, vthread, ran>>

---------------------------------------------------------------------------
(* rt_thread_object_finalizer *)

FinalizeReleases == ~begun \/ ~running

Finalize ==
  /\ \A c \in Callers : caller[c] \in {"idle", "done"}
  /\ caller[Finalizer] = "idle"
  /\ caller' = [c \in DOMAIN caller |-> "done"]
  /\ box' = "freed"
  /\ IF box = "held" /\ FinalizeReleases THEN ReleaseRoot ELSE UNCHANGED <<released, root>>
  /\ UNCHANGED <<begun, running, vthread, ran>>

---------------------------------------------------------------------------
(* The virtual thread: ThreadRunGuard gives the root back when the closure ends. *)

ReadRoot ==
  /\ vthread = "ready" /\ vthread' = "called"
  /\ ran' = root
  /\ UNCHANGED <<begun, running, released, root, box, caller>>

DropGuard ==
  /\ vthread = "called" /\ vthread' = "ended"
  /\ ReleaseRoot
  /\ UNCHANGED <<begun, running, box, caller, ran>>

EndVThread ==
  /\ vthread = "ended" /\ running
  /\ running' = FALSE
  /\ UNCHANGED <<begun, released, root, box, caller, vthread, ran>>

ThreadNext ==
  \/ \E c \in Callers : Enter(c) \/ Start(c) \/ JoinStarts(c) \/ JoinReleases(c) \/ JoinFrees(c)
  \/ Finalize \/ ReadRoot \/ DropGuard \/ EndVThread \/ TakeRoot

ThreadSpec == ThreadInit /\ [][ThreadNext]_threadVars

---------------------------------------------------------------------------
(* Properties. *)

\* The virtual thread runs the object's own callback, once, however many starts and
\* joins there are.
RunsOwnCallback == ran \in {"", "own"}

\* The root of another object is never given back (rt_release_thread_cb_slot).
SparesOtherRoots == [][root = "other" => root' = "other"]_threadVars

\* Once the object is gone and the thread it begun has ended, its callback is no
\* root any more.
RootNotLeaked ==
  (caller[Finalizer] = "done" /\ (begun => ~running)) => root # "own"

\* The root holds the object's own callback for as long as somebody may run it, and no
\* longer.
RootInStep == RunsOwnCallback /\ RootNotLeaked

=============================================================================
