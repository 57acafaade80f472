----------------------------- MODULE VThreadPark -----------------------------
(***************************************************************************)
(* The park/unpark half of the virtual-thread scheduler (vthread.rs): a    *)
(* table, split in shards by token, of the virtual threads suspended on a  *)
(* token, and a set of permits left by unparks that came first.            *)
(*                                                                         *)
(* Every access to a shard is one critical section of its SpinMutex, so    *)
(* each operator below is one atomic step.  Two tokens never share an      *)
(* entry, so the split in shards is not visible and is left out.           *)
(*                                                                         *)
(* Parking takes two steps of two actors.  vt_park runs on the virtual     *)
(* thread's own stack: it looks for a permit and, without one, switches to *)
(* the worker.  The worker then saves the GC state and looks for a permit  *)
(* again before it puts the thread in the table: an unpark may have come   *)
(* between the two.                                                        *)
(***************************************************************************)

VARIABLES
  parked,    \* tokens that hold a suspended virtual thread: ParkShard.parked
  unparked   \* tokens with a permit:                      ParkShard.unparked

parkVars == <<parked, unparked>>

ParkInit ==
  /\ parked = {}
  /\ unparked = {}

\* vt_park: a permit is consumed and the call returns at once.
ParkConsumes(tk) ==
  /\ tk \in unparked
  /\ unparked' = unparked \ {tk}
  /\ UNCHANGED parked

\* vt_park: no permit, the virtual thread switches to its worker.
ParkSuspends(tk) ==
  /\ tk \notin unparked
  /\ UNCHANGED parkVars

\* worker_loop, reason "park": a permit that came meanwhile makes the thread
\* runnable again.
RouteConsumes(tk) ==
  /\ tk \in unparked
  /\ unparked' = unparked \ {tk}
  /\ UNCHANGED parked

\* worker_loop, reason "park": the thread is put in the table.
RouteParks(tk) ==
  /\ tk \notin unparked
  /\ parked' = parked \union {tk}
  /\ UNCHANGED unparked

\* vt_unpark: the parked thread goes to the global queue, or a permit is left.
Unpark(tk) ==
  IF tk \in parked
    THEN parked' = parked \ {tk} /\ UNCHANGED unparked
    ELSE unparked' = unparked \union {tk} /\ UNCHANGED parked

=============================================================================
