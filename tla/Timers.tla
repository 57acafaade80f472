-------------------------------- MODULE Timers --------------------------------
(***************************************************************************)
(* Timers (runtime/core/lib.rs, "Timer Management") and the global handles *)
(* that keep their callbacks alive for the collector.  Threads send the    *)
(* timer thread messages on a channel; the timer thread keeps a heap of    *)
(* expiry times and the timers that are active, and starts a virtual       *)
(* thread for every callback.                                              *)
(*                                                                         *)
(* A timer's callback is known by the timer's id.                          *)
(***************************************************************************)
EXTENDS Naturals, Sequences, FiniteSets

CONSTANTS
  MaxTimers,   \* bound: timers created
  MaxClock,    \* bound: milliseconds that pass
  Delays       \* the delays asked for

ASSUME TimersAssumption ==
  MaxTimers \in Nat /\ MaxClock \in Nat /\ Delays \subseteq Nat

VARIABLES
  clock,     \* Instant::now, in milliseconds
  created,   \* NEXT_TIMER_ID - 1
  channel,   \* the messages not received
  slots,     \* GLOBAL_HANDLES.slots: the callback in each handle, 0 for none
  free,      \* GLOBAL_HANDLES.free, the next one last
  heap,      \* entries of the binary heap: expiry and timer
  active,    \* active timers: handle and interval, 0 for a timeout
  stage,     \* of the timer thread: "top", "expired" or "drain"
  looks,     \* the instant at which the round of the timer thread began
  runs,      \* virtual threads created for callbacks
  cleared,   \* timers the program has cleared
  called     \* the callbacks that were called, and for which timer

timerThread == <<heap, active, stage, looks>>
handleVars == <<slots, free>>
timerVars == <<clock, created, channel, handleVars, timerThread, runs, cleared, called>>

NoCall == 0

TimersInit ==
  /\ clock = 1 /\ created = 0 /\ channel = <<>>
  /\ slots = <<>> /\ free = <<>>
  /\ heap = {} /\ active = <<>> /\ stage = "top" /\ looks = 0
  /\ runs = {} /\ cleared = {} /\ called = {}

---------------------------------------------------------------------------
(* Global handles. *)

\* tejx_create_global_handle(callback): the handle is NextHandle.
NextHandle == IF free = <<>> THEN Len(slots) + 1 ELSE free[Len(free)]

CreateHandle(callback) ==
  IF free = <<>>
  THEN slots' = Append(slots, callback) /\ UNCHANGED free
  ELSE /\ slots' = [slots EXCEPT ![NextHandle] = callback]
       /\ free' = SubSeq(free, 1, Len(free) - 1)

DropHandle(h) ==
  IF slots[h] = NoCall THEN UNCHANGED handleVars
  ELSE slots' = [slots EXCEPT ![h] = NoCall] /\ free' = Append(free, h)

---------------------------------------------------------------------------
(* rt_setTimeout, rt_setInterval, rt_clearTimeout and rt_clearInterval *)

StartTimer(ms, interval) ==
  /\ created < MaxTimers
  /\ created' = created + 1
  /\ CreateHandle(created + 1)
  /\ channel' = Append(channel, [is |-> "add", id |-> created + 1, expires |-> clock + ms,
                                 interval |-> interval, handle |-> NextHandle])
  /\ UNCHANGED <<clock, timerThread, runs, cleared, called>>

SetTimeout == \E ms \in Delays : StartTimer(ms, 0)

SetInterval == \E ms \in Delays \ {0} : StartTimer(ms, ms)

ClearTimer ==
  \E id \in 1..created :
    /\ id \notin cleared
    /\ channel' = Append(channel, [is |-> "cancel", id |-> id])
    /\ cleared' = cleared \cup {id}
    /\ UNCHANGED <<clock, created, handleVars, timerThread, runs, called>>

---------------------------------------------------------------------------
(* The timer thread *)

Peek(e) == e \in heap /\ \A f \in heap : e.expires <= f.expires

\* A round looks at the clock once.
BeginRound ==
  /\ stage = "top"
  /\ stage' = "expired" /\ looks' = clock
  /\ UNCHANGED <<clock, created, channel, handleVars, heap, active, runs, cleared, called>>

\* The first entry belongs to a timer that was cleared.
DropEntry ==
  \E e \in heap :
    /\ stage = "expired" /\ Peek(e) /\ e.id \notin DOMAIN active
    /\ heap' = heap \ {e}
    /\ UNCHANGED <<clock, created, channel, handleVars, active, stage, looks, runs, cleared, called>>

Others(f, id) == [x \in DOMAIN f \ {id} |-> f[x]]

\* The virtual thread for a timer's callback.
RunOf(e) == [timer |-> e.id, due |-> e.expires, handle |-> active[e.id].handle,
             interval |-> active[e.id].interval > 0, at |-> "get", callback |-> NoCall]

\* Mutant: a timeout stays active while its callback waits for a worker.
FireTimeoutKept(e) ==
  /\ active[e.id].interval = 0
  /\ heap' = heap \ {e}
  /\ UNCHANGED active

FireTimeout(e) ==
  /\ active[e.id].interval = 0
  /\ heap' = heap \ {e}
  /\ active' = Others(active, e.id)

FireInterval(e) ==
  /\ active[e.id].interval > 0
  /\ heap' = (heap \ {e}) \cup {[e EXCEPT !.expires = looks + active[e.id].interval]}
  /\ UNCHANGED active

Fire ==
  \E e \in heap :
    /\ stage = "expired" /\ Peek(e) /\ e.id \in DOMAIN active /\ e.expires <= looks
    /\ FireTimeout(e) \/ FireInterval(e)
    /\ runs' = runs \cup {RunOf(e)}
    /\ UNCHANGED <<clock, created, channel, handleVars, stage, looks, cleared, called>>

\* All that has expired has been fired: the thread waits for a message, then takes
\* all there are.
Waiting == stage = "expired" /\ \A e \in heap : Peek(e) => e.id \in DOMAIN active /\ e.expires > looks

AddTimer(m) ==
  /\ active' = [x \in DOMAIN active \cup {m.id} |->
                 IF x = m.id THEN [handle |-> m.handle, interval |-> m.interval] ELSE active[x]]
  /\ heap' = heap \cup {[expires |-> m.expires, id |-> m.id]}
  /\ UNCHANGED handleVars

CancelTimer(m) ==
  IF m.id \in DOMAIN active
  THEN active' = Others(active, m.id) /\ DropHandle(active[m.id].handle) /\ UNCHANGED heap
  ELSE UNCHANGED <<active, heap, handleVars>>

Receive ==
  /\ Waiting \/ stage = "drain"
  /\ channel # <<>>
  /\ \/ Head(channel).is = "add" /\ AddTimer(Head(channel))
     \/ Head(channel).is = "cancel" /\ CancelTimer(Head(channel))
  /\ channel' = Tail(channel) /\ stage' = "drain"
  /\ UNCHANGED <<clock, created, looks, runs, cleared, called>>

\* No message is left, or none came before the next expiry.
EndRound ==
  /\ channel = <<>>
  /\ stage = "drain" \/ (Waiting /\ \E e \in heap : e.expires <= clock)
  /\ stage' = "top"
  /\ UNCHANGED <<clock, created, channel, handleVars, heap, active, looks, runs, cleared, called>>

---------------------------------------------------------------------------
(* The virtual threads of the callbacks *)

\* An empty handle is not called; a timeout drops its handle before the call.
GetCallback(r) ==
  /\ r.at = "get"
  /\ runs' = (runs \ {r}) \cup {[r EXCEPT !.callback = slots[r.handle],
                                       !.at = IF r.interval THEN "call" ELSE "drop"]}
  /\ UNCHANGED <<handleVars, called>>

DropOwnHandle(r) ==
  /\ r.at = "drop"
  /\ DropHandle(r.handle)
  /\ runs' = (runs \ {r}) \cup {[r EXCEPT !.at = "call"]}
  /\ UNCHANGED called

Call(r) ==
  /\ r.at = "call"
  /\ runs' = runs \ {r}
  /\ called' = IF r.callback = NoCall THEN called
               ELSE called \cup {[timer |-> r.timer, callback |-> r.callback, interval |-> r.interval]}
  /\ UNCHANGED handleVars

RunCallback ==
  /\ \E r \in runs : GetCallback(r) \/ DropOwnHandle(r) \/ Call(r)
  /\ UNCHANGED <<clock, created, channel, timerThread, cleared>>

Tick ==
  /\ clock < MaxClock /\ clock' = clock + 1
  /\ UNCHANGED <<created, channel, handleVars, timerThread, runs, cleared, called>>

TimersNext ==
  \/ SetTimeout \/ SetInterval \/ ClearTimer
  \/ BeginRound \/ DropEntry \/ Fire \/ Receive \/ EndRound
  \/ RunCallback \/ Tick

TimersSpec == TimersInit /\ [][TimersNext]_timerVars

---------------------------------------------------------------------------
(* Properties. *)

\* The timers that own a handle: their message is on its way, they are active, or
\* the callback of the timeout has not dropped it.
Owners ==
  {<<m.handle, m.id>> : m \in {channel[k] : k \in {j \in DOMAIN channel : channel[j].is = "add"}}}
  \cup {<<active[id].handle, id>> : id \in DOMAIN active}
  \cup {<<r.handle, r.timer>> : r \in {q \in runs : ~q.interval /\ q.at # "call"}}

\* Every handle in use belongs to the one timer whose callback it holds, and the rest
\* are free, each once: handles are neither leaked nor shared (GlobalHandles).
HandlesAccounted ==
  /\ {<<h, slots[h]>> : h \in {g \in DOMAIN slots : slots[g] # NoCall}} = Owners
  /\ {free[k] : k \in DOMAIN free} = {g \in DOMAIN slots : slots[g] = NoCall}
  /\ Cardinality({free[k] : k \in DOMAIN free}) = Len(free)

\* A timer calls its own callback; only a tick that was created before its interval was
\* cleared can find another's in the handle.
OwnCallback == \A c \in called : c.callback # c.timer => c.interval /\ c.timer \in cleared

\* A timer that was not cleared is in one place only: on its way, waiting on the heap,
\* about to be called or, a timeout, called; an interval is never off the heap again.
NoTimerLost ==
  \A id \in 1..created \ cleared :
    LET coming == {k \in DOMAIN channel : channel[k].is = "add" /\ channel[k].id = id}
        waiting == {e \in heap : e.id = id}
        running == {r \in runs : r.timer = id /\ ~r.interval}
        done == {c \in called : c.timer = id /\ ~c.interval}
    IN /\ Cardinality(coming) + Cardinality(waiting) + Cardinality(running) + Cardinality(done) = 1
       /\ (waiting # {}) = (id \in DOMAIN active)

\* The timers and their handles agree: none lost, none leaked, none called for another.
TimersAccounted == HandlesAccounted /\ OwnCallback /\ NoTimerLost

=============================================================================
