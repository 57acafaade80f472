--------------------------- MODULE VThreadScheduler ---------------------------
(***************************************************************************)
(* The M:N scheduler of virtual threads (runtime/core/vthread.rs).  Worker *)
(* OS threads take virtual threads off a local queue, a priority queue     *)
(* (woken by I/O), a global queue or each other's local queues, run them   *)
(* until they suspend, save their GC roots and put them where the reason   *)
(* of the suspension says: the global queue, the timers, an I/O channel or *)
(* the park table.  The netpoller and the timers make them runnable again. *)
(*                                                                         *)
(* A channel is one direction (read or write) of one I/O token.  A virtual *)
(* thread's only owner is the container it is in, so a thread that a       *)
(* container drops is gone with its stack.  What programs may do is given  *)
(* by constants; they do it in any order.  The queues are crossbeam's: a   *)
(* worker that takes from a shared queue may take more into its local one. *)
(* Idle workers look again every millisecond and the wake-up that shortens *)
(* that wait is left out.                                                  *)
(***************************************************************************)
EXTENDS Naturals, SequencesExt, VThreadPark

CONSTANTS
  VThreads, Workers,
  NoVThread,   \* a worker without a task, an I/O channel without a thread
  Channels,    \* I/O channels
  NoChannel,
  Uses,        \* pairs <<v, c>>: v may wait on c
  Joins,       \* pairs <<v, u>>: v may join u
  Sleepers,    \* virtual threads that may sleep
  Parkers,     \* virtual threads that may park, on a token of their own
  Period,      \* a worker looks at the global queue first once in Period rounds
  MaxBatch,    \* how many more tasks a worker takes off a shared queue
  MaxSleep,    \* bound: longest sleep, in ms
  MaxNow       \* bound: the clock, in ms

ASSUME SchedulerAssumption ==
  /\ NoVThread \notin VThreads /\ NoChannel \notin Channels
  /\ Uses \subseteq VThreads \X Channels
  /\ Joins \subseteq VThreads \X VThreads
  /\ Period \in Nat \ {0}
  /\ MaxBatch \in Nat /\ MaxSleep \in Nat /\ MaxNow \in Nat

VARIABLES
  global, priority,  \* Scheduler.global_queue, priority_queue
  local,             \* each worker's queue
  timers,            \* Scheduler.timers
  until,             \* the deadline of a thread that sleeps
  timerCount, minDeadline, \* what drain_expired_timers looks at first
  expired,           \* drained timers on their way to the global queue
  now,               \* the clock
  ready,             \* ready_read and ready_write
  parkedIo,          \* parked_read and parked_write: the thread on each channel
  data,              \* channels the kernel has something for
  edge,              \* channels whose event the netpoller has yet to see
  pc, run, tick,     \* each worker's place in worker_loop, task and round
  vpc,               \* where each virtual thread is in its own code
  chan, target,      \* the channel it does I/O on, the thread it joins
  reason,            \* VThread.yield_reason, "done" for VThread.done
  gcState,           \* VThread.gc_state holds the thread's roots
  live               \* threads whose slot_live is set

queueVars == <<global, priority, local>>
timerVars == <<timers, until, timerCount, minDeadline, expired, now>>
ioVars == <<ready, parkedIo, data, edge>>
workerVars == <<pc, run, tick>>
threadVars == <<vpc, chan, target, reason, gcState, live>>
vars == <<queueVars, timerVars, ioVars, workerVars, threadVars, parkVars>>

Never == MaxNow + 1   \* min_timer_deadline = u64::MAX

Init ==
  /\ ParkInit
  /\ global = <<>> /\ priority = <<>>
  /\ local = [w \in Workers |-> <<>>]
  /\ timers = {} /\ expired = {}
  /\ until = [v \in VThreads |-> 0]
  /\ timerCount = 0 /\ minDeadline = Never /\ now = 0
  /\ ready = {} /\ data = {} /\ edge = {}
  /\ parkedIo = [c \in Channels |-> NoVThread]
  /\ pc = [w \in Workers |-> "seek"]
  /\ run = [w \in Workers |-> NoVThread]
  /\ tick = [w \in Workers |-> 0]
  /\ vpc = [v \in VThreads |-> "new"]
  /\ chan = [v \in VThreads |-> NoChannel]
  /\ target = [v \in VThreads |-> NoVThread]
  /\ reason = [v \in VThreads |-> "yield"]
  /\ gcState = [v \in VThreads |-> FALSE]
  /\ live = {}

-----------------------------------------------------------------------------
\* vt_spawn_closure, by any thread of the program.
Spawn(v) ==
  /\ vpc[v] = "new"
  /\ vpc' = [vpc EXCEPT ![v] = "spawned"]
  /\ live' = live \union {v}
  /\ global' = Append(global, v)
  /\ UNCHANGED <<priority, local, timerVars, ioVars, workerVars, chan, target,
                 reason, gcState, parkVars>>

-----------------------------------------------------------------------------
(* worker_loop: a worker looks for a task *)
NextTick(w) == (tick[w] + 1) % Period
\* Mutant: the global queue never comes first.
GlobalNeverFirst(w) == FALSE

GlobalFirst(w) == NextTick(w) = 0 /\ global # <<>>

\* The task at the head of q is w's, up to MaxBatch more go to w's own queue.
TakeBatch(w, q, rest) ==
  \E n \in 1 .. Len(q) :
    /\ n <= MaxBatch + 1
    /\ run' = [run EXCEPT ![w] = Head(q)]
    /\ local' = [local EXCEPT ![w] = @ \o SubSeq(q, 2, n)]
    /\ rest = SubSeq(q, n + 1, Len(q))

\* A look at its own queue, the priority queue, and now and then the global one.
Seek(w) ==
  /\ pc[w] = "seek"
  /\ tick' = [tick EXCEPT ![w] = NextTick(w)]
  /\ \/ /\ GlobalFirst(w)
        /\ TakeBatch(w, global, global')
        /\ UNCHANGED priority
     \/ /\ ~ GlobalFirst(w) /\ local[w] # <<>>
        /\ run' = [run EXCEPT ![w] = Head(local[w])]
        /\ local' = [local EXCEPT ![w] = Tail(@)]
        /\ UNCHANGED <<global, priority>>
     \/ /\ ~ GlobalFirst(w) /\ local[w] = <<>> /\ priority # <<>>
        /\ TakeBatch(w, priority, priority')
        /\ UNCHANGED global
     \/ /\ ~ GlobalFirst(w) /\ local[w] = <<>> /\ priority = <<>>
        /\ UNCHANGED <<queueVars, run>>
  /\ pc' = [pc EXCEPT ![w] = IF run'[w] = NoVThread THEN "seekGlobal" ELSE "picked"]

SeekGlobal(w) ==
  /\ pc[w] = "seekGlobal"
  /\ \/ global # <<>> /\ TakeBatch(w, global, global')
     \/ global = <<>> /\ UNCHANGED <<global, local, run>>
  /\ pc' = [pc EXCEPT ![w] = IF run'[w] = NoVThread THEN "seekOthers" ELSE "picked"]
  /\ UNCHANGED <<priority, tick>>

\* Steal from another worker.  One that is at its queue makes the attempt fail.
SeekOthers(w) ==
  /\ pc[w] = "seekOthers"
  /\ \/ \E u \in Workers \ {w} :
          /\ \E n \in 1 .. Len(local[u]) :
               /\ n <= MaxBatch + 1
               /\ run' = [run EXCEPT ![w] = Head(local[u])]
               /\ local' = [local EXCEPT ![w] = SubSeq(local[u], 2, n),
                                         ![u] = SubSeq(@, n + 1, Len(@))]
     \/ UNCHANGED <<local, run>>
  /\ pc' = [pc EXCEPT ![w] = IF run'[w] = NoVThread THEN "seek" ELSE "picked"]
  /\ UNCHANGED <<global, priority, tick>>

Pick(w) ==
  /\ Seek(w) \/ SeekGlobal(w) \/ SeekOthers(w)
  /\ UNCHANGED <<timerVars, ioVars, threadVars, parkVars>>

\* The task's roots go to the worker's context and the worker switches to it.
Resume(w) ==
  LET v == run[w] IN
  /\ pc[w] = "picked"
  /\ pc' = [pc EXCEPT ![w] = "running"]
  /\ gcState' = [gcState EXCEPT ![v] = FALSE]
  /\ vpc' = [vpc EXCEPT ![v] = IF @ = "spawned" THEN "program" ELSE @]
  /\ UNCHANGED <<queueVars, timerVars, ioVars, run, tick, chan, target, reason, live,
                 parkVars>>

-----------------------------------------------------------------------------
(* What a running virtual thread does *)

Running(w, at) == pc[w] = "running" /\ vpc[run[w]] = at

\* vthread_suspend: back to the worker with a reason.
Switch(w, why) ==
  /\ pc' = [pc EXCEPT ![w] = "switched"]
  /\ reason' = [reason EXCEPT ![run[w]] = why]
  /\ UNCHANGED <<run, tick>>

\* vt_yield, also by preemption.
Yield(w) ==
  /\ Running(w, "program")
  /\ Switch(w, "yield")
  /\ UNCHANGED <<queueVars, timerVars, ioVars, vpc, chan, target, gcState, live, parkVars>>

\* The deadline of a sleep of ms that starts now.
Deadline(ms) == now + ms + 1

Sleep(w) ==
  /\ Running(w, "program") /\ run[w] \in Sleepers
  /\ \E ms \in 0 .. MaxSleep :
       /\ Deadline(ms) <= MaxNow
       /\ until' = [until EXCEPT ![run[w]] = Deadline(ms)]
  /\ Switch(w, "sleep")
  /\ UNCHANGED <<queueVars, timers, timerCount, minDeadline, expired, now, ioVars,
                 vpc, chan, target, gcState, live, parkVars>>

Park(w) ==
  /\ Running(w, "program") /\ run[w] \in Parkers
  /\ \/ ParkConsumes(run[w]) /\ UNCHANGED <<workerVars, reason>>
     \/ ParkSuspends(run[w]) /\ Switch(w, "park")
  /\ UNCHANGED <<queueVars, timerVars, ioVars, vpc, chan, target, gcState, live>>

\* vt_unpark, by any thread of the program.
UnparkThread(v) ==
  /\ Unpark(v)
  /\ global' = IF v \in parked THEN Append(global, v) ELSE global
  /\ UNCHANGED <<priority, local, timerVars, ioVars, workerVars, threadVars>>

\* An I/O call: the system call first, the wait after EWOULDBLOCK, and again.
StartIo(w) ==
  /\ Running(w, "program")
  /\ \E c \in Channels :
       /\ <<run[w], c>> \in Uses
       /\ chan' = [chan EXCEPT ![run[w]] = c]
  /\ vpc' = [vpc EXCEPT ![run[w]] = "ioTry"]
  /\ UNCHANGED <<queueVars, timerVars, ioVars, workerVars, target, reason, gcState, live,
                 parkVars>>

TryIo(w) ==
  LET v == run[w] IN
  /\ Running(w, "ioTry")
  /\ IF chan[v] \in data
       THEN /\ data' \in {data, data \ {chan[v]}}
            /\ vpc' = [vpc EXCEPT ![v] = "program"]
            /\ chan' = [chan EXCEPT ![v] = NoChannel]
       ELSE /\ vpc' = [vpc EXCEPT ![v] = "ioWait"]
            /\ UNCHANGED <<data, chan>>
  /\ UNCHANGED <<queueVars, timerVars, ready, parkedIo, edge, workerVars, target, reason,
                 gcState, live, parkVars>>

\* vt_wait_io_read and vt_wait_io_write.
WaitIo(w) ==
  LET v == run[w] IN
  /\ Running(w, "ioWait")
  /\ vpc' = [vpc EXCEPT ![v] = "ioTry"]
  /\ IF chan[v] \in ready
       THEN ready' = ready \ {chan[v]} /\ UNCHANGED <<workerVars, reason>>
       ELSE Switch(w, "io") /\ UNCHANGED ready
  /\ UNCHANGED <<queueVars, timerVars, parkedIo, data, edge, chan, target, gcState, live,
                 parkVars>>

\* vt_join: look at slot_live, yield or sleep, and again.
StartJoin(w) ==
  /\ Running(w, "program")
  /\ \E u \in VThreads :
       /\ <<run[w], u>> \in Joins /\ vpc[u] # "new"
       /\ target' = [target EXCEPT ![run[w]] = u]
  /\ vpc' = [vpc EXCEPT ![run[w]] = "join"]
  /\ UNCHANGED <<queueVars, timerVars, ioVars, workerVars, chan, reason, gcState, live,
                 parkVars>>

Join(w) ==
  LET v == run[w] IN
  /\ Running(w, "join")
  /\ IF target[v] \in live
       THEN /\ \/ Switch(w, "yield") /\ UNCHANGED until
               \/ /\ Switch(w, "sleep")
                  /\ Deadline(1) <= MaxNow
                  /\ until' = [until EXCEPT ![v] = Deadline(1)]
            /\ UNCHANGED <<vpc, target>>
       ELSE /\ vpc' = [vpc EXCEPT ![v] = "program"]
            /\ target' = [target EXCEPT ![v] = NoVThread]
            /\ UNCHANGED <<workerVars, reason, until>>
  /\ UNCHANGED <<queueVars, timers, timerCount, minDeadline, expired, now, ioVars, chan,
                 gcState, live, parkVars>>

Finish(w) ==
  /\ Running(w, "program")
  /\ vpc' = [vpc EXCEPT ![run[w]] = "ended"]
  /\ Switch(w, "done")
  /\ UNCHANGED <<queueVars, timerVars, ioVars, chan, target, gcState, live, parkVars>>

-----------------------------------------------------------------------------
(* worker_loop: the task has switched back *)
\* Mutant: the roots stay in the worker's context.
SaveNothing(w) ==
  /\ pc[w] = "switched" /\ reason[run[w]] # "done"
  /\ pc' = [pc EXCEPT ![w] = "route"]
  /\ UNCHANGED <<queueVars, timerVars, ioVars, run, tick, threadVars, parkVars>>

Save(w) ==
  /\ pc[w] = "switched" /\ reason[run[w]] # "done"
  /\ pc' = [pc EXCEPT ![w] = "route"]
  /\ gcState' = [gcState EXCEPT ![run[w]] = TRUE]
  /\ UNCHANGED <<queueVars, timerVars, ioVars, run, tick, vpc, chan, target, reason, live,
                 parkVars>>

\* The task has left the worker's hands.  Its reason is not read again and is
\* forgotten here, so that it does not tell apart states that behave alike.
Routed(w, why) ==
  /\ pc[w] = "route" /\ reason[run[w]] = why
  /\ pc' = [pc EXCEPT ![w] = "seek"]
  /\ run' = [run EXCEPT ![w] = NoVThread]
  /\ reason' = [reason EXCEPT ![run[w]] = "yield"]
  /\ UNCHANGED <<tick, vpc, chan, target, gcState, live>>

RouteYield(w) ==
  /\ Routed(w, "yield")
  /\ global' = Append(global, run[w])
  /\ UNCHANGED <<priority, local, timerVars, ioVars, parkVars>>

Earliest(s) == Min({Never} \union {until[v] : v \in s})

\* add_timer
RouteSleep(w) ==
  /\ Routed(w, "sleep")
  /\ timers' = timers \union {run[w]}
  /\ timerCount' = timerCount + 1
  /\ minDeadline' = Earliest(timers')
  /\ UNCHANGED <<queueVars, until, expired, now, ioVars, parkVars>>
\* Mutant: the worker parks the thread without a second look for readiness.
RouteIoBlindly(w) ==
  /\ Routed(w, "io")
  /\ parkedIo' = [parkedIo EXCEPT ![chan[run[w]]] = run[w]]
  /\ UNCHANGED <<queueVars, timerVars, ready, data, edge, parkVars>>

RouteIo(w) ==
  LET c == chan[run[w]] IN
  /\ Routed(w, "io")
  /\ IF c \in ready
       THEN /\ ready' = ready \ {c}
            /\ priority' = Append(priority, run[w])
            /\ UNCHANGED parkedIo
       ELSE /\ parkedIo' = [parkedIo EXCEPT ![c] = run[w]]
            /\ UNCHANGED <<ready, priority>>
  /\ UNCHANGED <<global, local, timerVars, data, edge, parkVars>>

RoutePark(w) ==
  /\ Routed(w, "park")
  /\ \/ RouteConsumes(run[w]) /\ global' = Append(global, run[w])
     \/ RouteParks(run[w]) /\ UNCHANGED global
  /\ UNCHANGED <<priority, local, timerVars, ioVars>>

\* The thread is freed, and after that those who join it may know.
Drop(w) ==
  /\ pc[w] = "switched" /\ reason[run[w]] = "done"
  /\ pc' = [pc EXCEPT ![w] = "dropped"]
  /\ gcState' = [gcState EXCEPT ![run[w]] = FALSE]
  /\ UNCHANGED <<queueVars, timerVars, ioVars, run, tick, vpc, chan, target, reason, live,
                 parkVars>>
\* Mutant: slot_live stays set.
EndThreadLive(w) ==
  /\ pc[w] = "dropped"
  /\ pc' = [pc EXCEPT ![w] = "seek"]
  /\ run' = [run EXCEPT ![w] = NoVThread]
  /\ UNCHANGED <<queueVars, timerVars, ioVars, tick, threadVars, parkVars>>

EndThread(w) ==
  /\ pc[w] = "dropped"
  /\ pc' = [pc EXCEPT ![w] = "seek"]
  /\ run' = [run EXCEPT ![w] = NoVThread]
  /\ live' = live \ {run[w]}
  /\ UNCHANGED <<queueVars, timerVars, ioVars, tick, vpc, chan, target, reason, gcState,
                 parkVars>>

-----------------------------------------------------------------------------
(* The netpoller, the kernel and the clock *)

\* The kernel reports an edge, more data on a channel that has some included.
Arrive(c) ==
  /\ data' = data \union {c}
  /\ edge' = edge \union {c}
  /\ UNCHANGED <<queueVars, timerVars, ready, parkedIo, workerVars, threadVars, parkVars>>
\* Mutant: the thread stays in the table when it becomes runnable.
DeliverKeeping(c) ==
  /\ c \in edge
  /\ edge' = edge \ {c}
  /\ IF parkedIo[c] # NoVThread
       THEN priority' = Append(priority, parkedIo[c]) /\ UNCHANGED ready
       ELSE ready' = ready \union {c} /\ UNCHANGED priority
  /\ UNCHANGED <<global, local, timerVars, parkedIo, data, workerVars, threadVars, parkVars>>

\* Mutant: an event empties the table and is kept for the next wait.
DeliverDropping(c) ==
  /\ c \in edge
  /\ edge' = edge \ {c}
  /\ parkedIo' = [parkedIo EXCEPT ![c] = NoVThread]
  /\ ready' = ready \union {c}
  /\ UNCHANGED <<queueVars, timerVars, data, workerVars, threadVars, parkVars>>

Deliver(c) ==
  /\ c \in edge
  /\ edge' = edge \ {c}
  /\ IF parkedIo[c] # NoVThread
       THEN /\ priority' = Append(priority, parkedIo[c])
            /\ parkedIo' = [parkedIo EXCEPT ![c] = NoVThread]
            /\ UNCHANGED ready
       ELSE /\ ready' = ready \union {c}
            /\ UNCHANGED <<priority, parkedIo>>
  /\ UNCHANGED <<global, local, timerVars, data, workerVars, threadVars, parkVars>>
\* Mutant: every timer is drained when one is due.
DrainAllTimers ==
  /\ timerCount # 0 /\ now >= minDeadline
  /\ timers' = {}
  /\ expired' = expired \union timers
  /\ timerCount' = 0 /\ minDeadline' = Never
  /\ until' = [v \in VThreads |-> 0]
  /\ UNCHANGED <<queueVars, now, ioVars, workerVars, threadVars, parkVars>>

\* drain_expired_timers, by the netpoller or a worker: the clock is read before
\* the lock is taken.
DrainTimers ==
  /\ timerCount # 0
  /\ \E time \in 0 .. now :
       LET due == {v \in timers : until[v] <= time} IN
       /\ minDeadline <= time
       /\ timers' = timers \ due
       /\ expired' = expired \union due
       /\ timerCount' = timerCount - Cardinality(due)
       /\ minDeadline' = Earliest(timers')
       /\ until' = [v \in VThreads |-> IF v \in due THEN 0 ELSE until[v]]
  /\ UNCHANGED <<queueVars, now, ioVars, workerVars, threadVars, parkVars>>

PushExpired(v) ==
  /\ v \in expired
  /\ expired' = expired \ {v}
  /\ global' = Append(global, v)
  /\ UNCHANGED <<priority, local, timers, until, timerCount, minDeadline, now, ioVars,
                 workerVars, threadVars, parkVars>>

Clock ==
  /\ now < MaxNow
  /\ now' = now + 1
  /\ UNCHANGED <<queueVars, timers, until, timerCount, minDeadline, expired, ioVars,
                 workerVars, threadVars, parkVars>>

-----------------------------------------------------------------------------
Program(w) ==
  \/ Yield(w) \/ Sleep(w) \/ Park(w) \/ Finish(w)
  \/ StartIo(w) \/ TryIo(w) \/ WaitIo(w)
  \/ StartJoin(w) \/ Join(w)

Route(w) ==
  \/ Save(w) \/ RouteYield(w) \/ RouteSleep(w) \/ RouteIo(w) \/ RoutePark(w)
  \/ Drop(w) \/ EndThread(w)

Next ==
  \/ \E w \in Workers : Pick(w) \/ Resume(w) \/ Program(w) \/ Route(w)
  \/ \E v \in VThreads : Spawn(v) \/ PushExpired(v)
  \/ \E v \in Parkers : UnparkThread(v)
  \/ \E c \in Channels : Arrive(c) \/ Deliver(c)
  \/ DrainTimers \/ Clock

Spec == Init /\ [][Next]_vars

(***************************************************************************)
(* Fairness.  Workers and the netpoller are OS threads and keep running,   *)
(* and time passes.  A running task does not keep its worker for ever:     *)
(* compiled code polls in functions and loops, and the poll yields when    *)
(* the task has run for 10 ms (vt_preempt_tick).  Nothing makes a program  *)
(* end a thread, unpark one or receive data.                               *)
(***************************************************************************)
Suspends(w) == Program(w) /\ pc'[w] = "switched"

Fairness ==
  /\ \A w \in Workers :
       /\ WF_vars(Pick(w)) /\ WF_vars(Resume(w)) /\ WF_vars(Route(w))
       /\ WF_vars(Program(w)) /\ SF_vars(Suspends(w))
  /\ \A v \in VThreads : WF_vars(PushExpired(v))
  /\ \A c \in Channels : WF_vars(Deliver(c))
  /\ WF_vars(DrainTimers) /\ WF_vars(Clock)

FairSpec == Spec /\ Fairness

-----------------------------------------------------------------------------
(* Properties *)

\* Every variable stays within the values its Rust type can take.
TypeOK ==
  /\ global \in Seq(VThreads) /\ priority \in Seq(VThreads)
  /\ local \in [Workers -> Seq(VThreads)]
  /\ timers \subseteq VThreads /\ expired \subseteq VThreads
  /\ until \in [VThreads -> 0 .. MaxNow]
  /\ timerCount \in Nat /\ minDeadline \in 0 .. Never /\ now \in 0 .. MaxNow
  /\ ready \subseteq Channels /\ data \subseteq Channels /\ edge \subseteq Channels
  /\ parkedIo \in [Channels -> VThreads \union {NoVThread}]
  /\ pc \in [Workers -> {"seek", "seekGlobal", "seekOthers", "picked", "running",
                         "switched", "route", "dropped"}]
  /\ run \in [Workers -> VThreads \union {NoVThread}]
  /\ tick \in [Workers -> 0 .. Period - 1]
  /\ vpc \in [VThreads -> {"new", "spawned", "program", "ioTry", "ioWait", "join", "ended"}]
  /\ chan \in [VThreads -> Channels \union {NoChannel}]
  /\ target \in [VThreads -> VThreads \union {NoVThread}]
  /\ reason \in [VThreads -> {"yield", "sleep", "park", "io", "done"}]
  /\ gcState \in [VThreads -> BOOLEAN]
  /\ live \subseteq VThreads /\ parked \subseteq VThreads /\ unparked \subseteq VThreads

Positions(v, s) == {i \in DOMAIN s : s[i] = v}

\* The containers that own v, and where in them it is.
Places(v) ==
  {<<"global", i>> : i \in Positions(v, global)}
  \union {<<"priority", i>> : i \in Positions(v, priority)}
  \union (UNION {{<<"local", w, i>> : i \in Positions(v, local[w])} : w \in Workers})
  \union {<<"run", w>> : w \in {u \in Workers : run[u] = v}}
  \union {<<"io", c>> : c \in {d \in Channels : parkedIo[d] = v}}
  \union {<<"timers", u>> : u \in timers \intersect {v}}
  \union {<<"expired", u>> : u \in expired \intersect {v}}
  \union {<<"parked", u>> : u \in parked \intersect {v}}

\* A thread that has not ended is in exactly one place: no wake-up (an unpark, an
\* event, a deadline) that races the worker that puts the thread to rest makes it
\* runnable twice, or leaves it nowhere (vthread.rs:1402-1440).
OnePlace ==
  \A v \in VThreads :
    IF v \in live THEN \E p \in Places(v) : Places(v) = {p} ELSE Places(v) = {}

OnWorker(v, at) == \E w \in Workers : run[w] = v /\ pc[w] \in at

\* The collector finds the roots of a thread that has begun in exactly one place:
\* the context of the worker that runs it, or gc_state from before another worker
\* can take the thread until it does (vthread.rs:1363-1373, 1403-1406).
RootsInOnePlace ==
  \A v \in live :
    vpc[v] # "spawned" =>
      (gcState[v] <=> ~ OnWorker(v, {"running", "switched", "dropped"}))

\* No readiness is lost between a call that would block, the event and the worker
\* that parks the thread: a thread is parked on a channel that has data only if the
\* event is still to be delivered (vthread.rs:1068-1084, 1215-1220, 1411-1430).
NoLostReadiness ==
  \A c \in Channels : parkedIo[c] # NoVThread /\ c \in data => c \in edge

\* A thread that sleeps leaves the timers only when its time has passed, whichever
\* deadline made the drain begin (vthread.rs:971-985, 1537).
SleepsLongEnough ==
  [][\A v \in timers : v \notin timers' => now >= until[v]]_vars

\* "Parks virtual thread until client connects"
\* (docs/STANDARD_LIBRARY_REFERENCE.md:703): a thread parked on a channel leaves it
\* for a run queue.
ParkedUntilReady ==
  [][\A c \in Channels :
       parkedIo[c] # NoVThread /\ parkedIo'[c] # parkedIo[c] =>
         Contains(priority', parkedIo[c])]_vars

\* A thread in the global queue or a local one gets a worker, however many threads
\* yield and wake meanwhile (vthread.rs:1276-1350).
QueuedRuns ==
  \A v \in VThreads :
    (Contains(global, v) \/ \E w \in Workers : Contains(local[w], v))
      ~> OnWorker(v, {"running"})



\* A join returns once the joined thread has ended (vthread.rs:1557-1580).
JoinReturns ==
  \A v, u \in VThreads :
    (target[v] = u /\ vpc[u] = "ended") ~> target[v] # u

=============================================================================
