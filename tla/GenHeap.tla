------------------------------- MODULE GenHeap -------------------------------
(***************************************************************************)
(* The generational heap (runtime/gc.rs): Eden, survivors, old space and   *)
(* large objects; the write barrier with its remembered sets and mark      *)
(* queues; the minor collection; and the major collection, whose trace and *)
(* sweep run beside the program.  Two threads share the heap with a third  *)
(* that runs finalizers.  Safepoint says how the world is stopped: here a  *)
(* stopped world is one action, which needs every thread at a poll.        *)
(*                                                                         *)
(* An object has one reference slot and is named by identity: an address   *)
(* is not modelled, but a slot the collector does not visit when it moves  *)
(* or frees what the slot refers to becomes Lost.  The mark queues are one *)
(* set and the threads' remembered sets another: their order is immaterial.*)
(* Static roots, global handles and virtual threads' roots are visited at  *)
(* the points where the threads' roots are, and are in Root.               *)
(***************************************************************************)
EXTENDS Naturals, FiniteSets, FiniteSetsExt

CONSTANTS
  Object, Root,
  Finalizable,   \* objects whose type has a finalizer
  Leaf,          \* objects whose type has no reference field
  GrowFrom,      \* generations an array may be in when it outgrows its storage
  Nil, Lost,     \* no object; memory the collector has reclaimed
  EdenSize,      \* objects Eden holds
  SurvivorSize,  \* objects a survivor space holds
  LosLimit,      \* large objects that make the next allocation collect
  OldThreshold,  \* OLD_GEN_GC_THRESHOLD, in objects
  MaxMajors      \* bound: major collections

Young == {"eden", "survivor"}
Tenured == {"old", "los"}

ASSUME HeapAssumption ==
  /\ IsFiniteSet(Object)
  /\ Finalizable \subseteq Object /\ Leaf \subseteq Object
  /\ GrowFrom \subseteq Young \cup Tenured
  /\ Nil \notin Object \cup [object : Object, value : Object]
  /\ Lost \notin Object \cup {Nil}
  /\ {EdenSize, SurvivorSize, LosLimit, OldThreshold, MaxMajors} \subseteq Nat

VARIABLES
  heap,     \* the objects: ObjectHeader and the slot
  root,     \* ThreadContext.roots
  remset,   \* ThreadContext.remset
  queue,    \* FINALIZER_QUEUE
  phase,    \* GC_PHASE
  gray,     \* GLOBAL_MARK_QUEUE, ThreadContext.mark_queue
  pc,       \* where the collector is; not "idle": it has GC_LOCK
  store,    \* a store whose write barrier has yet to run
  running,  \* the object the finalizer thread has taken
  majors    \* history: major collections started, at most MaxMajors

vars == <<heap, root, remset, queue, phase, gray, pc, store, running, majors>>

Blank == [gen |-> "free", slot |-> Nil, age |-> 0, marked |-> FALSE,
          dirty |-> FALSE, finalized |-> FALSE, forward |-> Nil]

Init ==
  /\ heap = [o \in Object |-> Blank]
  /\ root = [r \in Root |-> Nil]
  /\ remset = {} /\ queue = {}
  /\ phase = "idle" /\ gray = {} /\ pc = "idle"
  /\ store = Nil /\ running = Nil
  /\ majors = 0

In(h, gens) == {o \in Object : h[o].gen \in gens}

\* The array that stands for v: arrays leave a forwarding pointer as they grow.
Resolve(h, v) ==
  LET Hop[w \in Object \cup {Nil, Lost}] ==
        IF w \in Object /\ h[w].forward # Nil THEN Hop[h[w].forward] ELSE w
  IN Hop[v]

Slot(h, o) == Resolve(h, h[o].slot)

\* The objects a trace from s visits, when it enters only those in domain.
Trace(h, s, domain) ==
  LET R[n \in Nat] ==
        IF n = 0 THEN s \cap domain
        ELSE LET found == R[n - 1]
             IN found \cup ({Slot(h, o) : o \in found} \cap domain)
  IN R[Cardinality(Object)]

Roots(h) == {Resolve(h, root[r]) : r \in Root}

\* What the program can reach.
Live == Trace(heap, Roots(heap), Object)

---------------------------------------------------------------------------
(* A collection maps the part of the state it may change. *)

Memory == [heap |-> heap, root |-> root, remset |-> remset, queue |-> queue]

Become(m) ==
  /\ heap' = m.heap /\ root' = m.root
  /\ remset' = m.remset /\ queue' = m.queue

\* The young objects a minor collection of m copies: what the roots, the queued
\* finalizations, the remembered objects and every large object lead to.
Scanned(m) == m.remset \cup In(m.heap, {"los"})

Copied(m) ==
  Trace(m.heap, {Resolve(m.heap, m.root[r]) : r \in Root} \cup m.queue
                  \cup {Slot(m.heap, o) : o \in Scanned(m)}, In(m.heap, Young))

\* Where a copied object goes; stay are those that fit in the survivor space.
Destination(h, o, stay) ==
  IF h[o].age + 1 >= 2 \/ o \notin stay THEN "old" ELSE "survivor"

\* A collection reclaims what is not in kept: a slot it leaves alone is Lost if
\* it refers there.
Left(v, gone) == IF v \in gone THEN Lost ELSE v

Minor(m, stay) ==
  LET h == m.heap
      copied == Copied(m)
      promoted == {o \in copied : Destination(h, o, stay) = "old"}
      tracked == m.remset \cup promoted
      Dirty(o) == Slot(h, o) \in copied \ promoted
      After(o) ==
        IF o \in copied
        THEN [h[o] EXCEPT !.gen = Destination(h, o, stay), !.slot = Slot(h, o),
                          !.age = IF o \in promoted THEN 0 ELSE @ + 1,
                          !.dirty = o \in promoted /\ Dirty(o)]
        ELSE IF h[o].gen \in Young THEN Blank
        ELSE [h[o] EXCEPT !.slot = IF o \in Scanned(m) THEN Slot(h, o)
                                   ELSE Left(@, In(h, Young)),
                          !.forward = Left(@, In(h, Young)),
                          !.dirty = IF o \in m.remset THEN Dirty(o) ELSE @]
  IN [m EXCEPT !.heap = [o \in Object |-> After(o)],
               !.root = [r \in Root |-> Resolve(h, @[r])],
               !.remset = {o \in tracked : Dirty(o)}]

\* Which objects fill the survivor space depends on the order of the copies.
Minors(m) ==
  LET fresh == {o \in Copied(m) : m.heap[o].age = 0}
  IN {Minor(m, stay) : stay \in kSubset(Min({SurvivorSize, Cardinality(fresh)}), fresh)}

\* Mark what a trace from s finds unmarked, and rewrite its slots to the arrays
\* that have taken over.  It does not enter an object that is marked already.
Mark(h, s) ==
  LET found == Trace(h, s, {o \in Object : ~h[o].marked})
  IN [o \in Object |->
        IF o \in found THEN [h[o] EXCEPT !.marked = TRUE, !.slot = Slot(h, o)]
        ELSE h[o]]

MarkRoots(m, more) ==
  LET resolved == [r \in Root |-> Resolve(m.heap, m.root[r])]
  IN [m EXCEPT !.heap = Mark(@, {resolved[r] : r \in Root} \cup more),
               !.root = resolved]

\* Drop the remembered objects that are about to be swept.
FilterRemset(m) ==
  LET h == m.heap
      dropped == {o \in m.remset : ~h[o].marked}
  IN [m EXCEPT !.remset = @ \ dropped,
               !.heap = [o \in Object |->
                           [h[o] EXCEPT !.dirty = h[o].dirty /\ o \notin dropped]]]

\* Mutant: the resurrected are not marked.
ResurrectUntraced(m) ==
  LET found == {o \in In(m.heap, Tenured) \cap Finalizable :
                  ~m.heap[o].marked /\ ~m.heap[o].finalized}
  IN [m EXCEPT !.queue = @ \cup found,
               !.heap = [o \in Object |-> [@[o] EXCEPT !.finalized = @ \/ o \in found]]]

\* Queue the finalizers of the dead, which live until they have run.
Resurrect(m) ==
  LET found == {o \in In(m.heap, Tenured) \cap Finalizable :
                  ~m.heap[o].marked /\ ~m.heap[o].finalized}
      flagged == [o \in Object |-> [m.heap[o] EXCEPT !.finalized = @ \/ o \in found]]
  IN [m EXCEPT !.queue = @ \cup found, !.heap = Mark(flagged, found)]

ClearSurvivors(m) ==
  LET h == m.heap
  IN [m EXCEPT !.heap = [o \in Object |->
        [h[o] EXCEPT !.marked = h[o].marked /\ h[o].gen # "survivor"]]]

\* Mutant: the roots are not looked at again.
RemarkQueuesOnly(m, grays) ==
  ClearSurvivors(Resurrect(FilterRemset([m EXCEPT !.heap = Mark(@, grays)])))

\* What the program is stopped for at the end of the trace.
Remark(m, grays) == ClearSurvivors(Resurrect(FilterRemset(MarkRoots(m, grays))))

Sweep(m) ==
  LET dead == {o \in In(m.heap, Tenured) : ~m.heap[o].marked}
      After(o) ==
        IF o \in dead THEN Blank
        ELSE [m.heap[o] EXCEPT !.slot = Left(@, dead), !.forward = Left(@, dead),
                               !.marked = @ /\ m.heap[o].gen \notin Tenured]
  IN [m EXCEPT !.heap = [o \in Object |-> After(o)],
               !.root = [r \in Root |-> Left(@[r], dead)]]

---------------------------------------------------------------------------
(* The program: one operation of compiled code and the runtime's part in it. *)

\* The object an operation on root r works on.
Target(r) == Resolve(heap, root[r])

Free == {o \in Object : heap[o].gen = "free"}

EdenHasRoom == Cardinality(In(heap, {"eden"})) < EdenSize

Allocate(r, gen) ==
  \E o \in Free :
    /\ heap' = [heap EXCEPT ![o] = [Blank EXCEPT !.gen = gen]]
    /\ root' = [root EXCEPT ![r] = o]
    /\ UNCHANGED <<remset, queue, phase, gray, pc, store, running, majors>>

\* From the thread's buffer in Eden.
Alloc(r) == store = Nil /\ EdenHasRoom /\ Allocate(r, "eden")

\* A large object needs GC_LOCK, and collects first when there are too many.
AllocLarge(r) ==
  /\ store = Nil /\ pc = "idle"
  /\ Cardinality(In(heap, {"los"})) < LosLimit
  /\ Allocate(r, "los")

Drop(r) ==
  /\ store = Nil /\ root[r] # Nil
  /\ root' = [root EXCEPT ![r] = Nil]
  /\ UNCHANGED <<heap, remset, queue, phase, gray, pc, store, running, majors>>

Load(r, q) ==
  /\ store = Nil /\ Target(q) \in Object
  /\ root' = [root EXCEPT ![r] = heap[Target(q)].slot]
  /\ UNCHANGED <<heap, remset, queue, phase, gray, pc, store, running, majors>>

\* The slot is written before the barrier runs; the barrier ends at once when the
\* value is no reference.
Store(r, q) ==
  LET o == Target(r)
  IN /\ store = Nil /\ o \in Object \ Leaf
     /\ heap' = [heap EXCEPT ![o].slot = root[q]]
     /\ store' = IF root[q] \in Object THEN [object |-> o, value |-> root[q]] ELSE Nil
     /\ UNCHANGED <<root, remset, queue, phase, gray, pc, running, majors>>

\* Mutant: no incremental update.
BarrierForgets ==
  /\ store # Nil
  /\ UNCHANGED gray
  /\ LET remember == /\ heap[store.object].gen \in Tenured
                     /\ heap[store.value].gen \in Young
                     /\ ~heap[store.object].dirty
     IN /\ heap' = [heap EXCEPT ![store.object].dirty = @ \/ remember]
        /\ remset' = IF remember THEN remset \cup {store.object} ELSE remset
  /\ store' = Nil
  /\ UNCHANGED <<root, queue, phase, pc, running, majors>>

\* Mutant: during a trace the barrier only queues.
BarrierEither ==
  /\ store # Nil
  /\ IF phase = "mark" THEN gray' = gray \cup {store.value} /\ UNCHANGED <<heap, remset>>
     ELSE /\ remset' = IF heap[store.value].gen \in Young
                      THEN remset \cup ({store.object} \cap In(heap, Tenured)) ELSE remset
          /\ heap' = [o \in Object |-> [heap[o] EXCEPT !.dirty = o \in remset']]
          /\ UNCHANGED gray
  /\ store' = Nil
  /\ UNCHANGED <<root, queue, phase, pc, running, majors>>

Barrier ==
  /\ store # Nil
  /\ gray' = IF phase = "mark" THEN gray \cup {store.value} ELSE gray
  /\ LET remember == /\ heap[store.object].gen \in Tenured
                     /\ heap[store.value].gen \in Young
                     /\ ~heap[store.object].dirty
     IN /\ heap' = [heap EXCEPT ![store.object].dirty = @ \/ remember]
        /\ remset' = IF remember THEN remset \cup {store.object} ELSE remset
  /\ store' = Nil
  /\ UNCHANGED <<root, queue, phase, pc, running, majors>>

\* Mutant: the old array does not point to the new one.
GrowInSilence(r) ==
  LET a == Target(r)
  IN /\ store = Nil /\ EdenHasRoom
     /\ a \in In(heap, GrowFrom) \ (Leaf \cup Finalizable)
     /\ \E b \in Free :
          /\ heap' = [heap EXCEPT ![b] = [Blank EXCEPT !.gen = "eden", !.slot = heap[a].slot]]
          /\ root' = [root EXCEPT ![r] = b]
     /\ UNCHANGED <<remset, queue, phase, gray, pc, store, running, majors>>

\* A push beyond the capacity copies the elements to an array in Eden and leaves
\* its address in the old header, over the mark and the age.
Grow(r) ==
  LET a == Target(r)
  IN /\ store = Nil /\ EdenHasRoom
     /\ a \in In(heap, GrowFrom) \ (Leaf \cup Finalizable)
     /\ \E b \in Free :
          /\ heap' = [heap EXCEPT
               ![b] = [Blank EXCEPT !.gen = "eden", !.slot = heap[a].slot],
               ![a].forward = b, ![a].marked = FALSE, ![a].age = 0]
          /\ root' = [root EXCEPT ![r] = b]
     /\ UNCHANGED <<remset, queue, phase, gray, pc, store, running, majors>>

---------------------------------------------------------------------------
(* The collector. *)

\* Every thread is at a poll, and GC_LOCK is free.
MayCollect == pc = "idle" /\ store = Nil

\* Eden is full: a minor collection, and a major one in the same pause when the
\* old space has grown past its threshold.
AllocSlow ==
  /\ MayCollect /\ ~EdenHasRoom
  /\ \E m \in Minors(Memory) :
       IF Cardinality(In(m.heap, {"old"})) > OldThreshold
       THEN /\ majors < MaxMajors /\ majors' = majors + 1
            /\ Become(Sweep(Remark(MarkRoots(m, m.queue), {})))
            /\ running' = Left(running, {o \in Object : heap'[o].gen = "free"})
       ELSE Become(m) /\ UNCHANGED <<majors, running>>
  /\ UNCHANGED <<phase, gray, pc, store>>

\* gc.collectYoung().
MinorGc ==
  /\ MayCollect
  /\ \E m \in Minors(Memory) : Become(m)
  /\ UNCHANGED <<phase, gray, pc, store, running, majors>>

\* gc.collect(), or too many large objects: a minor collection, and the roots are
\* queued for the trace.
StartMajor ==
  /\ MayCollect /\ majors < MaxMajors
  /\ majors' = majors + 1
  /\ \E m \in Minors(Memory) :
       /\ Become(m)
       /\ gray' = ({m.root[r] : r \in Root} \cup m.queue) \cap Object
  /\ phase' = "mark" /\ pc' = "trace"
  /\ UNCHANGED <<store, running>>

TraceOne ==
  /\ pc = "trace"
  /\ \E v \in gray :
       IF heap[v].marked THEN gray' = gray \ {v} /\ UNCHANGED heap
       ELSE /\ heap' = [heap EXCEPT ![v].marked = TRUE, ![v].slot = Slot(heap, v)]
            /\ gray' = (gray \ {v}) \cup ({Slot(heap, v)} \cap Object)
  /\ UNCHANGED <<root, remset, queue, phase, pc, store, running, majors>>

EndTrace ==
  /\ pc = "trace" /\ gray = {} /\ store = Nil
  /\ Become(Remark(Memory, {}))
  /\ phase' = "idle" /\ pc' = "sweep"
  /\ UNCHANGED <<gray, store, running, majors>>

EndMajor ==
  /\ pc = "sweep"
  /\ Become(Sweep(Memory))
  /\ running' = Left(running, {o \in Object : heap'[o].gen = "free"})
  /\ pc' = "idle"
  /\ UNCHANGED <<phase, gray, store, majors>>

---------------------------------------------------------------------------
(* The finalizer thread.  It may stop for a collection with the object it has *)
(* taken, which is then neither queued nor a root; it does not stop while the *)
(* finalizer runs.                                                            *)

TakeFinalizer ==
  /\ running = Nil
  /\ \E o \in queue : running' = o /\ queue' = queue \ {o}
  /\ UNCHANGED <<heap, root, remset, phase, gray, pc, store, majors>>

RunFinalizer ==
  /\ running # Nil
  /\ running' = Nil
  /\ UNCHANGED <<heap, root, remset, queue, phase, gray, pc, store, majors>>

Program ==
  \/ \E r \in Root : Alloc(r) \/ AllocLarge(r) \/ Drop(r) \/ Grow(r)
  \/ \E r, q \in Root : Load(r, q) \/ Store(r, q)
  \/ Barrier

Collector == AllocSlow \/ MinorGc \/ StartMajor \/ TraceOne \/ EndTrace \/ EndMajor

Next == Program \/ Collector \/ TakeFinalizer \/ RunFinalizer

Spec == Init /\ [][Next]_vars

---------------------------------------------------------------------------
(* Properties. *)

Value == Object \cup {Nil, Lost}

TypeOK ==
  /\ heap \in [Object -> [gen : {"free"} \cup Young \cup Tenured, slot : Value,
                          age : 0..1, marked : BOOLEAN, dirty : BOOLEAN,
                          finalized : BOOLEAN, forward : Value]]
  /\ root \in [Root -> Value]
  /\ remset \subseteq Object /\ queue \subseteq Object /\ gray \subseteq Object
  /\ phase \in {"idle", "mark"} /\ pc \in {"idle", "trace", "sweep"}
  /\ store \in [object : Object, value : Object] \cup {Nil}
  /\ running \in Value /\ majors \in 0..MaxMajors

\* No variable, and no object the program can reach, refers to memory that a
\* collection has reused: every copy, promotion and sweep keeps what is in use
\* and updates every reference to what it moves.
NoDangling ==
  /\ \A r \in Root : Resolve(heap, root[r]) # Lost
  /\ \A o \in Live : Slot(heap, o) # Lost

\* The remembered sets are complete: an object the program can reach in the old
\* space is remembered while it refers to a young one, and the flag that keeps
\* the barrier from adding it twice is set for the remembered objects only.
OldToYoungRemembered ==
  /\ \A o \in Live : /\ heap[o].gen = "old" /\ heap[o].slot \in In(heap, Young)
                     /\ (store # Nil => store.object # o)
                     => o \in remset
  /\ \A o \in Object : heap[o].dirty <=> o \in remset

\* When the sweep starts, the trace has found every tenured object that the
\* program can reach, whatever it stored meanwhile.
SweepSparesLive == pc = "sweep" => \A o \in Live \cap In(heap, Tenured) : heap[o].marked

\* An object is queued for its finalizer only when the program cannot reach it,
\* and at most once; a tenured one is not freed before.
FinalizesGarbage ==
  [][/\ \A o \in queue' \ queue :
          o \notin Live /\ ~heap[o].finalized /\ heap'[o].finalized
     /\ \A o \in In(heap, Tenured) \cap Finalizable :
          heap'[o].gen = "free" => heap[o].finalized /\ o \notin queue]_vars

\* To the program a collection changes nothing it can reach.
Visible ==
  LET live == Live
  IN [var |-> [r \in Root |-> Resolve(heap, root[r])],
      ref |-> [o \in Object |-> IF o \in live THEN Slot(heap, o) ELSE Nil]]

AH == INSTANCE AbstractHeap WITH view <- Visible
HeapRefines == AH!AbsSpec

=============================================================================
