---------------------------- MODULE Timers_proofs ----------------------------
(***************************************************************************)
(* Proofs about Timers for any number of timers, any delays and any clock. *)
(*                                                                         *)
(* TimersAccounted is not inductive.  TimersInv says the same of the       *)
(* elements of each container instead of their number, for timers that     *)
(* were cleared too, and adds what a callback's virtual thread has read.   *)
(***************************************************************************)
EXTENDS Timers, SequenceTheorems, FiniteSetTheorems, TLAPS

Messages ==
  [is : {"add"}, id : Nat, expires : Nat, interval : Nat, handle : Nat]
  \cup [is : {"cancel"}, id : Nat]

\* The timers whose message is on its way.
Adds == {channel[k] : k \in {j \in DOMAIN channel : channel[j].is = "add"}}

\* A timer is added once, and cancelled when the program has cleared it.
ChannelInv ==
  /\ channel \in Seq(Messages)
  /\ \A j, k \in DOMAIN channel :
       channel[j].is = "add" /\ channel[k].is = "add" /\ channel[j].id = channel[k].id => j = k
  /\ \A k \in DOMAIN channel : channel[k].is = "cancel" => channel[k].id \in cleared

TypeInv ==
  /\ clock \in Nat /\ looks \in Nat /\ created \in Nat
  /\ heap \subseteq [expires : Nat, id : 1..created]
  /\ DOMAIN active \subseteq 1..created
  /\ \A id \in DOMAIN active : active[id] \in [handle : Nat, interval : Nat]
  /\ runs \subseteq [timer : 1..created, due : Nat, handle : DOMAIN slots, interval : BOOLEAN,
                     at : {"get", "drop", "call"}, callback : Nat]
  /\ called \subseteq [timer : 1..created, callback : Nat, interval : BOOLEAN]
  /\ \A m \in Adds : m.id \in 1..created

\* A timer has one message, one entry on the heap, one virtual thread or one call, and
\* only an active timer is fired.
PlaceInv ==
  /\ \A m \in Adds :
       /\ m.id \notin DOMAIN active
       /\ \A e \in heap : e.id # m.id
       /\ \A r \in runs : ~r.interval => r.timer # m.id
       /\ \A c \in called : ~c.interval => c.timer # m.id
  /\ \A e, f \in heap : e.id = f.id => e = f
  /\ \A id \in DOMAIN active : \E e \in heap : e.id = id
  /\ \A r \in runs : ~r.interval =>
       /\ \A e \in heap : e.id # r.timer
       /\ \A q \in runs : ~q.interval /\ q.timer = r.timer => q = r
       /\ \A c \in called : ~c.interval => c.timer # r.timer
  /\ \A c \in called : ~c.interval =>
       /\ \A e \in heap : e.id # c.timer
       /\ \A d \in called : ~d.interval /\ d.timer = c.timer => d = c

\* A timer that was not cleared is somewhere.
SomewhereInv ==
  \A id \in 1..created \ cleared :
    \/ \E m \in Adds : m.id = id
    \/ id \in DOMAIN active
    \/ \E r \in runs : ~r.interval /\ r.timer = id
    \/ \E c \in called : ~c.interval /\ c.timer = id

ActiveInv == \A e \in heap : e.id \in cleared \/ e.id \in DOMAIN active

\* The handle of a timer that owns one holds its callback, and a handle in use is owned.
Holds(h, id) == h \in DOMAIN slots /\ slots[h] = id

Owns(r) == ~r.interval /\ r.at # "call"

Owned(h) ==
  \/ \E m \in Adds : m.handle = h /\ m.id = slots[h]
  \/ \E id \in DOMAIN active : active[id].handle = h /\ id = slots[h]
  \/ \E r \in runs : Owns(r) /\ r.handle = h /\ r.timer = slots[h]

OwnersInv ==
  /\ \A m \in Adds : Holds(m.handle, m.id)
  /\ \A id \in DOMAIN active : Holds(active[id].handle, id)
  /\ \A r \in runs : Owns(r) => Holds(r.handle, r.timer)
  /\ \A h \in DOMAIN slots : slots[h] # NoCall => Owned(h)

\* The other handles are free, each once.
FreeInv ==
  /\ slots \in Seq(Nat) /\ free \in Seq(Nat)
  /\ \A k \in DOMAIN free : Holds(free[k], NoCall)
  /\ \A h \in DOMAIN slots : slots[h] = NoCall => \E k \in DOMAIN free : free[k] = h
  /\ \A j, k \in DOMAIN free : free[j] = free[k] => j = k

\* What a callback's virtual thread finds in the handle, and what it has called.
CallInv ==
  /\ \A r \in runs :
       /\ r.at = "drop" => ~r.interval
       /\ r.interval /\ r.timer \notin cleared =>
            /\ r.timer \in DOMAIN active
            /\ active[r.timer].handle = r.handle /\ active[r.timer].interval > 0
       /\ r.at # "get" => r.callback = r.timer \/ (r.interval /\ r.timer \in cleared)
  /\ \A c \in called : c.callback = c.timer \/ (c.interval /\ c.timer \in cleared)

TimersInv ==
  /\ ChannelInv /\ TypeInv /\ PlaceInv /\ SomewhereInv /\ ActiveInv
  /\ OwnersInv /\ FreeInv /\ CallInv

-----------------------------------------------------------------------------
(* The channel *)

LEMMA ChannelSent ==
  ASSUME ChannelInv, NEW m \in Messages, channel' = Append(channel, m), cleared \subseteq cleared',
         m.is = "add" => \A n \in Adds : n.id # m.id,
         m.is = "cancel" => m.id \in cleared'
  PROVE  /\ ChannelInv'
         /\ Adds' = IF m.is = "add" THEN Adds \cup {m} ELSE Adds
<1>1. /\ channel' \in Seq(Messages)
      /\ DOMAIN channel = 1..Len(channel) /\ DOMAIN channel' = 1..(Len(channel) + 1)
      /\ \A k \in DOMAIN channel : channel'[k] = channel[k]
      /\ channel'[Len(channel) + 1] = m /\ Len(channel) \in Nat
  BY DEF ChannelInv
<1>2. \A k \in DOMAIN channel' : k \in DOMAIN channel \/ k = Len(channel) + 1
  BY <1>1
<1>3. \A k \in DOMAIN channel : k \in DOMAIN channel' /\ k # Len(channel) + 1
  BY <1>1
<1>4. \A k \in DOMAIN channel : channel[k].is = "add" => channel[k] \in Adds
  BY DEF Adds
<1>5. ChannelInv'
  <2>1. ASSUME NEW j \in DOMAIN channel', NEW k \in DOMAIN channel',
               channel'[j].is = "add", channel'[k].is = "add", channel'[j].id = channel'[k].id
        PROVE  j = k
    BY <1>1, <1>2, <1>4, <2>1 DEF ChannelInv
  <2>2. \A k \in DOMAIN channel' : channel'[k].is = "cancel" => channel'[k].id \in cleared'
    BY <1>1, <1>2 DEF ChannelInv
  <2> QED
    BY <1>1, <2>1, <2>2 DEF ChannelInv
<1>6. Len(channel) + 1 \in DOMAIN channel'
  BY <1>1
<1>7. ASSUME NEW x PROVE x \in Adds' <=> x \in Adds \/ (m.is = "add" /\ x = m)
  BY <1>1, <1>2, <1>3, <1>6 DEF Adds
<1>8. Adds' = IF m.is = "add" THEN Adds \cup {m} ELSE Adds
  <2>1. CASE m.is = "add"
    BY <1>7, <2>1
  <2>2. CASE m.is # "add"
    BY <1>7, <2>2
  <2> QED
    BY <2>1, <2>2
<1> QED
  BY <1>5, <1>8

LEMMA ChannelReceived ==
  ASSUME ChannelInv, channel # <<>>, channel' = Tail(channel), UNCHANGED cleared
  PROVE  /\ ChannelInv'
         /\ Head(channel) \in Messages
         /\ Head(channel).is = "add" => Head(channel) \in Adds
         /\ Head(channel).is = "cancel" => Head(channel).id \in cleared
         /\ Adds' = IF Head(channel).is = "add" THEN Adds \ {Head(channel)} ELSE Adds
         /\ Head(channel).is = "add" => \A m \in Adds' : m.id # Head(channel).id
<1>1. /\ channel' \in Seq(Messages)
      /\ DOMAIN channel = 1..Len(channel) /\ DOMAIN channel' = 1..(Len(channel) - 1)
      /\ \A k \in DOMAIN channel' : channel'[k] = channel[k + 1]
      /\ Len(channel) \in Nat /\ Len(channel) # 0 /\ Head(channel) = channel[1]
  BY DEF ChannelInv
<1>2. \A k \in DOMAIN channel' : k \in Nat /\ k + 1 \in DOMAIN channel /\ k + 1 # 1
  BY <1>1
<1>3. \A k \in DOMAIN channel : k = 1 \/ (k - 1 \in DOMAIN channel' /\ k = (k - 1) + 1)
  BY <1>1
<1>4. 1 \in DOMAIN channel /\ channel[1] \in Messages
  BY <1>1 DEF ChannelInv
<1>5. ChannelInv'
  <2>1. ASSUME NEW j \in DOMAIN channel', NEW k \in DOMAIN channel',
               channel'[j].is = "add", channel'[k].is = "add", channel'[j].id = channel'[k].id
        PROVE  j = k
    <3>1. j + 1 = k + 1
      BY <1>1, <1>2, <2>1 DEF ChannelInv
    <3> QED
      BY <1>2, <3>1
  <2>2. \A k \in DOMAIN channel' : channel'[k].is = "cancel" => channel'[k].id \in cleared'
    BY <1>1, <1>2 DEF ChannelInv
  <2> QED
    BY <1>1, <2>1, <2>2 DEF ChannelInv
<1>6. Head(channel).is = "add" => Head(channel) \in Adds
  BY <1>1, <1>4 DEF Adds
<1>7. Head(channel).is = "cancel" => Head(channel).id \in cleared
  BY <1>1, <1>4 DEF ChannelInv
<1>8. ASSUME NEW x \in Adds' PROVE x \in Adds /\ (Head(channel).is = "add" => x.id # Head(channel).id)
  <2>1. PICK k \in DOMAIN channel' : channel'[k].is = "add" /\ x = channel'[k]
    BY DEF Adds
  <2>2. /\ k + 1 \in DOMAIN channel /\ k + 1 # 1
        /\ channel[k + 1].is = "add" /\ x = channel[k + 1]
    BY <1>1, <1>2, <2>1
  <2> QED
    BY <1>1, <1>4, <2>2 DEF Adds, ChannelInv
<1>9. ASSUME NEW x \in Adds, Head(channel).is = "add" => x # Head(channel) PROVE x \in Adds'
  <2>1. PICK k \in DOMAIN channel : channel[k].is = "add" /\ x = channel[k]
    BY DEF Adds
  <2>2. k - 1 \in DOMAIN channel' /\ k = (k - 1) + 1
    BY <1>1, <1>3, <1>9, <2>1
  <2>3. channel'[k - 1] = x
    BY <1>1, <2>1, <2>2
  <2> QED
    BY <2>1, <2>2, <2>3 DEF Adds
<1>10. Adds' = IF Head(channel).is = "add" THEN Adds \ {Head(channel)} ELSE Adds
  BY <1>8, <1>9
<1> QED
  BY <1>1, <1>4, <1>5, <1>6, <1>7, <1>8, <1>10

-----------------------------------------------------------------------------
(* Global handles *)

LEMMA HandleCreated ==
  ASSUME FreeInv, NEW id \in Nat, id # NoCall, CreateHandle(id)
  PROVE  /\ FreeInv'
         /\ NextHandle \in Nat /\ NextHandle \in DOMAIN slots' /\ slots'[NextHandle] = id
         /\ DOMAIN slots \subseteq DOMAIN slots'
         /\ \A h \in DOMAIN slots : slots[h] # NoCall => h # NextHandle
         /\ \A h \in DOMAIN slots' : h = NextHandle \/ (h \in DOMAIN slots /\ slots'[h] = slots[h])
<1>1. /\ slots \in Seq(Nat) /\ DOMAIN slots = 1..Len(slots) /\ Len(slots) \in Nat
      /\ free \in Seq(Nat) /\ DOMAIN free = 1..Len(free) /\ Len(free) \in Nat
  BY DEF FreeInv
<1>2. CASE free = <<>>
  <2>1. NextHandle = Len(slots) + 1 /\ slots' = Append(slots, id) /\ free' = free
    BY <1>2 DEF NextHandle, CreateHandle
  <2>2. /\ slots' \in Seq(Nat) /\ DOMAIN slots' = 1..(Len(slots) + 1)
        /\ \A h \in DOMAIN slots : slots'[h] = slots[h]
        /\ slots'[Len(slots) + 1] = id
    BY <1>1, <2>1
  <2>3. \A h \in DOMAIN slots' : h = NextHandle \/ (h \in DOMAIN slots /\ slots'[h] = slots[h])
    BY <1>1, <2>1, <2>2
  <2>4. \A h \in DOMAIN slots : h \in DOMAIN slots' /\ h # NextHandle
    BY <1>1, <2>1, <2>2
  <2>5. FreeInv'
    BY <1>1, <2>1, <2>2, <2>3, <2>4 DEF FreeInv, Holds
  <2> QED
    BY <1>1, <2>1, <2>2, <2>3, <2>4, <2>5
<1>3. CASE free # <<>>
  <2>1. /\ Len(free) \in DOMAIN free /\ NextHandle = free[Len(free)]
        /\ slots' = [slots EXCEPT ![NextHandle] = id]
        /\ free' = SubSeq(free, 1, Len(free) - 1)
    BY <1>1, <1>3 DEF NextHandle, CreateHandle
  <2>2. NextHandle \in DOMAIN slots /\ slots[NextHandle] = NoCall
    BY <2>1 DEF FreeInv, Holds
  <2>3. /\ slots' \in Seq(Nat) /\ DOMAIN slots' = DOMAIN slots /\ slots'[NextHandle] = id
        /\ \A h \in DOMAIN slots : h # NextHandle => slots'[h] = slots[h]
    BY <1>1, <2>1, <2>2
  <2>4. /\ free' \in Seq(Nat) /\ DOMAIN free' = 1..(Len(free) - 1)
        /\ \A k \in DOMAIN free' : free'[k] = free[k]
    <3>1. Len(free) - 1 \in Nat
      BY <1>1, <2>1
    <3>2. \A k \in 1..(Len(free) - 1) : k \in DOMAIN free
      BY <1>1
    <3>3. /\ SubSeq(free, 1, Len(free) - 1) \in Seq(Nat)
          /\ Len(SubSeq(free, 1, Len(free) - 1)) = Len(free) - 1
          /\ \A k \in 1..(Len(free) - 1) : SubSeq(free, 1, Len(free) - 1)[k] = free[k]
      BY <1>1, <3>1, <3>2, SubSeqProperties
    <3> QED
      BY <2>1, <3>3, LenProperties
  <2>5. \A k \in DOMAIN free' : k \in DOMAIN free /\ k # Len(free)
    BY <1>1, <2>4
  <2>6. \A k \in DOMAIN free : k \in DOMAIN free' \/ k = Len(free)
    BY <1>1, <2>4
  <2>7. \A k \in DOMAIN free' : free'[k] # NextHandle
    BY <2>1, <2>4, <2>5 DEF FreeInv
  <2>8. \A k \in DOMAIN free' : Holds(free[k], NoCall)' /\ free'[k] = free[k]
    BY <2>3, <2>4, <2>5, <2>7 DEF FreeInv, Holds
  <2>9. \A h \in DOMAIN slots' : slots'[h] = NoCall => \E k \in DOMAIN free' : free'[k] = h
    <3> SUFFICES ASSUME NEW h \in DOMAIN slots', slots'[h] = NoCall
                 PROVE  \E k \in DOMAIN free' : free'[k] = h
      OBVIOUS
    <3>1. h # NextHandle /\ slots[h] = NoCall /\ h \in DOMAIN slots
      BY <2>3
    <3>2. PICK k \in DOMAIN free : free[k] = h
      BY <3>1 DEF FreeInv
    <3> QED
      BY <2>1, <2>4, <2>6, <3>1, <3>2
  <2>10. \A j, k \in DOMAIN free' : free'[j] = free'[k] => j = k
    BY <2>4, <2>5 DEF FreeInv
  <2>11. FreeInv'
    BY <2>3, <2>4, <2>8, <2>9, <2>10 DEF FreeInv, Holds
  <2> QED
    BY <1>1, <2>2, <2>3, <2>11
<1> QED
  BY <1>2, <1>3

LEMMA HandleDropped ==
  ASSUME FreeInv, NEW h \in DOMAIN slots, slots[h] # NoCall, DropHandle(h)
  PROVE  /\ FreeInv'
         /\ DOMAIN slots' = DOMAIN slots /\ slots'[h] = NoCall
         /\ \A g \in DOMAIN slots : g # h => slots'[g] = slots[g]
<1>1. /\ slots \in Seq(Nat) /\ DOMAIN slots = 1..Len(slots) /\ Len(slots) \in Nat
      /\ free \in Seq(Nat) /\ DOMAIN free = 1..Len(free) /\ Len(free) \in Nat /\ h \in Nat
  BY DEF FreeInv
<1>2. slots' = [slots EXCEPT ![h] = NoCall] /\ free' = Append(free, h)
  BY DEF DropHandle
<1>3. /\ slots' \in Seq(Nat) /\ DOMAIN slots' = DOMAIN slots /\ slots'[h] = NoCall
      /\ \A g \in DOMAIN slots : g # h => slots'[g] = slots[g]
  BY <1>1, <1>2 DEF NoCall
<1>4. /\ free' \in Seq(Nat) /\ DOMAIN free' = 1..(Len(free) + 1)
      /\ \A k \in DOMAIN free : free'[k] = free[k]
      /\ free'[Len(free) + 1] = h
  BY <1>1, <1>2
<1>5. \A k \in DOMAIN free' : k \in DOMAIN free \/ k = Len(free) + 1
  BY <1>1, <1>4
<1>6. \A k \in DOMAIN free : k \in DOMAIN free' /\ free[k] # h
  BY <1>1, <1>4 DEF FreeInv, Holds
<1>7. Len(free) + 1 \in DOMAIN free'
  BY <1>1, <1>4
<1>8. \A k \in DOMAIN free' : free'[k] \in DOMAIN slots' /\ slots'[free'[k]] = NoCall
  <2>1. \A k \in DOMAIN free : free[k] \in DOMAIN slots /\ slots[free[k]] = NoCall
    BY DEF FreeInv, Holds
  <2> QED
    BY <1>3, <1>4, <1>5, <1>6, <2>1
<1>9. \A g \in DOMAIN slots' : slots'[g] = NoCall => \E k \in DOMAIN free' : free'[k] = g
  <2> SUFFICES ASSUME NEW g \in DOMAIN slots', slots'[g] = NoCall
               PROVE  \E k \in DOMAIN free' : free'[k] = g
    OBVIOUS
  <2>1. CASE g = h
    BY <1>4, <1>7, <2>1
  <2>2. CASE g # h
    <3>1. PICK k \in DOMAIN free : free[k] = g
      BY <1>3, <2>2 DEF FreeInv
    <3> QED
      BY <1>4, <1>6, <3>1
  <2> QED
    BY <2>1, <2>2
<1>10. \A j, k \in DOMAIN free' : free'[j] = free'[k] => j = k
  <2>1. \A k \in DOMAIN free : free'[k] = free[k] /\ free[k] # h
    BY <1>4, <1>6
  <2>2. \A j, k \in DOMAIN free : free[j] = free[k] => j = k
    BY DEF FreeInv
  <2> QED
    BY ONLY <1>4, <1>5, <2>1, <2>2
<1> QED
  BY <1>3, <1>4, <1>8, <1>9, <1>10 DEF FreeInv, Holds

-----------------------------------------------------------------------------
(* The initial state, and the steps of the program *)

LEMMA InitInv == TimersInit => TimersInv
<1> SUFFICES ASSUME TimersInit PROVE TimersInv
  OBVIOUS
<1>1. Adds = {}
  BY DEF TimersInit, Adds
<1>2. ChannelInv /\ FreeInv
  BY DEF TimersInit, ChannelInv, FreeInv
<1>3. DOMAIN active = {} /\ DOMAIN slots = {}
  BY DEF TimersInit
<1> QED
  BY <1>1, <1>2, <1>3
  DEF TimersInit, TimersInv, TypeInv, PlaceInv, SomewhereInv, ActiveInv, OwnersInv, CallInv

LEMMA StartKeeps ==
  ASSUME TimersInv, NEW ms \in Nat, NEW interval \in Nat, StartTimer(ms, interval)
  PROVE  TimersInv'
<1> USE DEF TimersInv
<1> DEFINE id == created + 1
           m == [is |-> "add", id |-> id, expires |-> clock + ms, interval |-> interval,
                 handle |-> NextHandle]
<1>1. id \in Nat /\ id # NoCall /\ id \notin 1..created /\ created' = id
      /\ 1..created' = (1..created) \cup {id}
  BY DEF TypeInv, StartTimer, NoCall
<1>2. /\ FreeInv'
      /\ NextHandle \in Nat /\ NextHandle \in DOMAIN slots' /\ slots'[NextHandle] = id
      /\ DOMAIN slots \subseteq DOMAIN slots'
      /\ \A h \in DOMAIN slots : slots[h] # NoCall => h # NextHandle
      /\ \A h \in DOMAIN slots' : h = NextHandle \/ (h \in DOMAIN slots /\ slots'[h] = slots[h])
  BY <1>1, HandleCreated DEF StartTimer
<1>3. /\ channel' = Append(channel, m)
      /\ UNCHANGED <<clock, heap, active, stage, looks, runs, cleared, called>>
  BY DEF StartTimer, timerThread
<1>4. m \in Messages /\ m.is = "add" /\ m.id = id /\ m.handle = NextHandle
  BY <1>1, <1>2 DEF Messages, TypeInv
<1>5. \A n \in Adds : n.id # m.id
  BY <1>1, <1>4 DEF TypeInv
<1> HIDE DEF m, id
<1>6. ChannelInv' /\ Adds' = Adds \cup {m}
  BY <1>3, <1>4, <1>5, ChannelSent
<1>7. TypeInv'
  BY <1>1, <1>2, <1>3, <1>4, <1>6 DEF TypeInv
<1>8. PlaceInv'
  <2>1. /\ id \notin DOMAIN active
        /\ \A e \in heap : e.id # id
        /\ \A r \in runs : r.timer # id
        /\ \A c \in called : c.timer # id
    BY <1>1 DEF TypeInv
  <2> QED
    BY <1>3, <1>4, <1>6, <2>1 DEF PlaceInv
<1>9. SomewhereInv'
  BY <1>1, <1>3, <1>4, <1>6 DEF SomewhereInv
<1>10. ActiveInv'
  BY <1>3 DEF ActiveInv
<1>11. OwnersInv'
  <2>1. \A n \in Adds' : Holds(n.handle, n.id)'
    <3>1. m.handle \in DOMAIN slots' /\ slots'[m.handle] = m.id
      BY <1>2, <1>4
    <3>2. \A n \in Adds : n.id # NoCall
      BY DEF TypeInv, NoCall
    <3>3. \A n \in Adds : n.handle \in DOMAIN slots' /\ slots'[n.handle] = n.id
      BY <1>2, <3>2 DEF OwnersInv, Holds
    <3> QED
      BY <1>6, <3>1, <3>3 DEF Holds
  <2>2. \A x \in DOMAIN active' : Holds(active[x].handle, x)'
    BY <1>2, <1>3 DEF OwnersInv, Holds, TypeInv, NoCall
  <2>3. \A r \in runs' : Owns(r) => Holds(r.handle, r.timer)'
    BY <1>2, <1>3 DEF OwnersInv, Holds, TypeInv, NoCall
  <2>4. \A h \in DOMAIN slots' : slots'[h] # NoCall => Owned(h)'
    BY <1>2, <1>3, <1>4, <1>6 DEF OwnersInv, Owned
  <2> QED
    BY <1>3, <2>1, <2>2, <2>3, <2>4 DEF OwnersInv, Holds, Owns
<1>12. CallInv'
  BY <1>3 DEF CallInv
<1> QED
  BY <1>2, <1>6, <1>7, <1>8, <1>9, <1>10, <1>11, <1>12

LEMMA ClearKeeps == ASSUME TimersInv, ClearTimer PROVE TimersInv'
<1> USE DEF TimersInv
<1>1. PICK id \in 1..created :
        /\ channel' = Append(channel, [is |-> "cancel", id |-> id])
        /\ cleared' = cleared \cup {id}
        /\ UNCHANGED <<clock, created, slots, free, heap, active, stage, looks, runs, called>>
  BY DEF ClearTimer, handleVars, timerThread
<1>2. [is |-> "cancel", id |-> id] \in Messages
  BY DEF Messages, TypeInv
<1>3. ChannelInv' /\ Adds' = Adds
  BY <1>1, <1>2, ChannelSent
<1>4. TypeInv' /\ PlaceInv' /\ SomewhereInv' /\ ActiveInv'
  BY <1>1, <1>3 DEF TypeInv, PlaceInv, SomewhereInv, ActiveInv
<1>5. OwnersInv' /\ FreeInv'
  BY <1>1, <1>3 DEF OwnersInv, FreeInv, Holds, Owned, Owns
<1>6. CallInv'
  BY <1>1 DEF CallInv
<1> QED
  BY <1>3, <1>4, <1>5, <1>6

-----------------------------------------------------------------------------
(* The steps of the timer thread *)

LEMMA DropEntryKeeps == ASSUME TimersInv, DropEntry PROVE TimersInv'
<1> USE DEF TimersInv
<1>1. PICK e \in heap :
        /\ e.id \notin DOMAIN active /\ heap' = heap \ {e}
        /\ UNCHANGED <<clock, created, channel, slots, free, active, stage, looks, runs, cleared,
                       called>>
  BY DEF DropEntry, handleVars
<1>2. ChannelInv' /\ Adds' = Adds
  BY <1>1 DEF ChannelInv, Adds
<1>3. TypeInv' /\ PlaceInv' /\ SomewhereInv' /\ ActiveInv' /\ CallInv'
  BY <1>1, <1>2 DEF TypeInv, PlaceInv, SomewhereInv, ActiveInv, CallInv
<1>4. OwnersInv' /\ FreeInv'
  BY <1>1, <1>2 DEF OwnersInv, FreeInv, Holds, Owned, Owns
<1> QED
  BY <1>2, <1>3, <1>4

\* The virtual thread of a timeout takes over the handle of the timer.
LEMMA FireTimeoutKeeps ==
  ASSUME TimersInv, NEW e \in heap, e.id \in DOMAIN active, FireTimeout(e),
         runs' = runs \cup {RunOf(e)},
         UNCHANGED <<clock, created, channel, slots, free, stage, looks, cleared, called>>
  PROVE  TimersInv'
<1> USE DEF TimersInv
<1> DEFINE r == RunOf(e)
<1>1. /\ heap' = heap \ {e} /\ DOMAIN active' = DOMAIN active \ {e.id}
      /\ \A x \in DOMAIN active' : active'[x] = active[x]
  BY DEF FireTimeout, Others
<1>2. /\ active[e.id] \in [handle : Nat, interval : Nat] /\ active[e.id].interval = 0
      /\ e \in [expires : Nat, id : 1..created] /\ Holds(active[e.id].handle, e.id)
  BY DEF FireTimeout, TypeInv, OwnersInv
<1>3. /\ r.timer = e.id /\ r.handle = active[e.id].handle /\ r.interval = FALSE /\ r.at = "get"
      /\ r.due = e.expires /\ r.callback = NoCall
  <2>1. (active[e.id].interval > 0) = FALSE
    BY <1>2
  <2> QED
    BY <2>1 DEF RunOf
<1>4. r \in [timer : 1..created, due : Nat, handle : DOMAIN slots, interval : BOOLEAN,
             at : {"get", "drop", "call"}, callback : Nat]
  BY <1>2 DEF RunOf, Holds, NoCall
<1> HIDE DEF r
<1>5. runs' = runs \cup {r}
  BY DEF r
<1>6. ChannelInv' /\ Adds' = Adds
  BY DEF ChannelInv, Adds
<1>7. TypeInv'
  BY <1>1, <1>4, <1>5, <1>6 DEF TypeInv
<1>8. PlaceInv'
  <2>1. /\ \A m \in Adds : m.id # e.id
        /\ \A f \in heap' : f.id # e.id
        /\ \A q \in runs : ~q.interval => q.timer # e.id
        /\ \A c \in called : ~c.interval => c.timer # e.id
    BY <1>1 DEF PlaceInv
  <2> QED
    BY <1>1, <1>3, <1>5, <1>6, <2>1 DEF PlaceInv
<1>9. SomewhereInv' /\ ActiveInv'
  <2>1. \A f \in heap' : f.id # e.id
    BY <1>1 DEF PlaceInv
  <2> QED
    BY <1>1, <1>3, <1>5, <1>6, <2>1 DEF SomewhereInv, ActiveInv
<1>10. OwnersInv'
  <2>1. \A x \in DOMAIN active' : x \in DOMAIN active /\ active'[x] = active[x]
    BY <1>1
  <2>2. \A q \in runs' : Owns(q) => q.handle \in DOMAIN slots /\ slots[q.handle] = q.timer
    BY <1>2, <1>3, <1>5 DEF OwnersInv, Holds
  <2>3. ASSUME NEW h \in DOMAIN slots, slots[h] # NoCall PROVE Owned(h)'
    <3>1. CASE \E m \in Adds : m.handle = h /\ m.id = slots[h]
      BY <1>6, <3>1 DEF Owned
    <3>2. CASE \E q \in runs : Owns(q) /\ q.handle = h /\ q.timer = slots[h]
      BY <1>5, <3>2 DEF Owned, Owns
    <3>3. CASE \E x \in DOMAIN active : active[x].handle = h /\ x = slots[h]
      <4>1. CASE slots[h] = e.id
        BY <1>3, <1>5, <3>3, <4>1 DEF Owned, Owns
      <4>2. CASE slots[h] # e.id
        BY <1>1, <3>3, <4>2 DEF Owned
      <4> QED
        BY <4>1, <4>2
    <3> QED
      BY <2>3, <3>1, <3>2, <3>3 DEF OwnersInv, Owned
  <2> QED
    BY <1>6, <2>1, <2>2, <2>3 DEF OwnersInv, Holds, Owns
<1>11. FreeInv'
  BY DEF FreeInv, Holds
<1>12. CallInv'
  <2>1. \A q \in runs : q.interval /\ q.timer \notin cleared => q.timer # e.id
    BY <1>2 DEF CallInv
  <2> QED
    BY <1>1, <1>3, <1>5, <2>1 DEF CallInv
<1> QED
  BY <1>6, <1>7, <1>8, <1>9, <1>10, <1>11, <1>12

\* An interval keeps its handle and its place on the heap.
LEMMA FireIntervalKeeps ==
  ASSUME TimersInv, NEW e \in heap, e.id \in DOMAIN active, FireInterval(e),
         runs' = runs \cup {RunOf(e)},
         UNCHANGED <<clock, created, channel, slots, free, stage, looks, cleared, called>>
  PROVE  TimersInv'
<1> USE DEF TimersInv
<1> DEFINE r == RunOf(e)
           next == [e EXCEPT !.expires = looks + active[e.id].interval]
<1>1. /\ active[e.id] \in [handle : Nat, interval : Nat] /\ active[e.id].interval > 0
      /\ e \in [expires : Nat, id : 1..created] /\ Holds(active[e.id].handle, e.id)
  BY DEF FireInterval, TypeInv, OwnersInv
<1>2. heap' = (heap \ {e}) \cup {next} /\ active' = active
  BY DEF FireInterval
<1>3. next \in [expires : Nat, id : 1..created] /\ next.id = e.id
  BY <1>1 DEF TypeInv
<1>4. /\ r.timer = e.id /\ r.handle = active[e.id].handle /\ r.interval = TRUE /\ r.at = "get"
      /\ r.due = e.expires /\ r.callback = NoCall
  <2>1. (active[e.id].interval > 0) = TRUE
    BY <1>1
  <2> QED
    BY <2>1 DEF RunOf
<1>5. r \in [timer : 1..created, due : Nat, handle : DOMAIN slots, interval : BOOLEAN,
             at : {"get", "drop", "call"}, callback : Nat]
  BY <1>1 DEF RunOf, Holds, NoCall
<1> HIDE DEF r, next
<1>6. runs' = runs \cup {r}
  BY DEF r
<1>7. ChannelInv' /\ Adds' = Adds
  BY DEF ChannelInv, Adds
<1>8. TypeInv'
  BY <1>2, <1>3, <1>5, <1>6, <1>7 DEF TypeInv
<1>9. PlaceInv'
  <2>1. \A f \in heap' : \E g \in heap : g.id = f.id
    BY <1>2, <1>3
  <2>2. \A f, g \in heap' : f.id = g.id => f = g
    BY <1>2, <1>3 DEF PlaceInv
  <2>3. \A x \in DOMAIN active' : \E f \in heap' : f.id = x
    BY <1>2, <1>3 DEF PlaceInv
  <2> QED
    BY <1>2, <1>4, <1>6, <1>7, <2>1, <2>2, <2>3 DEF PlaceInv
<1>10. SomewhereInv' /\ ActiveInv'
  BY <1>2, <1>3, <1>4, <1>6, <1>7 DEF SomewhereInv, ActiveInv
<1>11. OwnersInv'
  <2>1. ~Owns(r)
    BY <1>4 DEF Owns
  <2>2. \A h : Owned(h) => Owned(h)'
    BY <1>2, <1>6, <1>7 DEF Owned, Owns
  <2> QED
    BY <1>2, <1>6, <1>7, <2>1, <2>2 DEF OwnersInv, Holds, Owns
<1>12. FreeInv' /\ CallInv'
  BY <1>1, <1>2, <1>4, <1>6 DEF FreeInv, Holds, CallInv
<1> QED
  BY <1>7, <1>8, <1>9, <1>10, <1>11, <1>12

LEMMA AddKeeps ==
  ASSUME TimersInv, channel # <<>>, Head(channel).is = "add", AddTimer(Head(channel)),
         channel' = Tail(channel), UNCHANGED <<clock, created, looks, runs, cleared, called>>
  PROVE  TimersInv'
<1> USE DEF TimersInv
<1> DEFINE m == Head(channel)
           entry == [expires |-> m.expires, id |-> m.id]
<1>1. /\ ChannelInv' /\ m \in Messages /\ m \in Adds
      /\ Adds' = Adds \ {m} /\ \A n \in Adds' : n.id # m.id
  BY ChannelReceived
<1>2. /\ DOMAIN active' = DOMAIN active \cup {m.id}
      /\ active'[m.id] = [handle |-> m.handle, interval |-> m.interval]
      /\ \A x \in DOMAIN active : x # m.id => active'[x] = active[x]
      /\ heap' = heap \cup {entry} /\ UNCHANGED <<slots, free>>
  BY DEF AddTimer, handleVars
<1>3. /\ m.id \in 1..created /\ m.handle \in Nat /\ m.interval \in Nat /\ m.expires \in Nat
      /\ Holds(m.handle, m.id) /\ m.is = "add"
  BY <1>1 DEF TypeInv, Messages, OwnersInv
<1>4. entry \in [expires : Nat, id : 1..created] /\ entry.id = m.id
  BY <1>3
<1> HIDE DEF m, entry
<1>5. TypeInv'
  BY <1>1, <1>2, <1>3, <1>4 DEF TypeInv
<1>6. /\ m.id \notin DOMAIN active
      /\ \A e \in heap : e.id # m.id
      /\ \A r \in runs : ~r.interval => r.timer # m.id
      /\ \A c \in called : ~c.interval => c.timer # m.id
  BY <1>1 DEF PlaceInv
<1>7. PlaceInv'
  BY <1>1, <1>2, <1>4, <1>6 DEF PlaceInv
<1>8. SomewhereInv' /\ ActiveInv'
  BY <1>1, <1>2, <1>4 DEF SomewhereInv, ActiveInv
<1>9. OwnersInv'
  <2>1. \A x \in DOMAIN active' : active'[x].handle \in DOMAIN slots /\ slots[active'[x].handle] = x
    BY <1>2, <1>3, <1>6 DEF OwnersInv, Holds
  <2>2. ASSUME NEW h \in DOMAIN slots, slots[h] # NoCall PROVE Owned(h)'
    <3>1. CASE \E n \in Adds : n.handle = h /\ n.id = slots[h]
      BY <1>1, <1>2, <3>1 DEF Owned
    <3>2. CASE \E q \in runs : Owns(q) /\ q.handle = h /\ q.timer = slots[h]
      BY <1>2, <3>2 DEF Owned, Owns
    <3>3. CASE \E x \in DOMAIN active : active[x].handle = h /\ x = slots[h]
      BY <1>2, <1>6, <3>3 DEF Owned
    <3> QED
      BY <2>2, <3>1, <3>2, <3>3 DEF OwnersInv, Owned
  <2> QED
    BY <1>1, <1>2, <2>1, <2>2 DEF OwnersInv, Holds, Owns
<1>10. FreeInv'
  BY <1>2 DEF FreeInv, Holds
<1>11. CallInv'
  BY <1>2, <1>6 DEF CallInv
<1> QED
  BY <1>1, <1>5, <1>7, <1>8, <1>9, <1>10, <1>11

\* The handle of a timer that is cleared was its own, and is free again.
LEMMA CancelKeeps ==
  ASSUME TimersInv, channel # <<>>, Head(channel).is = "cancel", CancelTimer(Head(channel)),
         channel' = Tail(channel), UNCHANGED <<clock, created, looks, runs, cleared, called>>
  PROVE  TimersInv'
<1> USE DEF TimersInv
<1> DEFINE m == Head(channel)
           h == active[m.id].handle
<1>1. ChannelInv' /\ Adds' = Adds /\ m.id \in cleared
  BY ChannelReceived
<1>2. CASE m.id \notin DOMAIN active
  <2>1. UNCHANGED <<active, heap, slots, free>>
    BY <1>2 DEF CancelTimer, handleVars
  <2>2. TypeInv' /\ PlaceInv' /\ SomewhereInv' /\ ActiveInv' /\ CallInv'
    BY <1>1, <2>1 DEF TypeInv, PlaceInv, SomewhereInv, ActiveInv, CallInv
  <2>3. OwnersInv' /\ FreeInv'
    BY <1>1, <2>1 DEF OwnersInv, FreeInv, Holds, Owned, Owns
  <2> QED
    BY <1>1, <2>2, <2>3
<1>3. CASE m.id \in DOMAIN active
  <2>1. /\ DOMAIN active' = DOMAIN active \ {m.id} /\ heap' = heap /\ DropHandle(h)
        /\ \A x \in DOMAIN active' : active'[x] = active[x]
    BY <1>3 DEF CancelTimer, Others
  <2>2. h \in DOMAIN slots /\ slots[h] = m.id /\ m.id # NoCall
    BY <1>3 DEF OwnersInv, Holds, TypeInv, NoCall
  <2> HIDE DEF h, m
  <2>3. /\ FreeInv' /\ DOMAIN slots' = DOMAIN slots /\ slots'[h] = NoCall
        /\ \A g \in DOMAIN slots : g # h => slots'[g] = slots[g]
    BY <2>1, <2>2, HandleDropped
  <2>4. TypeInv' /\ SomewhereInv' /\ ActiveInv'
    BY <1>1, <2>1, <2>3 DEF TypeInv, SomewhereInv, ActiveInv
  <2>5. PlaceInv' /\ CallInv'
    BY <1>1, <2>1 DEF PlaceInv, CallInv
  <2>6. /\ \A n \in Adds : n.id # m.id
        /\ \A r \in runs : Owns(r) => r.timer # m.id
    BY <1>3 DEF PlaceInv, Owns
  <2>7. OwnersInv'
    <3>1. \A n \in Adds' : n.handle \in DOMAIN slots' /\ slots'[n.handle] = n.id
      BY <1>1, <2>2, <2>3, <2>6 DEF OwnersInv, Holds
    <3>2. \A x \in DOMAIN active' :
            active'[x].handle \in DOMAIN slots' /\ slots'[active'[x].handle] = x
      BY <2>1, <2>2, <2>3 DEF OwnersInv, Holds
    <3>3. \A r \in runs' : Owns(r) => r.handle \in DOMAIN slots' /\ slots'[r.handle] = r.timer
      BY <2>2, <2>3, <2>6 DEF OwnersInv, Holds
    <3>4. ASSUME NEW g \in DOMAIN slots', slots'[g] # NoCall PROVE Owned(g)'
      <4>1. g \in DOMAIN slots /\ g # h /\ slots'[g] = slots[g] /\ Owned(g)
        BY <2>3, <3>4 DEF OwnersInv
      <4>2. CASE \E n \in Adds : n.handle = g /\ n.id = slots[g]
        BY <1>1, <4>1, <4>2 DEF Owned
      <4>3. CASE \E r \in runs : Owns(r) /\ r.handle = g /\ r.timer = slots[g]
        BY <4>1, <4>3 DEF Owned, Owns
      <4>4. CASE \E x \in DOMAIN active : active[x].handle = g /\ x = slots[g]
        BY <2>1, <4>1, <4>4 DEF Owned, h
      <4> QED
        BY <4>1, <4>2, <4>3, <4>4 DEF Owned
    <3> QED
      BY <3>1, <3>2, <3>3, <3>4 DEF OwnersInv, Holds, Owns
  <2> QED
    BY <1>1, <2>3, <2>4, <2>5, <2>7
<1> QED
  BY <1>2, <1>3

-----------------------------------------------------------------------------
(* The steps of a callback's virtual thread *)

LEMMA GetKeeps ==
  ASSUME TimersInv, NEW r \in runs, GetCallback(r),
         UNCHANGED <<clock, created, channel, heap, active, stage, looks, cleared>>
  PROVE  TimersInv'
<1> USE DEF TimersInv
<1> DEFINE q == [r EXCEPT !.callback = slots[r.handle], !.at = IF r.interval THEN "call" ELSE "drop"]
<1>1. /\ r.at = "get" /\ runs' = (runs \ {r}) \cup {q}
      /\ UNCHANGED <<slots, free, called>>
  BY DEF GetCallback, handleVars
<1>2. /\ r \in [timer : 1..created, due : Nat, handle : DOMAIN slots, interval : BOOLEAN,
                at : {"get", "drop", "call"}, callback : Nat]
      /\ slots[r.handle] \in Nat
  BY DEF TypeInv, FreeInv
<1>3. /\ q \in [timer : 1..created, due : Nat, handle : DOMAIN slots, interval : BOOLEAN,
                at : {"get", "drop", "call"}, callback : Nat]
      /\ q.timer = r.timer /\ q.handle = r.handle /\ q.interval = r.interval
      /\ q.callback = slots[r.handle] /\ q.at = IF r.interval THEN "call" ELSE "drop"
  BY <1>2
<1> HIDE DEF q
<1>4. ChannelInv' /\ Adds' = Adds
  BY <1>1 DEF ChannelInv, Adds
<1>5. TypeInv'
  BY <1>1, <1>3, <1>4 DEF TypeInv
<1>6. PlaceInv'
  BY <1>1, <1>3, <1>4 DEF PlaceInv
<1>7. SomewhereInv' /\ ActiveInv'
  BY <1>1, <1>3, <1>4 DEF SomewhereInv, ActiveInv
<1>8. Owns(q) = Owns(r)
  BY <1>1, <1>3 DEF Owns
<1>9. OwnersInv'
  <2>1. \A x \in runs' : Owns(x) => x.handle \in DOMAIN slots /\ slots[x.handle] = x.timer
    BY <1>1, <1>3, <1>8 DEF OwnersInv, Holds
  <2>2. \A h : Owned(h) => Owned(h)'
    BY <1>1, <1>3, <1>4, <1>8 DEF Owned, Owns
  <2> QED
    BY <1>1, <1>4, <2>1, <2>2 DEF OwnersInv, Holds, Owns
<1>10. FreeInv'
  BY <1>1 DEF FreeInv, Holds
<1>11. CallInv'
  <2>1. q.callback = q.timer \/ (q.interval /\ q.timer \in cleared)
    BY <1>1, <1>2, <1>3 DEF OwnersInv, Holds, Owns, CallInv
  <2> QED
    BY <1>1, <1>3, <2>1 DEF CallInv
<1> QED
  BY <1>4, <1>5, <1>6, <1>7, <1>9, <1>10, <1>11

\* A timeout gives its handle back, and is not its owner any more.
LEMMA DropOwnKeeps ==
  ASSUME TimersInv, NEW r \in runs, DropOwnHandle(r),
         UNCHANGED <<clock, created, channel, heap, active, stage, looks, cleared>>
  PROVE  TimersInv'
<1> USE DEF TimersInv
<1> DEFINE q == [r EXCEPT !.at = "call"]
           h == r.handle
<1>1. /\ r.at = "drop" /\ ~r.interval /\ runs' = (runs \ {r}) \cup {q}
      /\ DropHandle(h) /\ called' = called
  BY DEF DropOwnHandle, CallInv
<1>2. /\ r \in [timer : 1..created, due : Nat, handle : DOMAIN slots, interval : BOOLEAN,
                at : {"get", "drop", "call"}, callback : Nat]
      /\ h \in DOMAIN slots /\ slots[h] = r.timer /\ r.timer # NoCall
  BY <1>1 DEF TypeInv, OwnersInv, Holds, Owns, NoCall
<1>3. /\ q \in [timer : 1..created, due : Nat, handle : DOMAIN slots, interval : BOOLEAN,
                at : {"get", "drop", "call"}, callback : Nat]
      /\ q.timer = r.timer /\ q.interval = r.interval /\ q.callback = r.callback /\ q.at = "call"
  BY <1>2
<1> HIDE DEF q, h
<1>4. /\ FreeInv' /\ DOMAIN slots' = DOMAIN slots /\ slots'[h] = NoCall
      /\ \A g \in DOMAIN slots : g # h => slots'[g] = slots[g]
  BY <1>1, <1>2, HandleDropped
<1>5. ChannelInv' /\ Adds' = Adds
  BY DEF ChannelInv, Adds
<1>6. TypeInv'
  BY <1>1, <1>3, <1>4, <1>5 DEF TypeInv
<1>7. PlaceInv'
  BY <1>1, <1>3, <1>5 DEF PlaceInv
<1>8. SomewhereInv' /\ ActiveInv'
  BY <1>1, <1>3, <1>5 DEF SomewhereInv, ActiveInv
<1>9. OwnersInv'
  <2>1. /\ \A n \in Adds : n.id # r.timer
        /\ r.timer \notin DOMAIN active
        /\ \A x \in runs' : Owns(x) => x \in runs /\ x.timer # r.timer
    BY <1>1, <1>3 DEF PlaceInv, Owns
  <2>2. \A n \in Adds' : n.handle \in DOMAIN slots' /\ slots'[n.handle] = n.id
    BY <1>2, <1>4, <1>5, <2>1 DEF OwnersInv, Holds
  <2>3. \A x \in DOMAIN active' :
          active'[x].handle \in DOMAIN slots' /\ slots'[active'[x].handle] = x
    BY <1>2, <1>4, <2>1 DEF OwnersInv, Holds
  <2>4. \A x \in runs' : Owns(x) => x.handle \in DOMAIN slots' /\ slots'[x.handle] = x.timer
    BY <1>2, <1>4, <2>1 DEF OwnersInv, Holds
  <2>5. ASSUME NEW g \in DOMAIN slots', slots'[g] # NoCall PROVE Owned(g)'
    <3>1. g \in DOMAIN slots /\ g # h /\ slots'[g] = slots[g] /\ Owned(g)
      BY <1>4, <2>5 DEF OwnersInv
    <3>2. CASE \E n \in Adds : n.handle = g /\ n.id = slots[g]
      BY <1>5, <3>1, <3>2 DEF Owned
    <3>3. CASE \E x \in runs : Owns(x) /\ x.handle = g /\ x.timer = slots[g]
      BY <1>1, <3>1, <3>3 DEF Owned, Owns, h
    <3>4. CASE \E x \in DOMAIN active : active[x].handle = g /\ x = slots[g]
      BY <3>1, <3>4 DEF Owned
    <3> QED
      BY <3>1, <3>2, <3>3, <3>4 DEF Owned
  <2> QED
    BY <2>2, <2>3, <2>4, <2>5 DEF OwnersInv, Holds, Owns
<1>10. CallInv'
  BY <1>1, <1>3 DEF CallInv
<1> QED
  BY <1>4, <1>5, <1>6, <1>7, <1>8, <1>9, <1>10

LEMMA CallKeeps ==
  ASSUME TimersInv, NEW r \in runs, Call(r),
         UNCHANGED <<clock, created, channel, heap, active, stage, looks, cleared>>
  PROVE  TimersInv'
<1> USE DEF TimersInv
<1> DEFINE c == [timer |-> r.timer, callback |-> r.callback, interval |-> r.interval]
<1>1. /\ r.at = "call" /\ runs' = runs \ {r} /\ UNCHANGED <<slots, free>>
      /\ r.callback = r.timer \/ (r.interval /\ r.timer \in cleared)
  BY DEF Call, handleVars, CallInv
<1>2. /\ r \in [timer : 1..created, due : Nat, handle : DOMAIN slots, interval : BOOLEAN,
                at : {"get", "drop", "call"}, callback : Nat]
      /\ r.timer # NoCall
  BY DEF TypeInv, NoCall
<1>3. /\ c \in [timer : 1..created, callback : Nat, interval : BOOLEAN]
      /\ c.timer = r.timer /\ c.callback = r.callback /\ c.interval = r.interval
  BY <1>2
<1>4. /\ called' = called \/ called' = called \cup {c}
      /\ ~r.interval => c \in called'
  BY <1>1, <1>2 DEF Call
<1> HIDE DEF c
<1>5. ChannelInv' /\ Adds' = Adds
  BY DEF ChannelInv, Adds
<1>6. TypeInv'
  BY <1>1, <1>3, <1>4, <1>5 DEF TypeInv
<1>7. PlaceInv'
  <2>1. ~r.interval => /\ \A m \in Adds : m.id # r.timer
                       /\ \A e \in heap : e.id # r.timer
                       /\ \A q \in runs' : ~q.interval => q.timer # r.timer
                       /\ \A d \in called : ~d.interval => d.timer # r.timer
    BY <1>1 DEF PlaceInv
  <2> QED
    BY <1>1, <1>3, <1>4, <1>5, <2>1 DEF PlaceInv
<1>8. SomewhereInv'
  BY <1>1, <1>3, <1>4, <1>5 DEF SomewhereInv
<1>9. ActiveInv' /\ CallInv'
  BY <1>1, <1>3, <1>4 DEF ActiveInv, CallInv
<1>10. ~Owns(r)
  BY <1>1 DEF Owns
<1>11. OwnersInv'
  <2>1. \A h : Owned(h) => Owned(h)'
    BY <1>1, <1>5, <1>10 DEF Owned, Owns
  <2> QED
    BY <1>1, <1>5, <2>1 DEF OwnersInv, Holds, Owns
<1>12. FreeInv'
  BY <1>1 DEF FreeInv, Holds
<1> QED
  BY <1>5, <1>6, <1>7, <1>8, <1>9, <1>11, <1>12

-----------------------------------------------------------------------------
(* Every step *)

LEMMA StepKeeps == TimersInv /\ [TimersNext]_timerVars => TimersInv'
<1> SUFFICES ASSUME TimersInv, [TimersNext]_timerVars PROVE TimersInv'
  OBVIOUS
<1>1. ASSUME UNCHANGED <<created, channel, slots, free, heap, active, runs, cleared, called>>,
             clock' \in Nat, looks' \in Nat
      PROVE  TimersInv'
  <2>1. ChannelInv' /\ Adds' = Adds
    BY <1>1 DEF TimersInv, ChannelInv, Adds
  <2>2. TypeInv' /\ PlaceInv' /\ SomewhereInv' /\ ActiveInv' /\ CallInv'
    BY <1>1, <2>1 DEF TimersInv, TypeInv, PlaceInv, SomewhereInv, ActiveInv, CallInv
  <2>3. OwnersInv' /\ FreeInv'
    BY <1>1, <2>1 DEF TimersInv, OwnersInv, FreeInv, Holds, Owned, Owns
  <2> QED
    BY <2>1, <2>2, <2>3 DEF TimersInv
<1>2. clock \in Nat /\ looks \in Nat /\ clock + 1 \in Nat
  BY DEF TimersInv, TypeInv
<1>3. CASE SetTimeout \/ SetInterval
  BY <1>3, StartKeeps, TimersAssumption DEF SetTimeout, SetInterval
<1>4. CASE ClearTimer
  BY <1>4, ClearKeeps
<1>5. CASE BeginRound
  BY <1>1, <1>2, <1>5 DEF BeginRound, handleVars
<1>6. CASE DropEntry
  BY <1>6, DropEntryKeeps
<1>7. CASE Fire
  BY <1>7, FireTimeoutKeeps, FireIntervalKeeps DEF Fire, handleVars
<1>8. CASE Receive
  BY <1>8, AddKeeps, CancelKeeps DEF Receive
<1>9. CASE EndRound
  BY <1>1, <1>2, <1>9 DEF EndRound, handleVars
<1>10. CASE RunCallback
  BY <1>10, GetKeeps, DropOwnKeeps, CallKeeps DEF RunCallback, timerThread
<1>11. CASE Tick
  BY <1>1, <1>2, <1>11 DEF Tick, handleVars, timerThread
<1>12. CASE UNCHANGED timerVars
  BY <1>1, <1>2, <1>12 DEF timerVars, handleVars, timerThread
<1> QED
  BY <1>3, <1>4, <1>5, <1>6, <1>7, <1>8, <1>9, <1>10, <1>11, <1>12 DEF TimersNext

-----------------------------------------------------------------------------
(* The number of places *)

LEMMA NoneOrOne ==
  ASSUME NEW S, \A x, y \in S : x = y
  PROVE  Cardinality(S) = IF S = {} THEN 0 ELSE 1
<1>1. CASE S = {}
  BY <1>1, FS_EmptySet
<1>2. CASE S # {}
  <2>1. PICK x \in S : S = {x}
    BY <1>2
  <2> QED
    BY <1>2, <2>1, FS_Singleton
<1> QED
  BY <1>1, <1>2

LEMMA HandlesFollow == TimersInv => HandlesAccounted
<1> SUFFICES ASSUME TimersInv PROVE HandlesAccounted
  OBVIOUS
<1> USE DEF TimersInv
<1>1. {<<h, slots[h]>> : h \in {g \in DOMAIN slots : slots[g] # NoCall}} = Owners
  <2> DEFINE Used == {<<h, slots[h]>> : h \in {g \in DOMAIN slots : slots[g] # NoCall}}
  <2>1. \A r \in runs : (~r.interval /\ r.at # "call") = Owns(r)
    BY DEF Owns
  <2>2. ASSUME NEW p \in Used PROVE p \in Owners
    <3>1. PICK h \in DOMAIN slots : slots[h] # NoCall /\ p = <<h, slots[h]>>
      BY <2>2
    <3>2. CASE \E m \in Adds : m.handle = h /\ m.id = slots[h]
      BY <3>1, <3>2 DEF Owners, Adds
    <3>3. CASE \E id \in DOMAIN active : active[id].handle = h /\ id = slots[h]
      BY <3>1, <3>3 DEF Owners
    <3>4. CASE \E r \in runs : Owns(r) /\ r.handle = h /\ r.timer = slots[h]
      BY <3>1, <3>4 DEF Owners, Owns
    <3> QED
      BY <3>1, <3>2, <3>3, <3>4 DEF OwnersInv, Owned
  <2>3. ASSUME NEW p \in Owners PROVE p \in Used
    <3>1. CASE \E m \in Adds : p = <<m.handle, m.id>>
      BY <3>1 DEF OwnersInv, Holds, TypeInv, NoCall
    <3>2. CASE \E id \in DOMAIN active : p = <<active[id].handle, id>>
      BY <3>2 DEF OwnersInv, Holds, TypeInv, NoCall
    <3>3. CASE \E r \in runs : Owns(r) /\ p = <<r.handle, r.timer>>
      BY <3>3 DEF OwnersInv, Holds, TypeInv, NoCall
    <3> QED
      BY <2>3, <3>1, <3>2, <3>3 DEF Owners, Adds, Owns
  <2> QED
    BY <2>2, <2>3
<1>2. {free[k] : k \in DOMAIN free} = {g \in DOMAIN slots : slots[g] = NoCall}
  BY DEF FreeInv, Holds
<1>3. Cardinality({free[k] : k \in DOMAIN free}) = Len(free)
  <2> DEFINE T == {free[k] : k \in DOMAIN free}
  <2>1. DOMAIN free = 1..Len(free) /\ Len(free) \in Nat
    BY DEF FreeInv
  <2>2. free \in Bijection(1..Len(free), T)
    <3>1. free \in [1..Len(free) -> Nat]
      BY <2>1, LenProperties DEF FreeInv
    <3>2. free \in [1..Len(free) -> T]
      BY <2>1, <3>1
    <3>3. IsInjective(free)
      BY <2>1 DEF FreeInv, IsInjective
    <3>4. \A t \in T : \E k \in 1..Len(free) : free[k] = t
      BY <2>1
    <3> QED
      BY <3>2, <3>3, <3>4 DEF Bijection, Injection, Surjection
  <2>3. IsFiniteSet(1..Len(free)) /\ Cardinality(1..Len(free)) = Len(free)
    <3>1. Len(free) \in Int /\ 1 \in Int
      BY <2>1
    <3>2. /\ IsFiniteSet(1..Len(free))
          /\ Cardinality(1..Len(free)) = IF 1 > Len(free) THEN 0 ELSE Len(free) - 1 + 1
      BY ONLY <3>1, FS_Interval, Zenon
    <3>3. (IF 1 > Len(free) THEN 0 ELSE Len(free) - 1 + 1) = Len(free)
      BY ONLY <2>1
    <3> QED
      BY <3>2, <3>3
  <2> HIDE DEF T
  <2>4. Cardinality(T) = Cardinality(1..Len(free))
    <3>1. ExistsBijection(1..Len(free), T)
      BY <2>2 DEF ExistsBijection
    <3> QED
      BY <2>3, <3>1, FS_Bijection
  <2> QED
    BY <2>3, <2>4 DEF T
<1> QED
  BY <1>1, <1>2, <1>3 DEF HandlesAccounted

LEMMA PlacesFollow == TimersInv => NoTimerLost
<1> SUFFICES ASSUME TimersInv, NEW id \in 1..created \ cleared
             PROVE  LET coming == {k \in DOMAIN channel : channel[k].is = "add" /\ channel[k].id = id}
                        waiting == {e \in heap : e.id = id}
                        running == {r \in runs : r.timer = id /\ ~r.interval}
                        done == {c \in called : c.timer = id /\ ~c.interval}
                    IN /\ Cardinality(coming) + Cardinality(waiting) + Cardinality(running)
                            + Cardinality(done) = 1
                       /\ (waiting # {}) = (id \in DOMAIN active)
  BY DEF NoTimerLost
<1> USE DEF TimersInv
<1> DEFINE coming == {k \in DOMAIN channel : channel[k].is = "add" /\ channel[k].id = id}
           waiting == {e \in heap : e.id = id}
           running == {r \in runs : r.timer = id /\ ~r.interval}
           done == {c \in called : c.timer = id /\ ~c.interval}
<1>1. (waiting # {}) = (id \in DOMAIN active)
  BY DEF PlaceInv, ActiveInv
<1>2. coming # {} => \E m \in Adds : m.id = id
  BY DEF Adds
<1>3. \/ coming # {} /\ waiting = {} /\ running = {} /\ done = {}
      \/ coming = {} /\ waiting # {} /\ running = {} /\ done = {}
      \/ coming = {} /\ waiting = {} /\ running # {} /\ done = {}
      \/ coming = {} /\ waiting = {} /\ running = {} /\ done # {}
  <2>1. coming # {} \/ waiting # {} \/ running # {} \/ done # {}
    <3>1. (\E m \in Adds : m.id = id) => coming # {}
      BY DEF Adds
    <3> QED
      BY <1>1, <3>1 DEF SomewhereInv
  <2>2. coming # {} => waiting = {} /\ running = {} /\ done = {}
    BY <1>2 DEF PlaceInv
  <2>3. waiting # {} => running = {} /\ done = {}
    BY DEF PlaceInv
  <2>4. running # {} => done = {}
    BY DEF PlaceInv
  <2> QED
    BY <2>1, <2>2, <2>3, <2>4
<1>4. /\ \A x, y \in coming : x = y
      /\ \A x, y \in waiting : x = y
      /\ \A x, y \in running : x = y
      /\ \A x, y \in done : x = y
  BY DEF ChannelInv, PlaceInv
<1> HIDE DEF coming, waiting, running, done
<1>5. /\ Cardinality(coming) = IF coming = {} THEN 0 ELSE 1
      /\ Cardinality(waiting) = IF waiting = {} THEN 0 ELSE 1
      /\ Cardinality(running) = IF running = {} THEN 0 ELSE 1
      /\ Cardinality(done) = IF done = {} THEN 0 ELSE 1
  BY <1>4, NoneOrOne
<1>6. Cardinality(coming) + Cardinality(waiting) + Cardinality(running) + Cardinality(done) = 1
  BY <1>3, <1>5
<1> QED
  BY <1>1, <1>6 DEF coming, waiting, running, done

-----------------------------------------------------------------------------
(* Timers and their handles agree, however many timers are started, cleared *)
(* and fired: no timer is lost (rt_setTimeout, timer_manager_loop), and no  *)
(* handle is leaked, shared or given to another timer's callback while its  *)
(* own is waiting (GlobalHandles).                                          *)
THEOREM TimersAlwaysAccounted == TimersSpec => []TimersAccounted
<1>1. TimersInv => TimersAccounted
  <2>1. TimersInv => OwnCallback
    BY DEF TimersInv, CallInv, OwnCallback
  <2> QED
    BY <2>1, HandlesFollow, PlacesFollow DEF TimersAccounted
<1> QED
  BY <1>1, InitInv, StepKeeps, PTL DEF TimersSpec

=============================================================================
