------------------------ MODULE VThreadScheduler_proofs ------------------------
(***************************************************************************)
(* Proofs about the scheduler, for any number of threads, workers and      *)
(* channels.  They hold when no two threads use the same channel           *)
(* (OneUser); otherwise a worker may put a thread into a slot of the I/O   *)
(* table that holds another one, which is then gone with its stack.        *)
(*                                                                         *)
(* OnePlace is not inductive.  PlaceInv adds that a queue holds no thread  *)
(* twice, that a worker that has no task has emptied its own queue before  *)
(* it steals, and that a thread parked on a channel uses it.  A step that  *)
(* moves threads between containers is then a case of Taken or of Gone.    *)
(***************************************************************************)
EXTENDS VThreadScheduler, SequenceTheorems, TLAPS

OneUser == \A p, q \in Uses : p[2] = q[2] => p[1] = q[1]

-----------------------------------------------------------------------------
(* Queues *)

Once(s) == \A i, j \in DOMAIN s : s[i] = s[j] => i = j

LEMMA QueueEmpty == ASSUME NEW S PROVE <<>> \in Seq(S) /\ ToSet(<<>>) = {} /\ Once(<<>>)
BY EmptySeq DEF ToSet, Once

LEMMA QueueConcat ==
  ASSUME NEW S, NEW a \in Seq(S), NEW b \in Seq(S)
  PROVE  /\ a \o b \in Seq(S)
         /\ ToSet(a \o b) = ToSet(a) \union ToSet(b)
         /\ Once(a) /\ Once(b) /\ ToSet(a) \intersect ToSet(b) = {} => Once(a \o b)
<1> DEFINE ab == a \o b
<1>1. /\ Len(a) \in Nat /\ DOMAIN a = 1 .. Len(a) /\ Len(b) \in Nat /\ DOMAIN b = 1 .. Len(b)
      /\ ab \in Seq(S) /\ DOMAIN ab = 1 .. (Len(a) + Len(b))
  BY ConcatProperties, LenProperties
<1>2. /\ \A i \in 1 .. Len(a) : ab[i] = a[i] /\ i \in DOMAIN ab
      /\ \A i \in 1 .. Len(b) : ab[Len(a) + i] = b[i] /\ Len(a) + i \in DOMAIN ab
  BY <1>1, ConcatProperties
<1>3. \A i \in DOMAIN ab : \/ i \in 1 .. Len(a)
                           \/ i - Len(a) \in 1 .. Len(b) /\ Len(a) + (i - Len(a)) = i
  BY <1>1
<1> HIDE DEF ab
<1>4. ToSet(ab) = ToSet(a) \union ToSet(b)
  <2>1. ASSUME NEW i \in DOMAIN ab PROVE ab[i] \in ToSet(a) \union ToSet(b)
    <3>1. CASE i \in 1 .. Len(a)
      BY <1>1, <1>2, <3>1 DEF ToSet
    <3>2. CASE i - Len(a) \in 1 .. Len(b) /\ Len(a) + (i - Len(a)) = i
      <4>1. ab[i] = b[i - Len(a)]
        BY <1>2, <3>2
      <4> QED
        BY <1>1, <3>2, <4>1 DEF ToSet
    <3> QED
      BY <1>3, <3>1, <3>2
  <2>2. ASSUME NEW i \in DOMAIN a PROVE a[i] \in ToSet(ab)
    <3>1. ab[i] = a[i] /\ i \in DOMAIN ab
      BY <1>1, <1>2
    <3> QED
      BY <3>1 DEF ToSet
  <2>3. ASSUME NEW i \in DOMAIN b PROVE b[i] \in ToSet(ab)
    <3>1. ab[Len(a) + i] = b[i] /\ Len(a) + i \in DOMAIN ab
      BY <1>1, <1>2
    <3> QED
      BY <3>1 DEF ToSet
  <2> QED
    BY <2>1, <2>2, <2>3 DEF ToSet
<1>5. ASSUME Once(a), Once(b), ToSet(a) \intersect ToSet(b) = {} PROVE Once(ab)
  <2>1. \A i \in 1 .. Len(a), j \in 1 .. Len(b) : a[i] # b[j]
    BY <1>1, <1>5 DEF ToSet
  <2> SUFFICES ASSUME NEW i \in DOMAIN ab, NEW j \in DOMAIN ab, ab[i] = ab[j] PROVE i = j
    BY DEF Once
  <2>2. CASE i \in 1 .. Len(a) /\ j \in 1 .. Len(a)
    BY <1>1, <1>2, <1>5, <2>2 DEF Once
  <2>3. CASE i \in 1 .. Len(a) /\ j \notin 1 .. Len(a)
    <3>1. ab[i] = a[i] /\ ab[j] = b[j - Len(a)] /\ j - Len(a) \in 1 .. Len(b)
      BY <1>2, <1>3, <2>3
    <3> QED
      BY <2>1, <2>3, <3>1
  <2>4. CASE i \notin 1 .. Len(a) /\ j \in 1 .. Len(a)
    <3>1. ab[j] = a[j] /\ ab[i] = b[i - Len(a)] /\ i - Len(a) \in 1 .. Len(b)
      BY <1>2, <1>3, <2>4
    <3> QED
      BY <2>1, <2>4, <3>1
  <2>5. CASE i \notin 1 .. Len(a) /\ j \notin 1 .. Len(a)
    <3>1. /\ ab[i] = b[i - Len(a)] /\ i - Len(a) \in 1 .. Len(b)
          /\ ab[j] = b[j - Len(a)] /\ j - Len(a) \in 1 .. Len(b)
      BY <1>2, <1>3, <2>5
    <3>2. i - Len(a) = j - Len(a)
      BY <1>1, <1>5, <3>1 DEF Once
    <3> QED
      BY <1>1, <3>2
  <2> QED
    BY <2>2, <2>3, <2>4, <2>5
<1> QED
  BY <1>1, <1>4, <1>5 DEF ab

LEMMA QueueAppend ==
  ASSUME NEW S, NEW s \in Seq(S), NEW x \in S
  PROVE  /\ Append(s, x) \in Seq(S)
         /\ ToSet(Append(s, x)) = ToSet(s) \union {x}
         /\ Once(s) /\ x \notin ToSet(s) => Once(Append(s, x))
<1>1. <<x>> \in Seq(S) /\ ToSet(<<x>>) = {x} /\ Once(<<x>>)
  BY DEF ToSet, Once
<1>2. Append(s, x) = s \o <<x>>
  BY AppendIsConcat
<1>3. /\ s \o <<x>> \in Seq(S)
      /\ ToSet(s \o <<x>>) = ToSet(s) \union ToSet(<<x>>)
      /\ Once(s) /\ Once(<<x>>) /\ ToSet(s) \intersect ToSet(<<x>>) = {} => Once(s \o <<x>>)
  BY <1>1, QueueConcat
<1> QED
  BY <1>1, <1>2, <1>3

\* A queue whose head and next n - 1 elements are taken off.
LEMMA QueueSplit ==
  ASSUME NEW S, NEW s \in Seq(S), NEW n \in 1 .. Len(s), Once(s)
  PROVE  LET taken == SubSeq(s, 2, n)
             rest == SubSeq(s, n + 1, Len(s))
         IN /\ Head(s) \in S /\ taken \in Seq(S) /\ rest \in Seq(S)
            /\ ToSet(s) = {Head(s)} \union ToSet(taken) \union ToSet(rest)
            /\ Head(s) \notin ToSet(taken) /\ Head(s) \notin ToSet(rest)
            /\ ToSet(taken) \intersect ToSet(rest) = {}
            /\ Once(taken) /\ Once(rest)
<1> DEFINE taken == SubSeq(s, 2, n)
           rest == SubSeq(s, n + 1, Len(s))
<1>1. /\ Len(s) \in Nat /\ DOMAIN s = 1 .. Len(s) /\ n \in Nat /\ n >= 1 /\ n <= Len(s)
      /\ \A i \in 1 .. Len(s) : s[i] \in S
      /\ Head(s) = s[1]
  BY LenProperties, ElementOfSeq
<1>2. /\ taken \in Seq(S) /\ DOMAIN taken = 1 .. (n - 1)
      /\ \A i \in 1 .. (n - 1) : taken[i] = s[i + 1]
  <2>1. \A i \in 2 .. n : s[i] \in S
    BY <1>1
  <2>2. /\ taken \in Seq(S) /\ Len(taken) = IF 2 <= n THEN n - 2 + 1 ELSE 0
        /\ \A i \in 1 .. n - 2 + 1 : taken[i] = s[2 + i - 1]
    BY <1>1, <2>1, SubSeqProperties
  <2> HIDE DEF taken
  <2>3. Len(taken) = n - 1 /\ DOMAIN taken = 1 .. Len(taken)
    BY <1>1, <2>2
  <2> QED
    BY <1>1, <2>2, <2>3
<1>3. /\ rest \in Seq(S) /\ DOMAIN rest = 1 .. (Len(s) - n)
      /\ \A i \in 1 .. (Len(s) - n) : rest[i] = s[n + i]
  <2>1. \A i \in n + 1 .. Len(s) : s[i] \in S
    BY <1>1
  <2>2. /\ rest \in Seq(S) /\ Len(rest) = IF n + 1 <= Len(s) THEN Len(s) - (n + 1) + 1 ELSE 0
        /\ \A i \in 1 .. Len(s) - (n + 1) + 1 : rest[i] = s[n + 1 + i - 1]
    BY <1>1, <2>1, SubSeqProperties
  <2> HIDE DEF rest
  <2>3. Len(rest) = Len(s) - n
    <3>1. \A k, m \in Int : k <= m => (IF k + 1 <= m THEN m - (k + 1) + 1 ELSE 0) = m - k
      OBVIOUS
    <3>2. n \in Int /\ Len(s) \in Int /\ n <= Len(s)
      BY <1>1
    <3>3. (IF n + 1 <= Len(s) THEN Len(s) - (n + 1) + 1 ELSE 0) = Len(s) - n
      BY <3>1, <3>2, Zenon
    <3> QED
      BY <2>2, <3>3
  <2>4. DOMAIN rest = 1 .. Len(rest)
    BY <2>2, LenProperties
  <2>5. \A i \in 1 .. (Len(s) - n) : i \in 1 .. Len(s) - (n + 1) + 1 /\ n + 1 + i - 1 = n + i
    BY <1>1
  <2> QED
    BY <2>2, <2>3, <2>4, <2>5
<1> HIDE DEF taken, rest
<1>4. /\ \A i \in 1 .. (n - 1) : i + 1 \in 1 .. Len(s) /\ i + 1 # 1
      /\ \A i \in 1 .. (Len(s) - n) : n + i \in 1 .. Len(s) /\ n + i # 1
      /\ \A i \in 1 .. (n - 1), j \in 1 .. (Len(s) - n) : i + 1 # n + j
      /\ 1 \in 1 .. Len(s)
  BY <1>1
<1>5. ToSet(s) = {Head(s)} \union ToSet(taken) \union ToSet(rest)
  <2>1. ASSUME NEW i \in 1 .. Len(s) PROVE s[i] \in {Head(s)} \union ToSet(taken) \union ToSet(rest)
    <3>1. CASE i = 1
      BY <1>1, <3>1
    <3>2. CASE i \in 2 .. n
      <4>1. i - 1 \in DOMAIN taken /\ taken[i - 1] = s[i]
        BY <1>1, <1>2, <3>2
      <4> QED
        BY <4>1 DEF ToSet
    <3>3. CASE i \in n + 1 .. Len(s)
      <4>1. i - n \in DOMAIN rest /\ rest[i - n] = s[i]
        BY <1>1, <1>3, <3>3
      <4> QED
        BY <4>1 DEF ToSet
    <3> QED
      BY <1>1, <3>1, <3>2, <3>3
  <2>2. ASSUME NEW i \in DOMAIN taken PROVE taken[i] \in ToSet(s)
    <3>1. taken[i] = s[i + 1] /\ i + 1 \in DOMAIN s
      BY <1>1, <1>2, <1>4
    <3> QED
      BY <3>1 DEF ToSet
  <2>3. ASSUME NEW i \in DOMAIN rest PROVE rest[i] \in ToSet(s)
    <3>1. rest[i] = s[n + i] /\ n + i \in DOMAIN s
      BY <1>1, <1>3, <1>4
    <3> QED
      BY <3>1 DEF ToSet
  <2>4. Head(s) \in ToSet(s)
    BY <1>1, <1>4 DEF ToSet
  <2> QED
    BY <1>1, <2>1, <2>2, <2>3, <2>4 DEF ToSet
<1>6. \A i, j \in 1 .. Len(s) : s[i] = s[j] => i = j
  BY <1>1 DEF Once
<1>7. Head(s) \notin ToSet(taken) /\ Head(s) \notin ToSet(rest)
  <2>1. \A i \in DOMAIN taken : taken[i] # s[1]
    BY <1>2, <1>4, <1>6
  <2>2. \A i \in DOMAIN rest : rest[i] # s[1]
    BY <1>3, <1>4, <1>6
  <2> QED
    BY <1>1, <2>1, <2>2 DEF ToSet
<1>8. ToSet(taken) \intersect ToSet(rest) = {}
  <2>1. \A i \in DOMAIN taken, j \in DOMAIN rest : taken[i] # rest[j]
    <3> SUFFICES ASSUME NEW i \in DOMAIN taken, NEW j \in DOMAIN rest PROVE taken[i] # rest[j]
      OBVIOUS
    <3>1. taken[i] = s[i + 1] /\ rest[j] = s[n + j]
      BY <1>2, <1>3
    <3>2. i + 1 \in 1 .. Len(s) /\ n + j \in 1 .. Len(s) /\ i + 1 # n + j
      BY <1>2, <1>3, <1>4
    <3> QED
      BY <1>6, <3>1, <3>2
  <2> QED
    BY <2>1 DEF ToSet
<1>9. Once(taken) /\ Once(rest)
  <2>1. \A i, j \in 1 .. (n - 1) : i + 1 = j + 1 => i = j
    BY <1>1
  <2>2. \A i, j \in 1 .. (Len(s) - n) : n + i = n + j => i = j
    BY <1>1
  <2>3. \A i, j \in DOMAIN taken : taken[i] = taken[j] => i = j
    <3> SUFFICES ASSUME NEW i \in DOMAIN taken, NEW j \in DOMAIN taken, taken[i] = taken[j] PROVE i = j
      OBVIOUS
    <3>1. s[i + 1] = s[j + 1] /\ i + 1 \in 1 .. Len(s) /\ j + 1 \in 1 .. Len(s)
      BY <1>2, <1>4
    <3> QED
      BY <1>2, <1>6, <2>1, <3>1
  <2>4. \A i, j \in DOMAIN rest : rest[i] = rest[j] => i = j
    <3> SUFFICES ASSUME NEW i \in DOMAIN rest, NEW j \in DOMAIN rest, rest[i] = rest[j] PROVE i = j
      OBVIOUS
    <3>1. s[n + i] = s[n + j] /\ n + i \in 1 .. Len(s) /\ n + j \in 1 .. Len(s)
      BY <1>3, <1>4
    <3> QED
      BY <1>3, <1>6, <2>2, <3>1
  <2> QED
    BY <2>3, <2>4 DEF Once
<1> QED
  BY <1>1, <1>2, <1>3, <1>5, <1>7, <1>8, <1>9 DEF taken, rest

-----------------------------------------------------------------------------
(* Where a thread is *)

Kinds == {"global", "priority", "local", "run", "io", "timers", "expired", "parked"}
Spots == Kinds \union Workers \union Channels

\* v is in the container of kind k; x tells apart those of workers and of channels.
At(v, k, x) ==
  \/ k = "global" /\ x = k /\ v \in ToSet(global)
  \/ k = "priority" /\ x = k /\ v \in ToSet(priority)
  \/ k = "local" /\ x \in Workers /\ v \in ToSet(local[x])
  \/ k = "run" /\ x \in Workers /\ run[x] = v
  \/ k = "io" /\ x \in Channels /\ parkedIo[x] = v
  \/ k = "timers" /\ x = k /\ v \in timers
  \/ k = "expired" /\ x = k /\ v \in expired
  \/ k = "parked" /\ x = k /\ v \in parked

Apart ==
  \A v \in VThreads : \A k, l \in Kinds : \A x, y \in Spots :
    At(v, k, x) /\ At(v, l, y) => k = l /\ x = y

Housed ==
  \A v \in VThreads : v \in live <=> \E k \in Kinds, x \in Spots : At(v, k, x)

Idle == {"seek", "seekGlobal", "seekOthers"}
Busy == {"picked", "running", "switched", "route", "dropped"}

Typed ==
  /\ global \in Seq(VThreads) /\ priority \in Seq(VThreads)
  /\ local \in [Workers -> Seq(VThreads)]
  /\ run \in [Workers -> VThreads \union {NoVThread}]
  /\ pc \in [Workers -> Idle \union Busy]
  /\ parkedIo \in [Channels -> VThreads \union {NoVThread}]
  /\ timers \subseteq VThreads /\ expired \subseteq VThreads
  /\ parked \subseteq VThreads /\ live \subseteq VThreads
  /\ vpc \in [VThreads -> {"new", "spawned", "program", "ioTry", "ioWait", "join", "ended"}]
  /\ chan \in [VThreads -> Channels \union {NoChannel}]
  /\ reason \in [VThreads -> {"yield", "sleep", "park", "io", "done"}]
  /\ gcState \in [VThreads -> BOOLEAN]

Singles == Once(global) /\ Once(priority) /\ \A w \in Workers : Once(local[w])

WorkerInv ==
  \A w \in Workers :
    /\ run[w] = NoVThread <=> pc[w] \in Idle
    /\ pc[w] \in {"seekGlobal", "seekOthers"} => local[w] = <<>>
    /\ pc[w] \in Busy \ {"picked"} => vpc[run[w]] \notin {"new", "spawned"}
    /\ pc[w] \in {"switched", "route"} /\ reason[run[w]] = "io" => vpc[run[w]] = "ioTry"

ThreadInv ==
  /\ \A v \in VThreads : vpc[v] = "new" => v \notin live
  /\ \A v \in VThreads : vpc[v] \in {"ioTry", "ioWait"} => <<v, chan[v]>> \in Uses
  /\ \A c \in Channels : parkedIo[c] # NoVThread =>
       vpc[parkedIo[c]] = "ioTry" /\ chan[parkedIo[c]] = c

PlaceInv == Typed /\ Singles /\ Apart /\ Housed /\ WorkerInv /\ ThreadInv

\* The threads of S leave their containers for others.
LEMMA Relocated ==
  ASSUME Apart, Housed, live' = live, NEW S \in SUBSET live, live \subseteq VThreads,
         NEW f, NEW y \in Spots, \A u \in S : f[u] \in Kinds,
         \A u \in VThreads, k \in Kinds, x \in Spots :
           At(u, k, x)' <=> IF u \in S THEN k = f[u] /\ x = y ELSE At(u, k, x)
  PROVE  Apart' /\ Housed'
<1>1. Apart'
  BY DEF Apart
<1>2. Housed'
  <2> SUFFICES ASSUME NEW u \in VThreads
               PROVE  u \in live <=> \E k \in Kinds, x \in Spots : At(u, k, x)'
    BY DEF Housed
  <2>1. CASE u \in S
    <3>1. At(u, f[u], y)' /\ f[u] \in Kinds
      BY <2>1
    <3> QED
      BY <2>1, <3>1
  <2>2. CASE u \notin S
    BY <2>2 DEF Housed
  <2> QED
    BY <2>1, <2>2
<1> QED
  BY <1>1, <1>2

\* A thread that a container holds is live, and other containers do not hold it.
LEMMA Holds ==
  ASSUME PlaceInv, NEW v \in VThreads, NEW k \in Kinds, NEW x \in Spots, At(v, k, x)
  PROVE  /\ v \in live
         /\ \A l \in Kinds, y \in Spots : At(v, l, y) => l = k /\ y = x
BY DEF PlaceInv, Apart, Housed

\* What is known of the thread of a worker.
LEMMA HoldsRun ==
  ASSUME PlaceInv, NEW w \in Workers, run[w] # NoVThread
  PROVE  /\ run[w] \in VThreads /\ run[w] \in live
         /\ run[w] \notin ToSet(global) /\ run[w] \notin ToSet(priority)
         /\ \A u \in Workers : run[w] \notin ToSet(local[u]) /\ (u # w => run[u] # run[w])
         /\ \A c \in Channels : parkedIo[c] # run[w]
         /\ run[w] \notin timers /\ run[w] \notin expired /\ run[w] \notin parked
<1>1. run[w] \in VThreads
  BY DEF PlaceInv, Typed
<1>2. At(run[w], "run", w) /\ "run" \in Kinds /\ w \in Spots
  BY DEF At, Kinds, Spots
<1>3. /\ run[w] \in live
      /\ \A l \in Kinds, y \in Spots : At(run[w], l, y) => l = "run" /\ y = w
  BY <1>1, <1>2, Holds
<1>4. \A u \in Workers : u \in Spots
  BY DEF Spots
<1>5. \A c \in Channels : c \in Spots
  BY DEF Spots
<1>6. \A k \in Kinds : k \in Spots
  BY DEF Spots
<1> DEFINE v == run[w]
<1>7. ~At(v, "global", "global") /\ ~At(v, "priority", "priority") /\ ~At(v, "timers", "timers")
      /\ ~At(v, "expired", "expired") /\ ~At(v, "parked", "parked")
  BY <1>3, <1>6 DEF Kinds
<1>8. \A u \in Workers : ~At(v, "local", u) /\ (u # w => ~At(v, "run", u))
  BY <1>3, <1>4 DEF Kinds
<1>9. \A c \in Channels : ~At(v, "io", c)
  BY <1>3, <1>5 DEF Kinds
<1> HIDE DEF v
<1>10. /\ v \notin ToSet(global) /\ v \notin ToSet(priority)
       /\ v \notin timers /\ v \notin expired /\ v \notin parked
  BY <1>7 DEF At
<1>11. \A u \in Workers : v \notin ToSet(local[u]) /\ (u # w => run[u] # v)
  BY <1>8 DEF At
<1>12. \A c \in Channels : parkedIo[c] # v
  BY <1>9 DEF At
<1> QED
  BY <1>1, <1>3, <1>10, <1>11, <1>12 DEF v

-----------------------------------------------------------------------------
(* Steps of a thread on its worker *)

LEMMA PlacesStay ==
  ASSUME PlaceInv,
         UNCHANGED <<global, priority, local, run, parkedIo, timers, expired, parked, live>>
  PROVE  Singles' /\ Apart' /\ Housed'
<1>1. Singles'
  BY DEF PlaceInv, Singles
<1>2. \A v \in VThreads, k \in Kinds, x \in Spots : At(v, k, x)' <=> At(v, k, x)
  BY DEF At
<1> QED
  BY <1>1, <1>2 DEF PlaceInv, Apart, Housed

LEMMA ThreadSteps ==
  ASSUME PlaceInv, Typed', NEW w \in Workers, run[w] # NoVThread,
         UNCHANGED <<global, priority, local, run, parkedIo, timers, expired, parked, live>>,
         \A u \in Workers \ {w} : pc'[u] = pc[u],
         \A u \in VThreads \ {run[w]} :
           vpc'[u] = vpc[u] /\ chan'[u] = chan[u] /\ reason'[u] = reason[u],
         pc'[w] \in Busy,
         pc'[w] # "picked" => vpc'[run[w]] \notin {"new", "spawned"},
         pc'[w] = "picked" => vpc'[run[w]] # "new",
         pc'[w] \in {"switched", "route"} /\ reason'[run[w]] = "io" => vpc'[run[w]] = "ioTry",
         vpc'[run[w]] \in {"ioTry", "ioWait"} => <<run[w], chan'[run[w]]>> \in Uses
  PROVE  PlaceInv'
<1>1. Singles' /\ Apart' /\ Housed'
  BY PlacesStay
<1>2. /\ run[w] \in VThreads /\ run[w] \in live
      /\ \A u \in Workers \ {w} : run[u] # run[w]
      /\ \A c \in Channels : parkedIo[c] # run[w]
  BY HoldsRun
<1>3. WorkerInv'
  <2>1. Idle \intersect Busy = {}
    BY DEF Idle, Busy
  <2> SUFFICES ASSUME NEW u \in Workers
               PROVE  /\ run[u] = NoVThread <=> pc'[u] \in Idle
                      /\ pc'[u] \in {"seekGlobal", "seekOthers"} => local[u] = <<>>
                      /\ pc'[u] \in Busy \ {"picked"} => vpc'[run[u]] \notin {"new", "spawned"}
                      /\ pc'[u] \in {"switched", "route"} /\ reason'[run[u]] = "io" =>
                           vpc'[run[u]] = "ioTry"
    BY DEF WorkerInv
  <2>2. CASE u = w
    BY <2>1, <2>2 DEF Idle
  <2>3. CASE u # w
    <3>1. WorkerInv /\ pc'[u] = pc[u]
      BY <2>3 DEF PlaceInv
    <3>2. CASE run[u] = NoVThread
      <4>1. pc[u] \in Idle
        BY <3>1, <3>2 DEF WorkerInv
      <4> QED
        BY <2>1, <3>1, <3>2, <4>1 DEF WorkerInv, Idle
    <3>3. CASE run[u] # NoVThread
      <4>1. run[u] \in VThreads \ {run[w]}
        BY <1>2, <2>3, <3>3 DEF PlaceInv, Typed
      <4>2. vpc'[run[u]] = vpc[run[u]] /\ reason'[run[u]] = reason[run[u]]
        BY <4>1
      <4> QED
        BY <3>1, <4>2 DEF WorkerInv
    <3> QED
      BY <3>2, <3>3
  <2> QED
    BY <2>2, <2>3
<1>4. ThreadInv'
  <2>1. \A v \in VThreads : vpc'[v] = "new" => v \notin live
    BY <1>2 DEF PlaceInv, ThreadInv
  <2>2. \A v \in VThreads : vpc'[v] \in {"ioTry", "ioWait"} => <<v, chan'[v]>> \in Uses
    BY DEF PlaceInv, ThreadInv
  <2>3. \A c \in Channels : parkedIo[c] # NoVThread =>
          vpc'[parkedIo[c]] = "ioTry" /\ chan'[parkedIo[c]] = c
    <3> SUFFICES ASSUME NEW c \in Channels, parkedIo[c] # NoVThread
                 PROVE  vpc'[parkedIo[c]] = "ioTry" /\ chan'[parkedIo[c]] = c
      OBVIOUS
    <3>1. parkedIo[c] \in VThreads \ {run[w]}
      BY <1>2 DEF PlaceInv, Typed
    <3> QED
      BY <3>1 DEF PlaceInv, ThreadInv
  <2> QED
    BY <2>1, <2>2, <2>3 DEF ThreadInv
<1> QED
  BY <1>1, <1>3, <1>4 DEF PlaceInv

LEMMA BusyWorker ==
  ASSUME PlaceInv, NEW w \in Workers, pc[w] \in Busy
  PROVE  run[w] # NoVThread /\ run[w] \in VThreads
BY DEF PlaceInv, WorkerInv, Typed, Idle, Busy

LEMMA ProgramKeeps ==
  ASSUME PlaceInv, NEW w \in Workers, Program(w)
  PROVE  PlaceInv'
<1> DEFINE v == run[w]
<1>1. pc[w] = "running" /\ vpc[v] \in {"program", "ioTry", "ioWait", "join"}
  BY DEF Program, Yield, Sleep, Park, Finish, StartIo, TryIo, WaitIo, StartJoin, Join, Running
<1>2. v # NoVThread /\ v \in VThreads
  BY <1>1, BusyWorker DEF Busy
<1>3. Typed
  BY DEF PlaceInv
<1>4. UNCHANGED <<global, priority, local, run, parkedIo, timers, expired, parked, live, gcState>>
  BY DEF Program, Yield, Sleep, Park, Finish, StartIo, TryIo, WaitIo, StartJoin, Join, Switch,
     ParkConsumes, ParkSuspends, parkVars, queueVars, timerVars, ioVars, workerVars
<1>5. vpc[v] \in {"ioTry", "ioWait"} => <<v, chan[v]>> \in Uses
  BY <1>2 DEF PlaceInv, ThreadInv
\* Nothing but its place in the code, its channel and its reason changes, and the worker's.
<1>6. \/ /\ UNCHANGED <<pc, reason>>
         /\ \/ UNCHANGED <<vpc, chan>>
            \/ vpc' = [vpc EXCEPT ![v] = "ioTry"] /\ vpc[v] = "ioWait" /\ chan' = chan
            \/ vpc' = [vpc EXCEPT ![v] = "ioWait"] /\ vpc[v] = "ioTry" /\ chan' = chan
            \/ /\ vpc' = [vpc EXCEPT ![v] = "ioTry"]
               /\ \E c \in Channels : <<v, c>> \in Uses /\ chan' = [chan EXCEPT ![v] = c]
            \/ /\ vpc' = [vpc EXCEPT ![v] = "program"]
               /\ chan' \in {chan, [chan EXCEPT ![v] = NoChannel]}
            \/ vpc' = [vpc EXCEPT ![v] = "join"] /\ chan' = chan
      \/ /\ pc' = [pc EXCEPT ![w] = "switched"] /\ chan' = chan
         /\ \/ vpc[v] \in {"program", "join"} /\ vpc' = vpc
               /\ \E why \in {"yield", "sleep", "park"} : reason' = [reason EXCEPT ![v] = why]
            \/ vpc' = [vpc EXCEPT ![v] = "ended"] /\ reason' = [reason EXCEPT ![v] = "done"]
            \/ /\ vpc[v] = "ioWait" /\ vpc' = [vpc EXCEPT ![v] = "ioTry"]
               /\ reason' = [reason EXCEPT ![v] = "io"]
  <2>1. CASE Yield(w) \/ Sleep(w) \/ Park(w)
    BY <2>1 DEF Yield, Sleep, Park, Switch, Running, workerVars
  <2>2. CASE Finish(w)
    BY <2>2 DEF Finish, Switch
  <2>3. CASE StartIo(w)
    BY <2>3 DEF StartIo, workerVars
  <2>4. CASE TryIo(w)
    BY <2>4 DEF TryIo, Running, workerVars
  <2>5. CASE WaitIo(w)
    BY <2>5 DEF WaitIo, Running, Switch, workerVars
  <2>6. CASE StartJoin(w)
    BY <2>6 DEF StartJoin, workerVars
  <2>7. CASE Join(w)
    BY <2>7 DEF Join, Running, Switch, workerVars
  <2> QED
    BY <2>1, <2>2, <2>3, <2>4, <2>5, <2>6, <2>7 DEF Program
<1> HIDE DEF v
<1>7. Typed'
  <2>1. pc' \in [Workers -> Idle \union Busy]
    BY <1>3, <1>6 DEF Typed, Busy
  <2>2. vpc' \in [VThreads -> {"new", "spawned", "program", "ioTry", "ioWait", "join", "ended"}]
    BY <1>3, <1>6 DEF Typed
  <2>3. chan' \in [VThreads -> Channels \union {NoChannel}]
    BY <1>3, <1>6 DEF Typed
  <2>4. reason' \in [VThreads -> {"yield", "sleep", "park", "io", "done"}]
    BY <1>3, <1>6 DEF Typed
  <2> QED
    BY <1>3, <1>4, <2>1, <2>2, <2>3, <2>4 DEF Typed
<1>8. /\ \A u \in Workers \ {w} : pc'[u] = pc[u]
      /\ \A u \in VThreads \ {v} : vpc'[u] = vpc[u] /\ chan'[u] = chan[u] /\ reason'[u] = reason[u]
      /\ pc'[w] \in {"running", "switched"}
  BY <1>1, <1>3, <1>6 DEF Typed
<1>9. /\ vpc'[v] \notin {"new", "spawned"}
      /\ pc'[w] = "switched" /\ reason'[v] = "io" => vpc'[v] = "ioTry"
      /\ vpc'[v] \in {"ioTry", "ioWait"} => <<v, chan'[v]>> \in Uses
  BY <1>1, <1>2, <1>3, <1>5, <1>6 DEF Typed
<1> QED
  BY <1>2, <1>4, <1>7, <1>8, <1>9, ThreadSteps DEF v, Busy

LEMMA SwitchKeeps ==
  ASSUME PlaceInv, NEW w \in Workers, Resume(w) \/ Save(w) \/ Drop(w)
  PROVE  PlaceInv'
<1> DEFINE v == run[w]
<1>1. pc[w] \in {"picked", "switched"}
  BY DEF Resume, Save, Drop
<1>2. v # NoVThread /\ v \in VThreads /\ v \in live
  BY <1>1, BusyWorker, HoldsRun DEF Busy
<1>3. Typed
  BY DEF PlaceInv
<1>4. /\ UNCHANGED <<global, priority, local, run, parkedIo, timers, expired, parked, live, chan, reason>>
      /\ \E b \in BOOLEAN : gcState' = [gcState EXCEPT ![v] = b]
      /\ \/ /\ pc[w] = "picked" /\ pc' = [pc EXCEPT ![w] = "running"]
            /\ vpc' = [vpc EXCEPT ![v] = IF vpc[v] = "spawned" THEN "program" ELSE vpc[v]]
         \/ /\ pc[w] = "switched" /\ vpc' = vpc
            /\ \E next \in {"route", "dropped"} : pc' = [pc EXCEPT ![w] = next]
  BY DEF Resume, Save, Drop, queueVars, timerVars, ioVars, parkVars
<1>5. /\ vpc[v] # "new"
      /\ vpc[v] \in {"ioTry", "ioWait"} => <<v, chan[v]>> \in Uses
      /\ pc[w] = "switched" =>
           vpc[v] \notin {"new", "spawned"} /\ (reason[v] = "io" => vpc[v] = "ioTry")
  BY <1>2 DEF PlaceInv, ThreadInv, WorkerInv, Busy
<1> HIDE DEF v
<1>6. Typed'
  BY <1>2, <1>3, <1>4 DEF Typed, Busy
<1>7. /\ \A u \in Workers \ {w} : pc'[u] = pc[u]
      /\ \A u \in VThreads \ {v} : vpc'[u] = vpc[u] /\ chan'[u] = chan[u] /\ reason'[u] = reason[u]
      /\ pc'[w] \in {"running", "route", "dropped"}
  BY <1>3, <1>4 DEF Typed
<1>8. /\ vpc'[v] \notin {"new", "spawned"}
      /\ pc'[w] \in {"switched", "route"} /\ reason'[v] = "io" => vpc'[v] = "ioTry"
      /\ vpc'[v] \in {"ioTry", "ioWait"} => <<v, chan'[v]>> \in Uses
  <2>1. CASE pc[w] = "picked"
    <3>1. vpc'[v] = (IF vpc[v] = "spawned" THEN "program" ELSE vpc[v]) /\ pc'[w] = "running"
      BY <1>2, <1>3, <1>4, <2>1 DEF Typed
    <3> QED
      BY <1>2, <1>4, <1>5, <2>1, <3>1
  <2>2. CASE pc[w] = "switched"
    BY <1>4, <1>5, <2>2
  <2> QED
    BY <1>1, <2>1, <2>2
<1> QED
  BY <1>2, <1>4, <1>6, <1>7, <1>8, ThreadSteps DEF v, Busy

-----------------------------------------------------------------------------
(* A worker takes tasks *)

\* h becomes w's task and the threads of T go to its queue, all of them from the queue k, x.
TakesOff(w, h, T) ==
  /\ run' = [run EXCEPT ![w] = h]
  /\ UNCHANGED <<parkedIo, timers, expired, parked, live>>
  /\ \A u \in VThreads :
       /\ u \in ToSet(global') <=> u \in ToSet(global) /\ u \notin T \union {h}
       /\ u \in ToSet(priority') <=> u \in ToSet(priority) /\ u \notin T \union {h}
       /\ \A x \in Workers :
            u \in ToSet(local'[x]) <=> \/ u \in ToSet(local[x]) /\ u \notin T \union {h}
                                       \/ x = w /\ u \in T

AllAt(S, k, x) == \A u \in S : At(u, k, x)

LEMMA Taken ==
  ASSUME PlaceInv, NEW w \in Workers, run[w] = NoVThread,
         NEW k1 \in {"global", "priority", "local"}, NEW x1 \in Spots,
         NEW h \in VThreads, NEW T \in SUBSET VThreads, h \notin T,
         AllAt(T \union {h}, k1, x1), TakesOff(w, h, T)
  PROVE  Apart' /\ Housed'
<1> USE DEF AllAt, TakesOff
<1> DEFINE S == T \union {h}
           f == [u \in S |-> IF u = h THEN "run" ELSE "local"]
<1>1. {k1, "run", "local"} \subseteq Kinds /\ w \in Spots
  BY DEF Kinds, Spots
<1>2. \A u \in S : u \in live /\ \A k \in Kinds, x \in Spots : At(u, k, x) => k = k1 /\ x = x1
  BY <1>1, Holds
<1>3. /\ run'[w] = h /\ \A x \in Workers \ {w} : run'[x] = run[x]
      /\ h # NoVThread /\ NoVThread \notin VThreads
  BY SchedulerAssumption DEF PlaceInv, Typed
<1>4. ASSUME NEW u \in VThreads, NEW k \in Kinds, NEW x \in Spots
      PROVE  At(u, k, x)' <=> IF u \in S THEN k = f[u] /\ x = w ELSE At(u, k, x)
  <2>1. CASE u \in S
    <3>1. k \notin {"global", "priority", "local"} => ~At(u, k, x)
      BY <1>2, <2>1
    <3>2. CASE k \in {"global", "priority"}
      BY <2>1, <3>2 DEF At
    <3>3. CASE k = "local"
      BY <2>1, <3>3 DEF At
    <3>4. CASE k = "run"
      <4>1. At(u, k, x)' <=> x \in Workers /\ run'[x] = u
        BY <3>4 DEF At
      <4>2. x \in Workers => run[x] # u
        BY <3>1, <3>4 DEF At
      <4> QED
        BY <1>3, <2>1, <3>4, <4>1, <4>2
    <3>5. CASE k \in {"io", "timers", "expired", "parked"}
      BY <2>1, <3>1, <3>5 DEF At
    <3> QED
      BY <3>2, <3>3, <3>4, <3>5 DEF Kinds
  <2>2. CASE u \notin S
    <3>1. CASE k \in {"global", "priority", "local"}
      BY <2>2, <3>1 DEF At
    <3>2. CASE k = "run"
      BY <1>3, <2>2, <3>2 DEF At
    <3>3. CASE k \in {"io", "timers", "expired", "parked"}
      BY <2>2, <3>3 DEF At
    <3> QED
      BY <2>2, <3>1, <3>2, <3>3 DEF Kinds
  <2> QED
    BY <2>1, <2>2
<1>5. S \in SUBSET live /\ \A u \in S : f[u] \in Kinds
  BY <1>1, <1>2
<1>6. Apart /\ Housed /\ live \subseteq VThreads /\ live' = live
  BY DEF PlaceInv, Typed
<1> HIDE DEF S, f, AllAt, TakesOff
<1> QED
  BY <1>1, <1>4, <1>5, <1>6, Relocated

LEMMA TakenKeeps ==
  ASSUME PlaceInv, Typed', Singles', Apart', Housed', NEW w \in Workers, run[w] = NoVThread,
         run'[w] # NoVThread, pc' = [pc EXCEPT ![w] = "picked"],
         \A u \in Workers \ {w} : run'[u] = run[u] /\ (local[u] = <<>> => local'[u] = <<>>),
         UNCHANGED <<vpc, chan, reason, parkedIo, live>>
  PROVE  PlaceInv'
<1>1. WorkerInv'
  <2> SUFFICES ASSUME NEW u \in Workers
               PROVE  /\ run'[u] = NoVThread <=> pc'[u] \in Idle
                      /\ pc'[u] \in {"seekGlobal", "seekOthers"} => local'[u] = <<>>
                      /\ pc'[u] \in Busy \ {"picked"} => vpc[run'[u]] \notin {"new", "spawned"}
                      /\ pc'[u] \in {"switched", "route"} /\ reason[run'[u]] = "io" =>
                           vpc[run'[u]] = "ioTry"
    BY DEF WorkerInv
  <2>1. CASE u = w
    <3>1. pc'[u] = "picked"
      BY <2>1 DEF PlaceInv, Typed
    <3> QED
      BY <2>1, <3>1 DEF Idle
  <2>2. CASE u # w
    BY <2>2 DEF PlaceInv, WorkerInv, Typed
  <2> QED
    BY <2>1, <2>2
<1>2. ThreadInv'
  BY DEF PlaceInv, ThreadInv
<1> QED
  BY <1>1, <1>2 DEF PlaceInv

\* From a shared queue q, of kind k.
LEMMA BatchKeeps ==
  ASSUME PlaceInv, NEW w \in Workers, run[w] = NoVThread,
         NEW k \in {"global", "priority"}, NEW q, NEW rest,
         k = "global" => q = global /\ global' = rest /\ priority' = priority,
         k = "priority" => q = priority /\ priority' = rest /\ global' = global,
         TakeBatch(w, q, rest),
         pc' = [pc EXCEPT ![w] = "picked"],
         UNCHANGED <<parkedIo, timers, expired, parked, live, vpc, chan, reason, gcState>>
  PROVE  PlaceInv'
<1> USE DEF PlaceInv
<1>1. q \in Seq(VThreads) /\ Once(q)
  BY DEF Typed, Singles
<1>2. PICK n \in 1 .. Len(q) :
        /\ run' = [run EXCEPT ![w] = Head(q)]
        /\ local' = [local EXCEPT ![w] = local[w] \o SubSeq(q, 2, n)]
        /\ rest = SubSeq(q, n + 1, Len(q))
  BY DEF TakeBatch
<1> DEFINE h == Head(q)
           taken == SubSeq(q, 2, n)
           T == ToSet(taken)
<1>3. /\ h \in VThreads /\ taken \in Seq(VThreads) /\ rest \in Seq(VThreads)
      /\ ToSet(q) = {h} \union T \union ToSet(rest)
      /\ h \notin T /\ h \notin ToSet(rest) /\ T \intersect ToSet(rest) = {}
      /\ Once(taken) /\ Once(rest)
  BY <1>1, <1>2, QueueSplit
<1>4. /\ run'[w] = h /\ \A u \in Workers \ {w} : run'[u] = run[u]
      /\ local'[w] = local[w] \o taken /\ \A u \in Workers \ {w} : local'[u] = local[u]
  BY <1>2 DEF Typed
<1>5. T \subseteq VThreads
  BY <1>3, LenProperties DEF ToSet
<1> HIDE DEF h, taken
<1>6. k \in Kinds /\ k \in Spots /\ \A u \in Workers : u \in Spots /\ "local" \in Kinds
  BY DEF Kinds, Spots
<1>7. \A u \in T \union {h} : At(u, k, k)
  BY <1>3, <1>5 DEF At
<1>8. \A u \in T \union {h} : /\ \A l \in Kinds, x \in Spots : At(u, l, x) => l = k /\ x = k
                              /\ u \in VThreads
  BY <1>3, <1>5, <1>6, <1>7, Holds
<1>9. /\ local[w] \in Seq(VThreads) /\ Once(local[w])
      /\ \A u \in T \union {h} : \A x \in Workers : u \notin ToSet(local[x])
      /\ \A u \in T \union {h} : k = "global" => u \notin ToSet(priority)
      /\ \A u \in T \union {h} : k = "priority" => u \notin ToSet(global)
  <2>1. \A u \in T \union {h} : \A x \in Workers : ~At(u, "local", x)
    BY <1>6, <1>8
  <2>2. \A u \in T \union {h} : \A l \in {"global", "priority"} : l # k => ~At(u, l, l)
    BY <1>8 DEF Kinds, Spots
  <2> QED
    BY <2>1, <2>2 DEF At, Typed, Singles
<1>10. /\ local'[w] \in Seq(VThreads)
       /\ ToSet(local'[w]) = ToSet(local[w]) \union T
       /\ Once(local'[w])
  <2>1. ToSet(local[w]) \intersect T = {}
    BY <1>9
  <2> QED
    BY <1>3, <1>4, <1>9, <2>1, QueueConcat
<1>11. Typed'
  <2>1. local' \in [Workers -> Seq(VThreads)] /\ run' \in [Workers -> VThreads \union {NoVThread}]
    BY <1>2, <1>3, <1>4, <1>10 DEF Typed
  <2>2. pc' \in [Workers -> Idle \union Busy]
    BY DEF Typed, Busy
  <2> QED
    BY <1>3, <2>1, <2>2 DEF Typed
<1>12. Singles'
  BY <1>3, <1>4, <1>10 DEF Singles
<1>13. Apart' /\ Housed'
  <2>1. \A u \in VThreads :
          /\ u \in ToSet(global') <=> u \in ToSet(global) /\ u \notin T \union {h}
          /\ u \in ToSet(priority') <=> u \in ToSet(priority) /\ u \notin T \union {h}
    BY <1>3, <1>9
  <2>2. \A u \in VThreads : \A x \in Workers :
          u \in ToSet(local'[x]) <=> \/ u \in ToSet(local[x]) /\ u \notin T \union {h}
                                     \/ x = w /\ u \in T
    BY <1>4, <1>9, <1>10
  <2>3. run' = [run EXCEPT ![w] = h]
    BY <1>2 DEF h
  <2>4. h \in VThreads /\ T \in SUBSET VThreads /\ h \notin T /\ k \in Spots
    BY <1>3, <1>5, <1>6
  <2>5. TakesOff(w, h, T)
    BY <2>1, <2>2, <2>3 DEF TakesOff
  <2>6. AllAt(T \union {h}, k, k)
    BY <1>7 DEF AllAt
  <2>7. PlaceInv
    OBVIOUS
  <2> HIDE DEF T, PlaceInv
  <2> QED
    BY <2>4, <2>5, <2>6, <2>7, Taken
<1> QED
  <2>1. run'[w] # NoVThread
    BY <1>3, <1>4, SchedulerAssumption
  <2> QED
    BY <1>4, <1>11, <1>12, <1>13, <2>1, TakenKeeps

LEMMA QueueTail ==
  ASSUME NEW S, NEW s \in Seq(S), s # <<>>, Once(s)
  PROVE  /\ Head(s) \in S /\ Tail(s) \in Seq(S)
         /\ ToSet(s) = {Head(s)} \union ToSet(Tail(s))
         /\ Head(s) \notin ToSet(Tail(s)) /\ Once(Tail(s))
<1>1. 1 \in 1 .. Len(s)
  BY EmptySeq, LenProperties
<1>2. SubSeq(s, 2, 1) = <<>> /\ SubSeq(s, 1 + 1, Len(s)) = Tail(s)
  BY <1>1, SubSeqEmpty, TailIsSubSeq
<1>3. LET taken == SubSeq(s, 2, 1)
          rest == SubSeq(s, 1 + 1, Len(s))
      IN /\ Head(s) \in S /\ taken \in Seq(S) /\ rest \in Seq(S)
         /\ ToSet(s) = {Head(s)} \union ToSet(taken) \union ToSet(rest)
         /\ Head(s) \notin ToSet(taken) /\ Head(s) \notin ToSet(rest)
         /\ ToSet(taken) \intersect ToSet(rest) = {}
         /\ Once(taken) /\ Once(rest)
  BY <1>1, QueueSplit
<1> QED
  BY <1>2, <1>3, QueueEmpty

\* From its own queue.
LEMMA OwnKeeps ==
  ASSUME PlaceInv, NEW w \in Workers, run[w] = NoVThread, local[w] # <<>>,
         run' = [run EXCEPT ![w] = Head(local[w])],
         local' = [local EXCEPT ![w] = Tail(local[w])],
         pc' = [pc EXCEPT ![w] = "picked"],
         UNCHANGED <<global, priority, parkedIo, timers, expired, parked, live, vpc, chan, reason,
                     gcState>>
  PROVE  PlaceInv'
<1>1. Typed /\ Singles
  BY DEF PlaceInv
<1> DEFINE h == Head(local[w])
           q == local[w]
<1>2. q \in Seq(VThreads) /\ Once(q)
  BY <1>1 DEF Typed, Singles
<1>3. /\ h \in VThreads /\ Tail(q) \in Seq(VThreads)
      /\ ToSet(q) = {h} \union ToSet(Tail(q))
      /\ h \notin ToSet(Tail(q)) /\ Once(Tail(q))
  BY <1>2, QueueTail
<1>4. /\ run'[w] = h /\ \A u \in Workers \ {w} : run'[u] = run[u]
      /\ local'[w] = Tail(q) /\ \A u \in Workers \ {w} : local'[u] = local[u]
  BY <1>1 DEF Typed
<1> HIDE DEF h, q
<1>5. "local" \in Kinds /\ "local" \in {"global", "priority", "local"}
      /\ \A u \in Workers : u \in Spots
      /\ {"global", "priority"} \subseteq Kinds /\ {"global", "priority"} \subseteq Spots
  BY DEF Kinds, Spots
<1>6. At(h, "local", w)
  BY <1>3 DEF At, q
<1>7. \A l \in Kinds, x \in Spots : At(h, l, x) => l = "local" /\ x = w
  BY <1>3, <1>5, <1>6, Holds
<1>8. /\ h \notin ToSet(global) /\ h \notin ToSet(priority)
      /\ \A x \in Workers \ {w} : h \notin ToSet(local[x])
  <2>1. ~At(h, "global", "global") /\ ~At(h, "priority", "priority")
    BY <1>5, <1>7
  <2>2. \A x \in Workers \ {w} : ~At(h, "local", x)
    BY <1>5, <1>7
  <2> QED
    BY <2>1, <2>2 DEF At
<1>9. TakesOff(w, h, {})
  <2>1. run' = [run EXCEPT ![w] = h]
    BY DEF h
  <2>2. \A u \in VThreads : \A x \in Workers :
          u \in ToSet(local'[x]) <=> u \in ToSet(local[x]) /\ u # h
    BY <1>3, <1>4, <1>8 DEF q
  <2> QED
    BY <1>8, <2>1, <2>2 DEF TakesOff
<1>10. AllAt({} \union {h}, "local", w)
  BY <1>6 DEF AllAt
<1>11. Apart' /\ Housed'
  <2>1. {} \in SUBSET VThreads /\ h \notin {}
    OBVIOUS
  <2> QED
    BY <1>3, <1>5, <1>9, <1>10, <2>1, Taken
<1>12. Typed'
  <2>1. local' \in [Workers -> Seq(VThreads)] /\ run' \in [Workers -> VThreads \union {NoVThread}]
    BY <1>1, <1>3 DEF Typed, h, q
  <2> QED
    BY <1>1, <2>1 DEF Typed, Busy
<1>13. Singles'
  BY <1>1, <1>3, <1>4 DEF Singles
<1> QED
  <2>1. run'[w] # NoVThread
    BY <1>3, <1>4, SchedulerAssumption
  <2> QED
    BY <1>4, <1>11, <1>12, <1>13, <2>1, TakenKeeps

\* From the queue of another worker u; its own is empty.
LEMMA StealKeeps ==
  ASSUME PlaceInv, NEW w \in Workers, run[w] = NoVThread, local[w] = <<>>,
         NEW u \in Workers \ {w}, NEW n \in 1 .. Len(local[u]),
         run' = [run EXCEPT ![w] = Head(local[u])],
         local' = [local EXCEPT ![w] = SubSeq(local[u], 2, n),
                                ![u] = SubSeq(@, n + 1, Len(@))],
         pc' = [pc EXCEPT ![w] = "picked"],
         UNCHANGED <<global, priority, parkedIo, timers, expired, parked, live, vpc, chan, reason,
                     gcState>>
  PROVE  PlaceInv'
<1>1. Typed /\ Singles
  BY DEF PlaceInv
<1> DEFINE q == local[u]
           h == Head(q)
           taken == SubSeq(q, 2, n)
           rest == SubSeq(q, n + 1, Len(q))
           T == ToSet(taken)
<1>2. q \in Seq(VThreads) /\ Once(q)
  BY <1>1 DEF Typed, Singles
<1>3. /\ h \in VThreads /\ taken \in Seq(VThreads) /\ rest \in Seq(VThreads)
      /\ ToSet(q) = {h} \union T \union ToSet(rest)
      /\ h \notin T /\ h \notin ToSet(rest) /\ T \intersect ToSet(rest) = {}
      /\ Once(taken) /\ Once(rest)
  BY <1>2, QueueSplit
<1>4. /\ run'[w] = h /\ \A x \in Workers \ {w} : run'[x] = run[x]
      /\ local'[w] = taken /\ local'[u] = rest
      /\ \A x \in Workers \ {w, u} : local'[x] = local[x]
  BY <1>1 DEF Typed
<1>5. T \subseteq VThreads
  BY <1>3, LenProperties DEF ToSet
<1>6. local[u] # <<>>
  BY <1>2, EmptySeq, LenProperties
<1>7. run' = [run EXCEPT ![w] = h]
  OBVIOUS
<1> HIDE DEF h, taken, rest, q
<1>8. "local" \in Kinds /\ "local" \in {"global", "priority", "local"}
      /\ \A x \in Workers : x \in Spots
      /\ {"global", "priority"} \subseteq Kinds /\ {"global", "priority"} \subseteq Spots
  BY DEF Kinds, Spots
<1>9. AllAt(T \union {h}, "local", u)
  BY <1>3 DEF At, q, AllAt
<1>10. \A v \in T \union {h} : /\ v \in VThreads
         /\ \A l \in Kinds, x \in Spots : At(v, l, x) => l = "local" /\ x = u
  BY <1>3, <1>5, <1>8, <1>9, Holds DEF AllAt
<1>11. \A v \in T \union {h} :
         /\ v \notin ToSet(global) /\ v \notin ToSet(priority)
         /\ \A x \in Workers \ {u} : v \notin ToSet(local[x])
  <2>1. \A v \in T \union {h} : ~At(v, "global", "global") /\ ~At(v, "priority", "priority")
    BY <1>8, <1>10
  <2>2. \A v \in T \union {h} : \A x \in Workers \ {u} : ~At(v, "local", x)
    BY <1>8, <1>10
  <2> QED
    BY <2>1, <2>2 DEF At
<1>12. TakesOff(w, h, T)
  <2>1. \A v \in VThreads : \A x \in Workers :
          v \in ToSet(local'[x]) <=> \/ v \in ToSet(local[x]) /\ v \notin T \union {h}
                                     \/ x = w /\ v \in T
    <3> SUFFICES ASSUME NEW v \in VThreads, NEW x \in Workers
                 PROVE  v \in ToSet(local'[x]) <=> \/ v \in ToSet(local[x]) /\ v \notin T \union {h}
                                                   \/ x = w /\ v \in T
      OBVIOUS
    <3>1. CASE x = w
      BY <1>4, <3>1, QueueEmpty
    <3>2. CASE x = u
      BY <1>3, <1>4, <3>2 DEF q
    <3>3. CASE x \notin {w, u}
      BY <1>4, <1>11, <3>3
    <3> QED
      BY <3>1, <3>2, <3>3
  <2> QED
    BY <1>7, <1>11, <2>1 DEF TakesOff
<1>13. Apart' /\ Housed'
  <2>1. T \in SUBSET VThreads /\ u \in Spots
    BY <1>5, <1>8
  <2> HIDE DEF T
  <2> QED
    BY <1>3, <1>8, <1>9, <1>12, <2>1, Taken
<1>14. Typed'
  <2>1. local' \in [Workers -> Seq(VThreads)] /\ run' \in [Workers -> VThreads \union {NoVThread}]
    <3>1. local' = [local EXCEPT ![w] = taken, ![u] = rest]
      BY DEF taken, rest, q
    <3>2. local \in [Workers -> Seq(VThreads)] /\ run \in [Workers -> VThreads \union {NoVThread}]
      BY <1>1 DEF Typed
    <3> QED
      BY ONLY <1>3, <1>7, <3>1, <3>2
  <2> QED
    BY <1>1, <2>1 DEF Typed, Busy
<1>15. Singles'
  <2>1. \A x \in Workers : Once(local'[x])
    BY <1>1, <1>3, <1>4 DEF Singles
  <2> QED
    BY <1>1, <2>1 DEF Singles
<1> QED
  <2>1. run'[w] # NoVThread
    BY <1>3, <1>4, SchedulerAssumption
  <2>2. \A x \in Workers \ {w} : local[x] = <<>> => local'[x] = <<>>
    BY <1>4, <1>6
  <2> QED
    BY <1>4, <1>13, <1>14, <1>15, <2>1, <2>2, TakenKeeps

\* It has found nothing.
LEMMA IdleKeeps ==
  ASSUME PlaceInv, NEW w \in Workers, run[w] = NoVThread, NEW next \in Idle,
         next \in {"seekGlobal", "seekOthers"} => local[w] = <<>>,
         pc' = [pc EXCEPT ![w] = next],
         UNCHANGED <<global, priority, local, run, parkedIo, timers, expired, parked, live, vpc,
                     chan, reason, gcState>>
  PROVE  PlaceInv'
<1>1. Singles' /\ Apart' /\ Housed'
  BY PlacesStay
<1>2. Typed'
  BY DEF PlaceInv, Typed
<1>3. pc'[w] = next /\ \A u \in Workers \ {w} : pc'[u] = pc[u]
  BY DEF PlaceInv, Typed
<1>4. WorkerInv'
  BY <1>3 DEF PlaceInv, WorkerInv, Idle, Busy
<1>5. ThreadInv'
  BY DEF PlaceInv, ThreadInv
<1> QED
  BY <1>1, <1>2, <1>4, <1>5 DEF PlaceInv

LEMMA PickKeeps ==
  ASSUME PlaceInv, NEW w \in Workers, Pick(w)
  PROVE  PlaceInv'
<1>1. pc[w] \in Idle
  BY DEF Pick, Seek, SeekGlobal, SeekOthers, Idle
<1>2. run[w] = NoVThread
  BY <1>1 DEF PlaceInv, WorkerInv
<1>3. Typed /\ NoVThread \notin VThreads
  BY SchedulerAssumption DEF PlaceInv
<1>4. UNCHANGED <<parkedIo, timers, expired, parked, live, vpc, chan, reason, gcState>>
  BY DEF Pick, timerVars, ioVars, threadVars, parkVars
<1>5. \A q \in Seq(VThreads) : \A rest : TakeBatch(w, q, rest) => run'[w] # NoVThread
  BY <1>3, ElementOfSeq DEF TakeBatch, Typed
<1>6. CASE Seek(w)
  <2>1. pc' = [pc EXCEPT ![w] = IF run'[w] = NoVThread THEN "seekGlobal" ELSE "picked"]
    BY <1>6 DEF Seek
  <2>2. CASE TakeBatch(w, global, global') /\ UNCHANGED priority
    <3>1. run'[w] # NoVThread
      BY <1>3, <1>5, <2>2 DEF Typed
    <3>2. pc' = [pc EXCEPT ![w] = "picked"]
      BY <2>1, <3>1
    <3> QED
      BY <1>2, <1>4, <2>2, <3>2, BatchKeeps
  <2>3. CASE /\ local[w] # <<>>
             /\ run' = [run EXCEPT ![w] = Head(local[w])]
             /\ local' = [local EXCEPT ![w] = Tail(local[w])]
             /\ UNCHANGED <<global, priority>>
    <3>1. run'[w] # NoVThread
      BY <1>3, <2>3, HeadTailProperties DEF Typed
    <3>2. pc' = [pc EXCEPT ![w] = "picked"]
      BY <2>1, <3>1
    <3> QED
      BY <1>2, <1>4, <2>3, <3>2, OwnKeeps
  <2>4. CASE TakeBatch(w, priority, priority') /\ UNCHANGED global
    <3>1. run'[w] # NoVThread
      BY <1>3, <1>5, <2>4 DEF Typed
    <3>2. pc' = [pc EXCEPT ![w] = "picked"]
      BY <2>1, <3>1
    <3> QED
      BY <1>2, <1>4, <2>4, <3>2, BatchKeeps
  <2>5. CASE local[w] = <<>> /\ UNCHANGED <<queueVars, run>>
    <3>1. pc' = [pc EXCEPT ![w] = "seekGlobal"] /\ "seekGlobal" \in Idle
      BY <1>2, <2>1, <2>5 DEF Idle
    <3> QED
      BY <1>2, <1>4, <2>5, <3>1, IdleKeeps DEF queueVars
  <2> QED
    BY <1>6, <2>2, <2>3, <2>4, <2>5 DEF Seek
<1>7. CASE SeekGlobal(w)
  <2>1. pc' = [pc EXCEPT ![w] = IF run'[w] = NoVThread THEN "seekOthers" ELSE "picked"]
    BY <1>7 DEF SeekGlobal
  <2>2. CASE TakeBatch(w, global, global')
    <3>1. run'[w] # NoVThread
      BY <1>3, <1>5, <2>2 DEF Typed
    <3>2. pc' = [pc EXCEPT ![w] = "picked"] /\ priority' = priority
      BY <1>7, <2>1, <3>1 DEF SeekGlobal
    <3> QED
      BY <1>2, <1>4, <2>2, <3>2, BatchKeeps
  <2>3. CASE UNCHANGED <<global, local, run>>
    <3>1. pc' = [pc EXCEPT ![w] = "seekOthers"] /\ "seekOthers" \in Idle /\ priority' = priority
      BY <1>2, <1>7, <2>1, <2>3 DEF Idle, SeekGlobal
    <3>2. local[w] = <<>>
      BY <1>7 DEF PlaceInv, WorkerInv, SeekGlobal
    <3> QED
      BY <1>2, <1>4, <2>3, <3>1, <3>2, IdleKeeps
  <2> QED
    BY <1>7, <2>2, <2>3 DEF SeekGlobal
<1>8. CASE SeekOthers(w)
  <2>1. pc' = [pc EXCEPT ![w] = IF run'[w] = NoVThread THEN "seek" ELSE "picked"]
        /\ UNCHANGED <<global, priority>>
    BY <1>8 DEF SeekOthers
  <2>2. local[w] = <<>>
    BY <1>8 DEF PlaceInv, WorkerInv, SeekOthers
  <2>3. ASSUME NEW u \in Workers \ {w}, NEW n \in 1 .. Len(local[u]),
               run' = [run EXCEPT ![w] = Head(local[u])],
               local' = [local EXCEPT ![w] = SubSeq(local[u], 2, n),
                                      ![u] = SubSeq(@, n + 1, Len(@))]
        PROVE  PlaceInv'
    <3>1. run'[w] # NoVThread
      <4>1. local[u] \in Seq(VThreads) /\ local[u] # <<>>
        BY <1>3, EmptySeq, LenProperties DEF Typed
      <4> QED
        BY <1>3, <2>3, <4>1, HeadTailProperties DEF Typed
    <3>2. pc' = [pc EXCEPT ![w] = "picked"]
      BY <2>1, <3>1
    <3> QED
      BY <1>2, <1>4, <2>1, <2>2, <2>3, <3>2, StealKeeps
  <2>4. CASE UNCHANGED <<local, run>>
    <3>1. pc' = [pc EXCEPT ![w] = "seek"] /\ "seek" \in Idle
      BY <1>2, <2>1, <2>4 DEF Idle
    <3> QED
      BY <1>2, <1>4, <2>1, <2>4, <3>1, IdleKeeps
  <2> QED
    BY <1>8, <2>3, <2>4 DEF SeekOthers
<1> QED
  BY <1>6, <1>7, <1>8 DEF Pick

-----------------------------------------------------------------------------
(* One thread goes from a container to another *)

\* No container but that of kind k and spot y has v, and the others have moved nowhere.
GoesTo(v, k, y) ==
  /\ UNCHANGED <<local, live>>
  /\ \A u \in VThreads \ {v} :
       /\ u \in ToSet(global') <=> u \in ToSet(global)
       /\ u \in ToSet(priority') <=> u \in ToSet(priority)
       /\ \A x \in Workers : run'[x] = u <=> run[x] = u
       /\ \A c \in Channels : parkedIo'[c] = u <=> parkedIo[c] = u
       /\ u \in timers' <=> u \in timers
       /\ u \in expired' <=> u \in expired
       /\ u \in parked' <=> u \in parked
  /\ \A x \in Workers : v \notin ToSet(local[x]) /\ run'[x] # v
  /\ v \in ToSet(global') <=> k = "global"
  /\ v \in ToSet(priority') <=> k = "priority"
  /\ \A c \in Channels : parkedIo'[c] = v <=> k = "io" /\ c = y
  /\ v \in timers' <=> k = "timers"
  /\ v \in expired' <=> k = "expired"
  /\ v \in parked' <=> k = "parked"
  /\ k \in {"global", "priority", "timers", "expired", "parked"} => y = k
  /\ k = "io" => y \in Channels

LEMMA Gone ==
  ASSUME PlaceInv, NEW v \in live, NEW k \in Kinds \ {"local", "run"}, NEW y \in Spots,
         GoesTo(v, k, y)
  PROVE  Apart' /\ Housed'
<1>1. v \in VThreads /\ Apart /\ Housed /\ live' = live
  BY DEF PlaceInv, Typed, GoesTo
<1>2. ASSUME NEW l \in Kinds, NEW x \in Spots
      PROVE  At(v, l, x)' <=> l = k /\ x = y
  <2>1. CASE l = "local" \/ l = "run"
    BY <2>1 DEF At, GoesTo
  <2>2. CASE l \in {"global", "priority", "timers", "expired", "parked"}
    BY <2>2 DEF At, GoesTo
  <2>3. CASE l = "io"
    BY <2>3 DEF At, GoesTo
  <2> QED
    BY <2>1, <2>2, <2>3 DEF Kinds
<1>3. ASSUME NEW u \in VThreads \ {v}, NEW l \in Kinds, NEW x \in Spots
      PROVE  At(u, l, x)' <=> At(u, l, x)
  <2>1. CASE l \in {"local", "run", "io"}
    BY <2>1 DEF At, GoesTo
  <2>2. CASE l \in {"global", "priority", "timers", "expired", "parked"}
    BY <2>2 DEF At, GoesTo
  <2> QED
    BY <2>1, <2>2 DEF Kinds
<1>4. Apart'
  BY <1>1, <1>2, <1>3 DEF Apart
<1>5. Housed'
  <2> SUFFICES ASSUME NEW u \in VThreads
               PROVE  u \in live <=> \E l \in Kinds, x \in Spots : At(u, l, x)'
    BY <1>1 DEF Housed
  <2>1. CASE u = v
    BY <1>2, <2>1
  <2>2. CASE u # v
    BY <1>1, <1>3, <2>2 DEF Housed
  <2> QED
    BY <2>1, <2>2
<1> QED
  BY <1>4, <1>5

\* A worker gives up its thread.
LEMMA RoutedKeeps ==
  ASSUME PlaceInv, Typed', Singles', Apart', Housed', NEW w \in Workers, run[w] # NoVThread,
         run' = [run EXCEPT ![w] = NoVThread], pc' = [pc EXCEPT ![w] = "seek"],
         \A u \in VThreads \ {run[w]} : reason'[u] = reason[u],
         UNCHANGED <<local, vpc, chan>>, live' \subseteq live,
         \A c \in Channels : parkedIo'[c] # parkedIo[c] /\ parkedIo'[c] # NoVThread =>
           parkedIo'[c] = run[w] /\ vpc[run[w]] = "ioTry" /\ chan[run[w]] = c
  PROVE  PlaceInv'
<1>1. WorkerInv'
  <2> SUFFICES ASSUME NEW u \in Workers
               PROVE  /\ run'[u] = NoVThread <=> pc'[u] \in Idle
                      /\ pc'[u] \in {"seekGlobal", "seekOthers"} => local[u] = <<>>
                      /\ pc'[u] \in Busy \ {"picked"} => vpc[run'[u]] \notin {"new", "spawned"}
                      /\ pc'[u] \in {"switched", "route"} /\ reason'[run'[u]] = "io" =>
                           vpc[run'[u]] = "ioTry"
    BY DEF WorkerInv
  <2>1. CASE u = w
    <3>1. pc'[u] = "seek" /\ run'[u] = NoVThread
      BY <2>1 DEF PlaceInv, Typed
    <3> QED
      BY <3>1 DEF Idle, Busy
  <2>2. CASE u # w
    <3>1. pc'[u] = pc[u] /\ run'[u] = run[u] /\ WorkerInv
      BY <2>2 DEF PlaceInv, Typed
    <3>2. run[u] # NoVThread => reason'[run[u]] = reason[run[u]]
      BY <2>2, HoldsRun DEF PlaceInv, Typed
    <3>3. pc[u] \in {"switched", "route"} => run[u] # NoVThread
      BY <3>1 DEF WorkerInv, Idle
    <3> QED
      BY <3>1, <3>2, <3>3 DEF WorkerInv
  <2> QED
    BY <2>1, <2>2
<1>2. ThreadInv'
  BY DEF PlaceInv, ThreadInv
<1> QED
  BY <1>1, <1>2 DEF PlaceInv

LEMMA RouteFacts ==
  ASSUME PlaceInv, NEW w \in Workers, NEW why, Routed(w, why)
  PROVE  /\ run[w] # NoVThread /\ run[w] \in VThreads /\ run[w] \in live
         /\ run' = [run EXCEPT ![w] = NoVThread] /\ pc' = [pc EXCEPT ![w] = "seek"]
         /\ reason' \in [VThreads -> {"yield", "sleep", "park", "io", "done"}]
         /\ \A u \in VThreads \ {run[w]} : reason'[u] = reason[u]
         /\ \A u \in VThreads : \A x \in Workers :
              run'[x] = u <=> run[x] = u /\ u # run[w]
         /\ \A x \in Workers : run[w] \notin ToSet(local[x]) /\ run'[x] # run[w]
         /\ UNCHANGED <<vpc, chan, gcState, live>>
         /\ run' \in [Workers -> VThreads \union {NoVThread}]
         /\ pc' \in [Workers -> Idle \union Busy]
<1>1. pc[w] \in Busy /\ Typed
  BY DEF Routed, Busy, PlaceInv
<1>2. run[w] # NoVThread /\ run[w] \in VThreads
  BY <1>1, BusyWorker
<1>3. /\ run[w] \in live /\ \A u \in Workers : u # w => run[u] # run[w]
      /\ \A x \in Workers : run[w] \notin ToSet(local[x])
  BY <1>2, HoldsRun
<1>4. run'[w] = NoVThread /\ \A x \in Workers \ {w} : run'[x] = run[x]
  BY <1>1 DEF Routed, Typed
<1>5. /\ run' = [run EXCEPT ![w] = NoVThread] /\ pc' = [pc EXCEPT ![w] = "seek"]
      /\ reason' = [reason EXCEPT ![run[w]] = "yield"]
      /\ UNCHANGED <<vpc, chan, gcState, live>>
  BY DEF Routed
<1>6. /\ run' \in [Workers -> VThreads \union {NoVThread}]
      /\ pc' \in [Workers -> Idle \union Busy]
      /\ reason' \in [VThreads -> {"yield", "sleep", "park", "io", "done"}]
      /\ \A u \in VThreads \ {run[w]} : reason'[u] = reason[u]
  BY <1>1, <1>5 DEF Typed, Idle
<1>7. \A u \in VThreads : \A x \in Workers : run'[x] = u <=> run[x] = u /\ u # run[w]
  BY <1>2, <1>3, <1>4, SchedulerAssumption
<1>8. \A x \in Workers : run'[x] # run[w]
  BY <1>2, <1>3, <1>4
<1> QED
  BY <1>2, <1>3, <1>5, <1>6, <1>7, <1>8

\* The slot of the table that a worker fills is free: another thread in it would use
\* the channel too.
LEMMA FreeSlot ==
  ASSUME PlaceInv, OneUser, NEW w \in Workers, Routed(w, "io")
  PROVE  /\ vpc[run[w]] = "ioTry" /\ chan[run[w]] \in Channels
         /\ parkedIo[chan[run[w]]] = NoVThread
<1> DEFINE v == run[w]
           c == chan[v]
<1>1. v \in VThreads /\ v # NoVThread /\ \A d \in Channels : parkedIo[d] # v
  BY RouteFacts, HoldsRun
<1>2. vpc[v] = "ioTry" /\ <<v, c>> \in Uses
  BY <1>1 DEF PlaceInv, WorkerInv, ThreadInv, Routed
<1>3. c \in Channels
  BY <1>2, SchedulerAssumption
<1>4. parkedIo[c] = NoVThread
  <2> SUFFICES ASSUME parkedIo[c] # NoVThread PROVE FALSE
    OBVIOUS
  <2>1. parkedIo[c] \in VThreads /\ vpc[parkedIo[c]] = "ioTry" /\ chan[parkedIo[c]] = c
    BY <1>3 DEF PlaceInv, ThreadInv, Typed
  <2>2. <<parkedIo[c], c>> \in Uses
    BY <2>1 DEF PlaceInv, ThreadInv
  <2>3. parkedIo[c] = v
    BY <1>2, <2>2 DEF OneUser
  <2> QED
    BY <1>1, <1>3, <2>3
<1> QED
  BY <1>2, <1>3, <1>4

LEMMA RouteKeeps ==
  ASSUME PlaceInv, OneUser, NEW w \in Workers,
         RouteYield(w) \/ RouteSleep(w) \/ RouteIo(w) \/ RoutePark(w)
  PROVE  PlaceInv'
<1> DEFINE v == run[w]
<1>1. PICK why : Routed(w, why)
  BY DEF RouteYield, RouteSleep, RouteIo, RoutePark
<1>2. /\ v # NoVThread /\ v \in VThreads /\ v \in live
      /\ run' = [run EXCEPT ![w] = NoVThread] /\ pc' = [pc EXCEPT ![w] = "seek"]
      /\ reason' \in [VThreads -> {"yield", "sleep", "park", "io", "done"}]
      /\ \A u \in VThreads \ {v} : reason'[u] = reason[u]
      /\ \A u \in VThreads : \A x \in Workers : run'[x] = u <=> run[x] = u /\ u # v
      /\ \A x \in Workers : v \notin ToSet(local[x]) /\ run'[x] # v
      /\ UNCHANGED <<vpc, chan, gcState, live>>
      /\ run' \in [Workers -> VThreads \union {NoVThread}]
      /\ pc' \in [Workers -> Idle \union Busy]
  BY <1>1, RouteFacts
<1>3. /\ v \notin ToSet(global) /\ v \notin ToSet(priority)
      /\ \A c \in Channels : parkedIo[c] # v
      /\ v \notin timers /\ v \notin expired /\ v \notin parked
  BY <1>2, HoldsRun
<1>4. Typed /\ Singles
  BY DEF PlaceInv
<1>5. \A q \in Seq(VThreads) : v \notin ToSet(q) /\ Once(q) =>
        /\ Append(q, v) \in Seq(VThreads)
        /\ ToSet(Append(q, v)) = ToSet(q) \union {v}
        /\ Once(Append(q, v))
  BY <1>2, QueueAppend
<1> HIDE DEF v
<1>6. {"global", "priority", "timers", "io", "parked"} \subseteq Kinds \ {"local", "run"}
      /\ Kinds \subseteq Spots /\ Channels \subseteq Spots
  BY DEF Kinds, Spots
<1>7. CASE global' = Append(global, v)
           /\ UNCHANGED <<priority, local, timers, expired, parkedIo, parked>>
  <2>1. /\ global' \in Seq(VThreads) /\ Once(global')
        /\ ToSet(global') = ToSet(global) \union {v}
    BY <1>3, <1>4, <1>5, <1>7 DEF Typed, Singles
  <2>2. GoesTo(v, "global", "global")
    BY <1>2, <1>3, <1>7, <2>1 DEF GoesTo
  <2>3. Apart' /\ Housed'
    BY <1>2, <1>6, <2>2, Gone
  <2>4. Typed' /\ Singles'
    BY <1>2, <1>4, <1>7, <2>1 DEF Typed, Singles
  <2> QED
    BY <1>2, <1>7, <2>3, <2>4, RoutedKeeps DEF v
<1>8. CASE timers' = timers \union {v}
           /\ UNCHANGED <<global, priority, local, expired, parkedIo, parked>>
  <2>1. GoesTo(v, "timers", "timers")
    BY <1>2, <1>3, <1>8 DEF GoesTo
  <2>2. Apart' /\ Housed'
    BY <1>2, <1>6, <2>1, Gone
  <2>3. Typed' /\ Singles'
    BY <1>2, <1>4, <1>8 DEF Typed, Singles
  <2> QED
    BY <1>2, <1>8, <2>2, <2>3, RoutedKeeps DEF v
<1>9. CASE parked' = parked \union {v}
           /\ UNCHANGED <<global, priority, local, timers, expired, parkedIo>>
  <2>1. GoesTo(v, "parked", "parked")
    BY <1>2, <1>3, <1>9 DEF GoesTo
  <2>2. Apart' /\ Housed'
    BY <1>2, <1>6, <2>1, Gone
  <2>3. Typed' /\ Singles'
    BY <1>2, <1>4, <1>9 DEF Typed, Singles
  <2> QED
    BY <1>2, <1>9, <2>2, <2>3, RoutedKeeps DEF v
<1>10. CASE priority' = Append(priority, v)
            /\ UNCHANGED <<global, local, timers, expired, parkedIo, parked>>
  <2>1. /\ priority' \in Seq(VThreads) /\ Once(priority')
        /\ ToSet(priority') = ToSet(priority) \union {v}
    BY <1>3, <1>4, <1>5, <1>10 DEF Typed, Singles
  <2>2. GoesTo(v, "priority", "priority")
    BY <1>2, <1>3, <1>10, <2>1 DEF GoesTo
  <2>3. Apart' /\ Housed'
    BY <1>2, <1>6, <2>2, Gone
  <2>4. Typed' /\ Singles'
    BY <1>2, <1>4, <1>10, <2>1 DEF Typed, Singles
  <2> QED
    BY <1>2, <1>10, <2>3, <2>4, RoutedKeeps DEF v
<1>11. CASE /\ Routed(w, "io")
            /\ parkedIo' = [parkedIo EXCEPT ![chan[v]] = v]
            /\ UNCHANGED <<global, priority, local, timers, expired, parked>>
  <2> DEFINE c == chan[v]
  <2>1. vpc[v] = "ioTry" /\ c \in Channels /\ parkedIo[c] = NoVThread
    BY <1>11, FreeSlot DEF v
  <2>2. /\ parkedIo' \in [Channels -> VThreads \union {NoVThread}]
        /\ parkedIo'[c] = v /\ \A d \in Channels \ {c} : parkedIo'[d] = parkedIo[d]
    BY <1>2, <1>4, <1>11, <2>1 DEF Typed
  <2>3. GoesTo(v, "io", c)
    <3>1. \A u \in VThreads \ {v} : \A d \in Channels : parkedIo'[d] = u <=> parkedIo[d] = u
      BY <2>1, <2>2, SchedulerAssumption
    <3>2. \A d \in Channels : parkedIo'[d] = v <=> d = c
      BY <1>3, <2>2
    <3> HIDE DEF c
    <3> QED
      BY <1>2, <1>3, <1>11, <2>1, <3>1, <3>2 DEF GoesTo
  <2>4. Apart' /\ Housed'
    BY <1>2, <1>6, <2>1, <2>3, Gone
  <2>5. Typed' /\ Singles'
    BY <1>2, <1>4, <1>11, <2>2 DEF Typed, Singles
  <2>6. \A d \in Channels : parkedIo'[d] # parkedIo[d] /\ parkedIo'[d] # NoVThread =>
          parkedIo'[d] = v /\ vpc[v] = "ioTry" /\ chan[v] = d
    BY <2>1, <2>2
  <2> HIDE DEF c
  <2> QED
    BY <1>2, <1>11, <2>4, <2>5, <2>6, RoutedKeeps DEF v
<1>12. CASE RouteYield(w)
  BY <1>7, <1>12 DEF RouteYield, v, timerVars, ioVars, parkVars
<1>13. CASE RouteSleep(w)
  BY <1>8, <1>13 DEF RouteSleep, v, queueVars, ioVars, parkVars
<1>14. CASE RoutePark(w)
  BY <1>7, <1>9, <1>14 DEF RoutePark, RouteConsumes, RouteParks, v, timerVars, ioVars
<1>15. CASE RouteIo(w)
  BY <1>10, <1>11, <1>15 DEF RouteIo, v, timerVars, parkVars
<1> QED
  BY <1>12, <1>13, <1>14, <1>15

\* The thread of the worker is gone.
LEMMA EndKeeps ==
  ASSUME PlaceInv, NEW w \in Workers, EndThread(w)
  PROVE  PlaceInv'
<1>1. pc[w] \in Busy /\ Typed /\ Apart /\ Housed
  BY DEF EndThread, Busy, PlaceInv
<1>2. PICK v \in VThreads : v = run[w] /\ v # NoVThread
  BY <1>1, BusyWorker
<1>3. /\ v \in live
      /\ v \notin ToSet(global) /\ v \notin ToSet(priority)
      /\ \A u \in Workers : v \notin ToSet(local[u]) /\ (u # w => run[u] # v)
      /\ \A c \in Channels : parkedIo[c] # v
      /\ v \notin timers /\ v \notin expired /\ v \notin parked
  BY <1>2, HoldsRun
<1>4. /\ run' = [run EXCEPT ![w] = NoVThread] /\ pc' = [pc EXCEPT ![w] = "seek"]
      /\ live' = live \ {v}
      /\ UNCHANGED <<global, priority, local, timers, expired, parkedIo, parked, vpc, chan,
                     reason, gcState>>
  BY <1>2 DEF EndThread, queueVars, timerVars, ioVars, parkVars
<1>5. \A x \in Workers : run'[x] = IF x = w THEN NoVThread ELSE run[x]
  BY <1>1, <1>4 DEF Typed
<1>6. \A u \in VThreads : \A x \in Workers : run'[x] = u <=> run[x] = u /\ u # v
  BY <1>2, <1>3, <1>5, SchedulerAssumption
<1>7. ASSUME NEW u \in VThreads \ {v}, NEW k \in Kinds, NEW x \in Spots
      PROVE  At(u, k, x)' <=> At(u, k, x)
  BY <1>4, <1>6 DEF At
<1>8. ASSUME NEW k \in Kinds, NEW x \in Spots PROVE ~At(v, k, x)'
  BY <1>3, <1>4, <1>6 DEF At
<1>9. Apart'
  BY <1>1, <1>7, <1>8 DEF Apart
<1>10. Housed'
  <2> SUFFICES ASSUME NEW u \in VThreads
               PROVE  u \in live' <=> \E k \in Kinds, x \in Spots : At(u, k, x)'
    BY DEF Housed
  <2>1. CASE u = v
    BY <1>4, <1>8, <2>1
  <2>2. CASE u # v
    BY <1>1, <1>4, <1>7, <2>2 DEF Housed
  <2> QED
    BY <2>1, <2>2
<1>11. Typed'
  BY <1>1, <1>4 DEF Typed, Idle
<1>12. Singles'
  BY <1>4 DEF PlaceInv, Singles
<1> QED
  BY <1>2, <1>4, <1>9, <1>10, <1>11, <1>12, RoutedKeeps

-----------------------------------------------------------------------------
(* The program, the netpoller and the timers *)

LEMMA OutsideKeeps ==
  ASSUME PlaceInv, Typed', Singles', Apart', Housed',
         UNCHANGED <<pc, run, local, vpc, chan, reason, live>>,
         \A c \in Channels : parkedIo'[c] \in {parkedIo[c], NoVThread}
  PROVE  PlaceInv'
<1>1. WorkerInv'
  BY DEF PlaceInv, WorkerInv
<1>2. ThreadInv'
  BY DEF PlaceInv, ThreadInv
<1> QED
  BY <1>1, <1>2 DEF PlaceInv

LEMMA SpawnKeeps ==
  ASSUME PlaceInv, NEW v \in VThreads, Spawn(v)
  PROVE  PlaceInv'
<1>1. /\ vpc[v] = "new" /\ vpc' = [vpc EXCEPT ![v] = "spawned"]
      /\ live' = live \union {v} /\ global' = Append(global, v)
      /\ UNCHANGED <<priority, local, timers, expired, parkedIo, parked, run, pc, chan, reason,
                     gcState>>
  BY DEF Spawn, timerVars, ioVars, workerVars, parkVars
<1>2. Typed /\ Singles /\ Apart /\ Housed /\ WorkerInv /\ ThreadInv
  BY DEF PlaceInv
<1>3. v \notin live /\ \A k \in Kinds, x \in Spots : ~At(v, k, x)
  BY <1>1, <1>2 DEF ThreadInv, Housed
<1>4. "global" \in Kinds /\ "global" \in Spots
  BY DEF Kinds, Spots
<1>5. v \notin ToSet(global)
  BY <1>3, <1>4 DEF At
<1>6. /\ global' \in Seq(VThreads) /\ Once(global')
      /\ ToSet(global') = ToSet(global) \union {v}
  BY <1>1, <1>2, <1>5, QueueAppend DEF Typed, Singles
<1>7. ASSUME NEW u \in VThreads \ {v}, NEW k \in Kinds, NEW x \in Spots
      PROVE  At(u, k, x)' <=> At(u, k, x)
  BY <1>1, <1>6 DEF At
<1>8. ASSUME NEW k \in Kinds, NEW x \in Spots
      PROVE  At(v, k, x)' <=> k = "global" /\ x = "global"
  <2>1. CASE k = "global"
    BY <1>6, <2>1 DEF At
  <2>2. CASE k # "global"
    BY <1>1, <1>3, <2>2 DEF At
  <2> QED
    BY <2>1, <2>2
<1>9. Apart'
  BY <1>2, <1>7, <1>8 DEF Apart
<1>10. Housed'
  <2> SUFFICES ASSUME NEW u \in VThreads
               PROVE  u \in live' <=> \E k \in Kinds, x \in Spots : At(u, k, x)'
    BY DEF Housed
  <2>1. CASE u = v
    BY <1>1, <1>4, <1>8, <2>1
  <2>2. CASE u # v
    BY <1>1, <1>2, <1>7, <2>2 DEF Housed
  <2> QED
    BY <2>1, <2>2
<1>11. Typed' /\ Singles'
  BY <1>1, <1>2, <1>6 DEF Typed, Singles
<1>12. \A x \in Workers : run[x] # v
  BY <1>3, HoldsRun, SchedulerAssumption
<1>13. \A u \in VThreads \ {v} : vpc'[u] = vpc[u]
  BY <1>1, <1>2 DEF Typed
<1>14. WorkerInv'
  <2> SUFFICES ASSUME NEW x \in Workers
               PROVE  /\ run[x] = NoVThread <=> pc[x] \in Idle
                      /\ pc[x] \in {"seekGlobal", "seekOthers"} => local[x] = <<>>
                      /\ pc[x] \in Busy \ {"picked"} => vpc'[run[x]] \notin {"new", "spawned"}
                      /\ pc[x] \in {"switched", "route"} /\ reason[run[x]] = "io" =>
                           vpc'[run[x]] = "ioTry"
    BY <1>1 DEF WorkerInv
  <2>1. pc[x] \in Busy => run[x] \in VThreads \ {v}
    BY <1>12, BusyWorker
  <2>2. pc[x] \in Busy => vpc'[run[x]] = vpc[run[x]]
    BY <1>13, <2>1
  <2> QED
    BY <1>2, <2>2 DEF WorkerInv, Busy
<1>15. ThreadInv'
  <2>1. vpc'[v] = "spawned"
    BY <1>1, <1>2 DEF Typed
  <2>2. \A c \in Channels : parkedIo[c] # NoVThread => parkedIo[c] \in VThreads \ {v}
    <3>1. \A c \in Channels : ~At(v, "io", c)
      BY <1>3 DEF Kinds, Spots
    <3> QED
      BY <1>2, <3>1 DEF Typed, At
  <2>3. \A u \in VThreads : vpc'[u] = "new" => u \notin live'
    BY <1>1, <1>2, <1>13, <2>1 DEF ThreadInv
  <2>4. \A u \in VThreads : vpc'[u] \in {"ioTry", "ioWait"} => <<u, chan'[u]>> \in Uses
    BY <1>1, <1>2, <1>13, <2>1 DEF ThreadInv
  <2>5. \A c \in Channels : parkedIo[c] # NoVThread =>
          vpc'[parkedIo[c]] = "ioTry" /\ chan[parkedIo[c]] = c
    BY <1>2, <1>13, <2>2 DEF ThreadInv
  <2> QED
    BY <1>1, <2>3, <2>4, <2>5 DEF ThreadInv
<1> QED
  BY <1>9, <1>10, <1>11, <1>14, <1>15 DEF PlaceInv

LEMMA HoldsOther ==
  ASSUME PlaceInv, NEW v \in VThreads, NEW k \in Kinds, NEW x \in Spots, At(v, k, x)
  PROVE  /\ v \in live
         /\ v \in ToSet(global) => k = "global"
         /\ v \in ToSet(priority) => k = "priority"
         /\ \A u \in Workers : (v \in ToSet(local[u]) => k = "local") /\ (run[u] = v => k = "run")
         /\ \A c \in Channels : parkedIo[c] = v => k = "io" /\ x = c
         /\ v \in timers => k = "timers"
         /\ v \in expired => k = "expired"
         /\ v \in parked => k = "parked"
<1>1. /\ v \in live
      /\ \A l \in Kinds, y \in Spots : At(v, l, y) => l = k /\ y = x
  BY Holds
<1>2. Kinds \subseteq Spots /\ Workers \subseteq Spots /\ Channels \subseteq Spots
  BY DEF Spots
<1>3. /\ \A l \in {"global", "priority", "timers", "expired", "parked"} :
           l \in Kinds /\ l \in Spots /\ (At(v, l, l) => l = k)
      /\ \A u \in Workers : (At(v, "local", u) => k = "local") /\ (At(v, "run", u) => k = "run")
      /\ \A c \in Channels : At(v, "io", c) => k = "io" /\ x = c
  BY <1>1, <1>2 DEF Kinds
<1> QED
  BY <1>1, <1>3 DEF At

\* A thread that waits, parked on a token or on a channel or out of the timers,
\* becomes runnable.
LEMMA WakeKeeps ==
  ASSUME PlaceInv, NEW v \in VThreads, NEW k \in {"io", "expired", "parked"}, NEW x \in Spots,
         At(v, k, x), NEW q \in {"global", "priority"},
         global' = IF q = "global" THEN Append(global, v) ELSE global,
         priority' = IF q = "priority" THEN Append(priority, v) ELSE priority,
         parkedIo' = IF k = "io" THEN [parkedIo EXCEPT ![x] = NoVThread] ELSE parkedIo,
         expired' = IF k = "expired" THEN expired \ {v} ELSE expired,
         parked' = IF k = "parked" THEN parked \ {v} ELSE parked,
         UNCHANGED <<local, timers, pc, run, vpc, chan, reason, gcState, live>>
  PROVE  PlaceInv'
<1>1. k \in Kinds /\ q \in Kinds /\ q \in Spots /\ q \notin {"local", "run"} /\ q # k
  BY DEF Kinds, Spots
<1>2. /\ v \in live
      /\ v \notin ToSet(global) /\ v \notin ToSet(priority)
      /\ \A u \in Workers : v \notin ToSet(local[u]) /\ run[u] # v
      /\ \A c \in Channels : parkedIo[c] = v => k = "io" /\ x = c
      /\ v \notin timers /\ (v \in expired => k = "expired") /\ (v \in parked => k = "parked")
  BY <1>1, HoldsOther
<1>3. Typed /\ Singles /\ v # NoVThread
  BY SchedulerAssumption DEF PlaceInv
<1>4. k = "io" => x \in Channels /\ parkedIo[x] = v
  BY DEF At
<1>5. \A s \in Seq(VThreads) : v \notin ToSet(s) /\ Once(s) =>
        /\ Append(s, v) \in Seq(VThreads)
        /\ ToSet(Append(s, v)) = ToSet(s) \union {v}
        /\ Once(Append(s, v))
  BY QueueAppend
<1>6. /\ global' \in Seq(VThreads) /\ Once(global')
      /\ ToSet(global') = ToSet(global) \union IF q = "global" THEN {v} ELSE {}
  BY <1>2, <1>3, <1>5 DEF Typed, Singles
<1>7. /\ priority' \in Seq(VThreads) /\ Once(priority')
      /\ ToSet(priority') = ToSet(priority) \union IF q = "priority" THEN {v} ELSE {}
  BY <1>2, <1>3, <1>5 DEF Typed, Singles
<1>8. /\ parkedIo' \in [Channels -> VThreads \union {NoVThread}]
      /\ \A c \in Channels : parkedIo'[c] = IF k = "io" /\ c = x THEN NoVThread ELSE parkedIo[c]
  BY <1>3, <1>4 DEF Typed
<1>9. GoesTo(v, q, q)
  <2>1. \A u \in VThreads \ {v} : \A c \in Channels : parkedIo'[c] = u <=> parkedIo[c] = u
    BY <1>4, <1>8, SchedulerAssumption
  <2>2. \A c \in Channels : parkedIo'[c] # v
    BY <1>2, <1>3, <1>8
  <2> QED
    BY <1>2, <1>6, <1>7, <2>1, <2>2 DEF GoesTo
<1>10. Apart' /\ Housed'
  BY <1>1, <1>2, <1>9, Gone
<1>11. Typed'
  BY <1>3, <1>6, <1>7, <1>8 DEF Typed
<1>12. Singles'
  BY <1>3, <1>6, <1>7 DEF Singles
<1>13. \A c \in Channels : parkedIo'[c] \in {parkedIo[c], NoVThread}
  BY <1>8
<1> QED
  BY <1>10, <1>11, <1>12, <1>13, OutsideKeeps

LEMMA EventKeeps ==
  ASSUME PlaceInv
  PROVE  /\ \A v \in VThreads : PushExpired(v) => PlaceInv'
         /\ \A v \in Parkers : UnparkThread(v) => PlaceInv'
         /\ \A c \in Channels : Arrive(c) \/ Deliver(c) => PlaceInv'
         /\ Clock => PlaceInv'
<1>1. ASSUME UNCHANGED <<global, priority, local, timers, expired, parkedIo, parked, pc, run, vpc,
                         chan, reason, gcState, live>>
      PROVE  PlaceInv'
  <2>1. Singles' /\ Apart' /\ Housed'
    BY <1>1, PlacesStay
  <2>2. Typed'
    BY <1>1 DEF PlaceInv, Typed
  <2>3. \A c \in Channels : parkedIo'[c] \in {parkedIo[c], NoVThread}
    BY <1>1
  <2> QED
    BY <1>1, <2>1, <2>2, <2>3, OutsideKeeps
<1>2. Kinds \subseteq Spots /\ Channels \subseteq Spots /\ "expired" \in Kinds /\ "parked" \in Kinds
  BY DEF Spots, Kinds
<1>3. ASSUME NEW v \in VThreads, PushExpired(v) PROVE PlaceInv'
  <2>1. At(v, "expired", "expired") /\ "expired" \in Spots
    BY <1>2, <1>3 DEF At, PushExpired
  <2>2. /\ global' = Append(global, v) /\ expired' = expired \ {v}
        /\ UNCHANGED <<priority, local, timers, parkedIo, parked, pc, run, vpc, chan, reason,
                       gcState, live>>
    BY <1>3 DEF PushExpired, ioVars, workerVars, threadVars, parkVars
  <2> QED
    BY <2>1, <2>2, WakeKeeps
<1>4. ASSUME NEW v \in Parkers, UnparkThread(v) PROVE PlaceInv'
  <2>1. UNCHANGED <<priority, local, timers, expired, parkedIo, pc, run, vpc, chan, reason,
                    gcState, live>>
    BY <1>4 DEF UnparkThread, timerVars, ioVars, workerVars, threadVars
  <2>2. CASE v \in parked
    <3>1. v \in VThreads
      BY <2>2 DEF PlaceInv, Typed
    <3>2. At(v, "parked", "parked") /\ "parked" \in Spots
      BY <1>2, <2>2 DEF At
    <3>3. global' = Append(global, v) /\ parked' = parked \ {v}
      BY <1>4, <2>2 DEF UnparkThread, Unpark
    <3> QED
      BY <2>1, <3>1, <3>2, <3>3, WakeKeeps
  <2>3. CASE v \notin parked
    BY <1>1, <1>4, <2>1, <2>3 DEF UnparkThread, Unpark
  <2> QED
    BY <2>2, <2>3
<1>5. ASSUME NEW c \in Channels, Deliver(c) PROVE PlaceInv'
  <2>1. UNCHANGED <<global, local, timers, expired, parked, pc, run, vpc, chan, reason,
                    gcState, live>>
    BY <1>5 DEF Deliver, timerVars, workerVars, threadVars, parkVars
  <2>2. CASE parkedIo[c] # NoVThread
    <3> DEFINE v == parkedIo[c]
    <3>1. v \in VThreads
      BY <2>2 DEF PlaceInv, Typed
    <3>2. At(v, "io", c) /\ c \in Spots
      BY <1>2 DEF At
    <3>3. priority' = Append(priority, v) /\ parkedIo' = [parkedIo EXCEPT ![c] = NoVThread]
      BY <1>5, <2>2 DEF Deliver
    <3> HIDE DEF v
    <3> QED
      BY <2>1, <3>1, <3>2, <3>3, WakeKeeps
  <2>3. CASE parkedIo[c] = NoVThread
    BY <1>1, <1>5, <2>1, <2>3 DEF Deliver
  <2> QED
    BY <2>2, <2>3
<1>6. ASSUME NEW c \in Channels, Arrive(c) PROVE PlaceInv'
  BY <1>1, <1>6 DEF Arrive, queueVars, timerVars, workerVars, threadVars, parkVars
<1>7. ASSUME Clock PROVE PlaceInv'
  BY <1>1, <1>7 DEF Clock, queueVars, ioVars, workerVars, threadVars, parkVars
<1> QED
  BY <1>3, <1>4, <1>5, <1>6, <1>7

LEMMA DrainKeeps ==
  ASSUME PlaceInv, DrainTimers
  PROVE  PlaceInv'
<1>1. PICK time \in 0 .. now :
        LET due == {v \in timers : until[v] <= time} IN
        timers' = timers \ due /\ expired' = expired \union due
  BY DEF DrainTimers
<1>2. PICK due \in SUBSET timers : timers' = timers \ due /\ expired' = expired \union due
  BY <1>1
<1>3. UNCHANGED <<global, priority, local, parkedIo, parked, pc, run, vpc, chan, reason, gcState,
                  live>>
  BY DEF DrainTimers, queueVars, ioVars, workerVars, threadVars, parkVars
<1>4. Typed /\ Singles /\ Apart /\ Housed
  BY DEF PlaceInv
<1>5. Typed' /\ Singles'
  BY <1>2, <1>3, <1>4 DEF Typed, Singles
<1>6. {"timers", "expired"} \subseteq Kinds /\ {"timers", "expired"} \subseteq Spots
  BY DEF Kinds, Spots
<1>7. ASSUME NEW u \in due
      PROVE  u \in VThreads /\ u \in live /\ \A l \in Kinds, x \in Spots : At(u, l, x) => l = "timers"
  <2>1. u \in VThreads /\ At(u, "timers", "timers")
    BY <1>4, <1>7 DEF Typed, At
  <2> QED
    BY <1>6, <2>1, Holds
<1>8. ASSUME NEW u \in VThreads, NEW k \in Kinds, NEW x \in Spots
      PROVE  At(u, k, x)' <=> IF u \in due THEN k = "expired" /\ x = "expired" ELSE At(u, k, x)
  <2>1. CASE k = "timers"
    BY <1>2, <2>1 DEF At
  <2>2. CASE k = "expired"
    BY <1>2, <2>2 DEF At
  <2>3. CASE k \notin {"timers", "expired"}
    <3>1. At(u, k, x)' <=> At(u, k, x)
      BY <1>3, <2>3 DEF At
    <3> QED
      BY <1>7, <2>3, <3>1
  <2> QED
    BY <2>1, <2>2, <2>3
<1>9. Apart'
  BY <1>4, <1>8 DEF Apart
<1>10. Housed'
  <2> SUFFICES ASSUME NEW u \in VThreads
               PROVE  u \in live <=> \E k \in Kinds, x \in Spots : At(u, k, x)'
    BY <1>3 DEF Housed
  <2>1. CASE u \in due
    BY <1>6, <1>7, <1>8, <2>1
  <2>2. CASE u \notin due
    BY <1>4, <1>8, <2>2 DEF Housed
  <2> QED
    BY <2>1, <2>2
<1> QED
  BY <1>3, <1>5, <1>9, <1>10, OutsideKeeps

-----------------------------------------------------------------------------
LEMMA InitPlaces ==
  ASSUME Init
  PROVE  PlaceInv
<1> USE DEF Init, ParkInit
<1>1. Typed
  BY EmptySeq DEF Typed, Idle
<1>2. Singles
  BY QueueEmpty DEF Singles
<1>3. \A v \in VThreads, k \in Kinds, x \in Spots : ~At(v, k, x)
  <2>1. ToSet(<<>>) = {}
    BY QueueEmpty
  <2> QED
    BY <2>1, SchedulerAssumption DEF At
<1>4. Apart /\ Housed
  BY <1>3 DEF Apart, Housed
<1>5. WorkerInv
  BY DEF WorkerInv, Idle, Busy
<1>6. ThreadInv
  BY DEF ThreadInv
<1> QED
  BY <1>1, <1>2, <1>4, <1>5, <1>6 DEF PlaceInv

LEMMA NextKeeps ==
  ASSUME PlaceInv, OneUser, [Next]_vars
  PROVE  PlaceInv'
<1>1. ASSUME NEW w \in Workers, Pick(w) \/ Resume(w) \/ Program(w) \/ Route(w)
      PROVE  PlaceInv'
  <2>1. CASE Pick(w)
    BY <2>1, PickKeeps
  <2>2. CASE Program(w)
    BY <2>2, ProgramKeeps
  <2>3. CASE Resume(w) \/ Save(w) \/ Drop(w)
    BY <2>3, SwitchKeeps
  <2>4. CASE RouteYield(w) \/ RouteSleep(w) \/ RouteIo(w) \/ RoutePark(w)
    BY <2>4, RouteKeeps
  <2>5. CASE EndThread(w)
    BY <2>5, EndKeeps
  <2> QED
    BY <1>1, <2>1, <2>2, <2>3, <2>4, <2>5 DEF Route
<1>2. ASSUME NEW v \in VThreads, Spawn(v) \/ PushExpired(v) PROVE PlaceInv'
  BY <1>2, SpawnKeeps, EventKeeps
<1>3. ASSUME NEW v \in Parkers, UnparkThread(v) PROVE PlaceInv'
  BY <1>3, EventKeeps
<1>4. ASSUME NEW c \in Channels, Arrive(c) \/ Deliver(c) PROVE PlaceInv'
  BY <1>4, EventKeeps
<1>5. CASE DrainTimers \/ Clock
  BY <1>5, DrainKeeps, EventKeeps
<1>6. CASE UNCHANGED vars
  <2>1. UNCHANGED <<global, priority, local, timers, expired, parkedIo, parked, pc, run, vpc,
                    chan, reason, gcState, live>>
    BY <1>6 DEF vars, queueVars, timerVars, ioVars, workerVars, threadVars, parkVars
  <2>2. Singles' /\ Apart' /\ Housed'
    BY <2>1, PlacesStay
  <2>3. Typed'
    BY <2>1 DEF PlaceInv, Typed
  <2>4. \A c \in Channels : parkedIo'[c] \in {parkedIo[c], NoVThread}
    BY <2>1
  <2> QED
    BY <2>1, <2>2, <2>3, <2>4, OutsideKeeps
<1> QED
  BY <1>1, <1>2, <1>3, <1>4, <1>5, <1>6 DEF Next

LEMMA PlaceInvariant ==
  ASSUME OneUser
  PROVE  Spec => []PlaceInv
<1>1. Init => PlaceInv
  BY InitPlaces
<1>2. PlaceInv /\ [Next]_vars => PlaceInv'
  BY NextKeeps
<1> QED
  BY <1>1, <1>2, PTL DEF Spec

LEMMA PositionsOf ==
  ASSUME NEW v, NEW s, Once(s)
  PROVE  /\ v \notin ToSet(s) => Positions(v, s) = {}
         /\ v \in ToSet(s) => \E i : Positions(v, s) = {i}
<1>1. ASSUME v \notin ToSet(s) PROVE Positions(v, s) = {}
  BY <1>1 DEF ToSet, Positions
<1>2. ASSUME v \in ToSet(s) PROVE \E i : Positions(v, s) = {i}
  <2>1. PICK i \in DOMAIN s : s[i] = v
    BY <1>2 DEF ToSet
  <2>2. Positions(v, s) = {i}
    BY <2>1 DEF Positions, Once
  <2> QED
    BY <2>2
<1> QED
  BY <1>1, <1>2

LEMMA PlaceOfThread ==
  ASSUME PlaceInv
  PROVE  OnePlace
<1> SUFFICES ASSUME NEW v \in VThreads
             PROVE  IF v \in live THEN \E p \in Places(v) : Places(v) = {p} ELSE Places(v) = {}
  BY DEF OnePlace
<1> DEFINE G == {<<"global", i>> : i \in Positions(v, global)}
           P == {<<"priority", i>> : i \in Positions(v, priority)}
           L == UNION {{<<"local", w, i>> : i \in Positions(v, local[w])} : w \in Workers}
           R == {<<"run", w>> : w \in {u \in Workers : run[u] = v}}
           I == {<<"io", c>> : c \in {d \in Channels : parkedIo[d] = v}}
           T == {<<"timers", u>> : u \in timers \intersect {v}}
           X == {<<"expired", u>> : u \in expired \intersect {v}}
           K == {<<"parked", u>> : u \in parked \intersect {v}}
<1>1. Places(v) = G \union P \union L \union R \union I \union T \union X \union K
  BY DEF Places
<1>2. /\ Once(global) /\ Once(priority) /\ \A w \in Workers : Once(local[w])
      /\ v \in live <=> \E k \in Kinds, x \in Spots : At(v, k, x)
      /\ Kinds \subseteq Spots /\ Workers \subseteq Spots /\ Channels \subseteq Spots
  BY DEF PlaceInv, Singles, Housed, Spots
<1>3. /\ v \notin ToSet(global) => G = {}
      /\ v \in ToSet(global) => \E p : G = {p}
  <2>1. CASE v \notin ToSet(global)
    BY <1>2, <2>1, PositionsOf
  <2>2. CASE v \in ToSet(global)
    <3>1. PICK i : Positions(v, global) = {i}
      BY <1>2, <2>2, PositionsOf
    <3>2. G = {<<"global", i>>}
      BY <3>1
    <3> QED
      BY <2>2, <3>2
  <2> QED
    BY <2>1, <2>2
<1>4. /\ v \notin ToSet(priority) => P = {}
      /\ v \in ToSet(priority) => \E p : P = {p}
  <2>1. CASE v \notin ToSet(priority)
    BY <1>2, <2>1, PositionsOf
  <2>2. CASE v \in ToSet(priority)
    <3>1. PICK i : Positions(v, priority) = {i}
      BY <1>2, <2>2, PositionsOf
    <3>2. P = {<<"priority", i>>}
      BY <3>1
    <3> QED
      BY <2>2, <3>2
  <2> QED
    BY <2>1, <2>2
<1>5. /\ (\A w \in Workers : v \notin ToSet(local[w])) => L = {}
      /\ \A w \in Workers :
           v \in ToSet(local[w]) /\ (\A u \in Workers \ {w} : v \notin ToSet(local[u])) =>
             \E p : L = {p}
  <2>1. \A w \in Workers : v \notin ToSet(local[w]) => Positions(v, local[w]) = {}
    BY <1>2, PositionsOf
  <2>2. ASSUME NEW w \in Workers, v \in ToSet(local[w]),
               \A u \in Workers \ {w} : v \notin ToSet(local[u])
        PROVE  \E p : L = {p}
    <3>1. PICK i : Positions(v, local[w]) = {i}
      BY <1>2, <2>2, PositionsOf
    <3>2. L = {<<"local", w, i>>}
      BY <2>1, <2>2, <3>1
    <3> QED
      BY <3>2
  <2> QED
    BY <2>1, <2>2
<1>6. /\ (\A w \in Workers : run[w] # v) => R = {}
      /\ \A w \in Workers : run[w] = v /\ (\A u \in Workers \ {w} : run[u] # v) => \E p : R = {p}
  <2>1. ASSUME NEW w \in Workers, run[w] = v, \A u \in Workers \ {w} : run[u] # v
        PROVE  \E p : R = {p}
    <3>1. R = {<<"run", w>>}
      BY <2>1
    <3> QED
      BY <3>1
  <2> QED
    BY <2>1
<1>7. /\ (\A c \in Channels : parkedIo[c] # v) => I = {}
      /\ \A c \in Channels :
           parkedIo[c] = v /\ (\A d \in Channels \ {c} : parkedIo[d] # v) => \E p : I = {p}
  <2>1. ASSUME NEW c \in Channels, parkedIo[c] = v, \A d \in Channels \ {c} : parkedIo[d] # v
        PROVE  \E p : I = {p}
    <3>1. I = {<<"io", c>>}
      BY <2>1
    <3> QED
      BY <3>1
  <2> QED
    BY <2>1
<1>8. /\ T = IF v \in timers THEN {<<"timers", v>>} ELSE {}
      /\ X = IF v \in expired THEN {<<"expired", v>>} ELSE {}
      /\ K = IF v \in parked THEN {<<"parked", v>>} ELSE {}
  OBVIOUS
<1> HIDE DEF G, P, L, R, I, T, X, K
<1>9. ASSUME v \in live PROVE \E p : Places(v) = {p}
  <2>1. PICK k \in Kinds, x \in Spots : At(v, k, x)
    BY <1>2, <1>9
  <2>2. /\ v \in ToSet(global) => k = "global"
        /\ v \in ToSet(priority) => k = "priority"
        /\ \A u \in Workers : (v \in ToSet(local[u]) => k = "local") /\ (run[u] = v => k = "run")
        /\ \A c \in Channels : parkedIo[c] = v => k = "io" /\ x = c
        /\ v \in timers => k = "timers"
        /\ v \in expired => k = "expired"
        /\ v \in parked => k = "parked"
    BY <2>1, HoldsOther
  <2>3. CASE k = "global"
    BY <1>1, <1>3, <1>4, <1>5, <1>6, <1>7, <1>8, <2>1, <2>2, <2>3 DEF At
  <2>4. CASE k = "priority"
    BY <1>1, <1>3, <1>4, <1>5, <1>6, <1>7, <1>8, <2>1, <2>2, <2>4 DEF At
  <2>5. CASE k = "local"
    <3>1. x \in Workers /\ v \in ToSet(local[x])
      BY <2>1, <2>5 DEF At
    <3>2. \A u \in Workers \ {x} : ~At(v, "local", u)
      BY <1>2, <2>1, <2>5, Holds DEF Kinds
    <3>3. \A u \in Workers \ {x} : v \notin ToSet(local[u])
      BY <3>2 DEF At
    <3> QED
      BY <1>1, <1>3, <1>4, <1>5, <1>6, <1>7, <1>8, <2>2, <2>5, <3>1, <3>3
  <2>6. CASE k = "run"
    <3>1. x \in Workers /\ run[x] = v
      BY <2>1, <2>6 DEF At
    <3>2. \A u \in Workers \ {x} : ~At(v, "run", u)
      BY <1>2, <2>1, <2>6, Holds DEF Kinds
    <3>3. \A u \in Workers \ {x} : run[u] # v
      BY <3>2 DEF At
    <3> QED
      BY <1>1, <1>3, <1>4, <1>5, <1>6, <1>7, <1>8, <2>2, <2>6, <3>1, <3>3
  <2>7. CASE k = "io"
    <3>1. x \in Channels /\ parkedIo[x] = v
      BY <2>1, <2>7 DEF At
    <3> QED
      BY <1>1, <1>3, <1>4, <1>5, <1>6, <1>7, <1>8, <2>2, <2>7, <3>1
  <2>8. CASE k \in {"timers", "expired", "parked"}
    <3>1. IF k = "timers" THEN v \in timers ELSE IF k = "expired" THEN v \in expired ELSE v \in parked
      BY <2>1, <2>8 DEF At
    <3> QED
      BY <1>1, <1>3, <1>4, <1>5, <1>6, <1>7, <1>8, <2>2, <2>8, <3>1
  <2> QED
    BY <2>3, <2>4, <2>5, <2>6, <2>7, <2>8 DEF Kinds
<1>10. ASSUME v \notin live PROVE Places(v) = {}
  <2>1. /\ \A l \in Kinds : ~At(v, l, l)
        /\ \A u \in Workers : ~At(v, "local", u) /\ ~At(v, "run", u)
        /\ \A c \in Channels : ~At(v, "io", c)
    BY <1>2, <1>10 DEF Kinds
  <2>2. /\ v \notin ToSet(global) /\ v \notin ToSet(priority)
        /\ \A u \in Workers : v \notin ToSet(local[u]) /\ run[u] # v
        /\ \A c \in Channels : parkedIo[c] # v
        /\ v \notin timers /\ v \notin expired /\ v \notin parked
    BY <2>1 DEF At, Kinds
  <2> QED
    BY <1>1, <1>3, <1>4, <1>5, <1>6, <1>7, <1>8, <2>2
<1> QED
  BY <1>9, <1>10

\* A thread that has not ended is always in exactly one place, whatever races it
\* (vthread.rs:1402-1440), when no two threads wait on the same channel.
THEOREM OnePlaceAlways ==
  ASSUME OneUser
  PROVE  Spec => []OnePlace
BY PlaceInvariant, PlaceOfThread, PTL

-----------------------------------------------------------------------------
(* The roots of a thread *)

AtRoots(x, v) == run[x] = v /\ pc[x] \in {"running", "switched", "dropped"}

LEMMA RootsStay ==
  ASSUME RootsInOnePlace, NEW v \in live',
         v \in live \/ vpc'[v] = "spawned",
         vpc'[v] # "spawned" => vpc[v] # "spawned",
         gcState'[v] = gcState[v],
         \A x \in Workers : AtRoots(x, v)' <=> AtRoots(x, v)
  PROVE  vpc'[v] # "spawned" =>
           (gcState'[v] <=> ~ OnWorker(v, {"running", "switched", "dropped"})')
BY DEF RootsInOnePlace, OnWorker, AtRoots

LEMMA RootsKept ==
  ASSUME PlaceInv, RootsInOnePlace, [Next]_vars
  PROVE  RootsInOnePlace'
<1> SUFFICES ASSUME NEW v \in live', vpc'[v] # "spawned"
             PROVE  gcState'[v] <=> ~ OnWorker(v, {"running", "switched", "dropped"})'
  BY DEF RootsInOnePlace
<1>1. Typed /\ NoVThread \notin VThreads
  BY SchedulerAssumption DEF PlaceInv
<1>2. \A x \in Workers : pc[x] \in Busy => run[x] # NoVThread /\ run[x] \in VThreads
  BY BusyWorker
<1>3. \A x, y \in Workers : run[x] # NoVThread /\ run[x] = run[y] => x = y
  BY HoldsRun
<1>4. ASSUME NEW w \in Workers, Pick(w)
      PROVE  gcState'[v] <=> ~ OnWorker(v, {"running", "switched", "dropped"})'
  <2>1. UNCHANGED <<vpc, gcState, live>>
    BY <1>4 DEF Pick, threadVars
  <2>2. /\ pc[w] \in Idle /\ pc'[w] \in Idle \union {"picked"}
        /\ \A x \in Workers \ {w} : pc'[x] = pc[x] /\ run'[x] = run[x]
    <3>1. CASE Seek(w)
      BY <1>1, <3>1 DEF Seek, TakeBatch, Typed, Idle, queueVars
    <3>2. CASE SeekGlobal(w)
      BY <1>1, <3>2 DEF SeekGlobal, TakeBatch, Typed, Idle
    <3>3. CASE SeekOthers(w)
      BY <1>1, <3>3 DEF SeekOthers, Typed, Idle
    <3> QED
      BY <1>4, <3>1, <3>2, <3>3 DEF Pick
  <2>3. \A x \in Workers : AtRoots(x, v)' <=> AtRoots(x, v)
    BY <2>2 DEF AtRoots, Idle
  <2> QED
    BY <2>1, <2>3, RootsStay
<1>5. ASSUME NEW w \in Workers, Resume(w)
      PROVE  gcState'[v] <=> ~ OnWorker(v, {"running", "switched", "dropped"})'
  <2>1. /\ pc[w] = "picked" /\ pc' = [pc EXCEPT ![w] = "running"]
        /\ gcState' = [gcState EXCEPT ![run[w]] = FALSE]
        /\ vpc' = [vpc EXCEPT ![run[w]] = IF vpc[run[w]] = "spawned" THEN "program" ELSE vpc[run[w]]]
        /\ UNCHANGED <<run, live>>
    BY <1>5 DEF Resume
  <2>2. v \in live /\ v \in VThreads
    BY <1>1, <2>1 DEF Typed
  <2>3. CASE v = run[w]
    <3>1. gcState'[v] = FALSE /\ run'[w] = v /\ pc'[w] = "running"
      BY <1>1, <2>1, <2>2, <2>3 DEF Typed
    <3> QED
      BY <3>1 DEF OnWorker
  <2>4. CASE v # run[w]
    <3>1. gcState'[v] = gcState[v] /\ vpc'[v] = vpc[v]
      BY <1>1, <2>1, <2>2, <2>4 DEF Typed
    <3>2. \A x \in Workers : AtRoots(x, v)' <=> AtRoots(x, v)
      BY <1>1, <2>1, <2>4 DEF AtRoots, Typed
    <3> QED
      BY <2>2, <3>1, <3>2, RootsStay
  <2> QED
    BY <2>3, <2>4
<1>6. ASSUME NEW w \in Workers, Program(w)
      PROVE  gcState'[v] <=> ~ OnWorker(v, {"running", "switched", "dropped"})'
  <2>1. UNCHANGED <<run, live, gcState>>
    BY <1>6 DEF Program, Yield, Sleep, Park, Finish, StartIo, TryIo, WaitIo, StartJoin, Join,
       Switch, workerVars
  <2>2. pc[w] = "running" /\ (pc' = pc \/ pc' = [pc EXCEPT ![w] = "switched"])
    BY <1>6 DEF Program, Yield, Sleep, Park, Finish, StartIo, TryIo, WaitIo, StartJoin, Join,
       Switch, workerVars, Running
  <2>3. vpc[run[w]] # "spawned" /\ \A u \in VThreads \ {run[w]} : vpc'[u] = vpc[u]
    <3>1. vpc[run[w]] \in {"program", "ioTry", "ioWait", "join"}
      BY <1>6 DEF Program, Yield, Sleep, Park, Finish, StartIo, TryIo, WaitIo, StartJoin, Join,
         Running
    <3>2. vpc' = vpc \/ \E at \in {"program", "ioTry", "ioWait", "join", "ended"} :
                          vpc' = [vpc EXCEPT ![run[w]] = at]
      BY <1>6 DEF Program, Yield, Sleep, Park, Finish, StartIo, TryIo, WaitIo, StartJoin, Join
    <3> QED
      BY <1>1, <3>1, <3>2 DEF Typed
  <2>4. \A x \in Workers : AtRoots(x, v)' <=> AtRoots(x, v)
    BY <1>1, <2>1, <2>2 DEF AtRoots, Typed
  <2>5. v \in live /\ v \in VThreads
    BY <1>1, <2>1 DEF Typed
  <2> QED
    BY <2>1, <2>3, <2>4, <2>5, RootsStay
<1>7. ASSUME NEW w \in Workers, Save(w) \/ Drop(w)
      PROVE  gcState'[v] <=> ~ OnWorker(v, {"running", "switched", "dropped"})'
  <2>1. /\ pc[w] = "switched" /\ UNCHANGED <<run, live, vpc>>
        /\ \/ /\ pc' = [pc EXCEPT ![w] = "route"]
              /\ gcState' = [gcState EXCEPT ![run[w]] = TRUE]
           \/ /\ pc' = [pc EXCEPT ![w] = "dropped"]
              /\ gcState' = [gcState EXCEPT ![run[w]] = FALSE]
    BY <1>7 DEF Save, Drop
  <2>2. v \in live /\ v \in VThreads /\ vpc[v] # "spawned"
    BY <1>1, <2>1 DEF Typed
  <2>3. CASE v = run[w]
    <3>1. \/ pc'[w] = "route" /\ gcState'[v] = TRUE
          \/ pc'[w] = "dropped" /\ gcState'[v] = FALSE
      BY <1>1, <2>1, <2>2, <2>3 DEF Typed
    <3>2. \A x \in Workers : run'[x] = v => x = w
      BY <1>1, <1>3, <2>1, <2>2, <2>3
    <3> QED
      BY <2>1, <2>3, <3>1, <3>2 DEF OnWorker
  <2>4. CASE v # run[w]
    <3>1. gcState'[v] = gcState[v]
      BY <1>1, <2>1, <2>2, <2>4 DEF Typed
    <3>2. \A x \in Workers : AtRoots(x, v)' <=> AtRoots(x, v)
      BY <1>1, <2>1, <2>4 DEF AtRoots, Typed
    <3> QED
      BY <2>1, <2>2, <3>1, <3>2, RootsStay
  <2> QED
    BY <2>3, <2>4
<1>8. ASSUME NEW w \in Workers,
             RouteYield(w) \/ RouteSleep(w) \/ RouteIo(w) \/ RoutePark(w) \/ EndThread(w)
      PROVE  gcState'[v] <=> ~ OnWorker(v, {"running", "switched", "dropped"})'
  <2>1. /\ UNCHANGED <<vpc, gcState>> /\ pc[w] \in {"route", "dropped"}
        /\ live' = IF pc[w] = "dropped" THEN live \ {run[w]} ELSE live
        /\ pc' = [pc EXCEPT ![w] = "seek"] /\ run' = [run EXCEPT ![w] = NoVThread]
    BY <1>8 DEF RouteYield, RouteSleep, RouteIo, RoutePark, EndThread, Routed
  <2>2. v \in live /\ v \in VThreads /\ (pc[w] = "dropped" => v # run[w])
    BY <1>1, <2>1 DEF Typed
  <2>3. \A x \in Workers : AtRoots(x, v)' <=> AtRoots(x, v)
    BY <1>1, <2>1, <2>2 DEF AtRoots, Typed
  <2> QED
    BY <2>1, <2>2, <2>3, RootsStay
<1>9. ASSUME NEW u \in VThreads, Spawn(u)
      PROVE  gcState'[v] <=> ~ OnWorker(v, {"running", "switched", "dropped"})'
  <2>1. /\ UNCHANGED <<pc, run, gcState>> /\ live' = live \union {u}
        /\ vpc' = [vpc EXCEPT ![u] = "spawned"]
    BY <1>9 DEF Spawn, workerVars
  <2>2. v \in live /\ v # u
    BY <1>1, <2>1 DEF Typed
  <2>3. vpc'[v] = vpc[v]
    BY <1>1, <2>1, <2>2 DEF Typed
  <2>4. \A x \in Workers : AtRoots(x, v)' <=> AtRoots(x, v)
    BY <2>1 DEF AtRoots
  <2> QED
    BY <2>1, <2>2, <2>3, <2>4, RootsStay
<1>10. ASSUME UNCHANGED <<workerVars, threadVars>>
       PROVE  gcState'[v] <=> ~ OnWorker(v, {"running", "switched", "dropped"})'
  <2>1. UNCHANGED <<pc, run, vpc, gcState, live>>
    BY <1>10 DEF workerVars, threadVars
  <2>2. \A x \in Workers : AtRoots(x, v)' <=> AtRoots(x, v)
    BY <2>1 DEF AtRoots
  <2> QED
    BY <2>1, <2>2, RootsStay
<1>11. \/ \E w \in Workers : Pick(w) \/ Resume(w) \/ Program(w) \/ Route(w)
       \/ \E u \in VThreads : Spawn(u)
       \/ UNCHANGED <<workerVars, threadVars>>
  BY DEF Next, PushExpired, UnparkThread, Arrive, Deliver, DrainTimers, Clock, vars
<1> QED
  BY <1>4, <1>5, <1>6, <1>7, <1>8, <1>9, <1>10, <1>11 DEF Route

\* The collector finds the roots of a thread that has begun in exactly one place
\* (vthread.rs:1363-1373, 1403-1406), when no two threads wait on the same channel.
THEOREM RootsFound ==
  ASSUME OneUser
  PROVE  Spec => []RootsInOnePlace
<1>1. Init => RootsInOnePlace
  BY DEF Init, RootsInOnePlace
<1>2. PlaceInv /\ RootsInOnePlace /\ [Next]_vars => RootsInOnePlace'
  BY RootsKept
<1> QED
  BY <1>1, <1>2, PlaceInvariant, PTL DEF Spec

-----------------------------------------------------------------------------
(* Readiness *)

\* A thread whose call would have blocked, until it is in the table: what has
\* arrived since is an event to come or a flag that the worker will see.
Blocking(v) == vpc[v] = "ioWait" \/ reason[v] = "io"

Aware ==
  \A v \in VThreads :
    /\ Blocking(v) /\ chan[v] \in data => chan[v] \in edge \union ready
    /\ reason[v] = "io" => \E w \in Workers : run[w] = v /\ pc[w] \in {"switched", "route"}

ReadinessInv == NoLostReadiness /\ Aware

\* A thread that blocks uses its channel alone, and is not in the table.
LEMMA BlockingAlone ==
  ASSUME PlaceInv, Aware, OneUser, NEW v \in VThreads, Blocking(v)
  PROVE  /\ chan[v] \in Channels /\ parkedIo[chan[v]] = NoVThread
         /\ vpc[v] \in {"ioTry", "ioWait"} /\ (vpc[v] = "ioWait" => reason[v] # "io")
         /\ \A u \in VThreads : vpc[u] \in {"ioTry", "ioWait"} /\ chan[u] = chan[v] => u = v
<1>1. Typed /\ WorkerInv /\ ThreadInv
  BY DEF PlaceInv
<1>2. reason[v] = "io" =>
        vpc[v] = "ioTry" /\ \A c \in Channels : parkedIo[c] # v
  <2> SUFFICES ASSUME reason[v] = "io"
               PROVE  vpc[v] = "ioTry" /\ \A c \in Channels : parkedIo[c] # v
    OBVIOUS
  <2>1. PICK w \in Workers : run[w] = v /\ pc[w] \in {"switched", "route"}
    BY DEF Aware
  <2>2. run[w] # NoVThread
    BY <2>1, SchedulerAssumption
  <2> QED
    BY <1>1, <2>1, <2>2, HoldsRun DEF WorkerInv
<1>3. vpc[v] \in {"ioTry", "ioWait"} /\ (vpc[v] = "ioWait" => reason[v] # "io")
  BY <1>2 DEF Blocking
<1>4. <<v, chan[v]>> \in Uses
  BY <1>1, <1>3 DEF ThreadInv
<1>5. chan[v] \in Channels
  BY <1>4, SchedulerAssumption
<1>6. ASSUME NEW u \in VThreads, vpc[u] \in {"ioTry", "ioWait"}, chan[u] = chan[v] PROVE u = v
  <2>1. <<u, chan[u]>> \in Uses
    BY <1>1, <1>6 DEF ThreadInv
  <2> QED
    BY <1>4, <1>6, <2>1 DEF OneUser
<1>7. parkedIo[chan[v]] = NoVThread
  <2> SUFFICES ASSUME parkedIo[chan[v]] # NoVThread PROVE FALSE
    OBVIOUS
  <2>1. /\ parkedIo[chan[v]] \in VThreads
        /\ vpc[parkedIo[chan[v]]] = "ioTry" /\ chan[parkedIo[chan[v]]] = chan[v]
    BY <1>1, <1>5 DEF Typed, ThreadInv
  <2>2. parkedIo[chan[v]] = v
    BY <1>6, <2>1
  <2> QED
    BY <1>2, <1>5, <2>1, <2>2 DEF Blocking
<1> QED
  BY <1>3, <1>5, <1>6, <1>7

\* What a step may do to a thread on another worker, or on none.
LEMMA AwareStays ==
  ASSUME Aware, NEW v \in VThreads, Blocking(v)' => Blocking(v),
         reason'[v] = "io" => reason[v] = "io", chan'[v] = chan[v],
         Blocking(v) /\ chan[v] \in data' =>
           \/ chan[v] \in data /\ (chan[v] \in edge \union ready => chan[v] \in edge' \union ready')
           \/ chan[v] \in edge' \union ready',
         \A w \in Workers :
           run[w] = v /\ pc[w] \in {"switched", "route"} =>
             reason'[v] # "io" \/ (run'[w] = v /\ pc'[w] \in {"switched", "route"})
  PROVE  /\ Blocking(v)' /\ chan'[v] \in data' => chan'[v] \in edge' \union ready'
         /\ reason'[v] = "io" => \E w \in Workers : run'[w] = v /\ pc'[w] \in {"switched", "route"}
BY DEF Aware

LEMMA ProgramAware ==
  ASSUME PlaceInv, OneUser, ReadinessInv, NEW w \in Workers, Program(w)
  PROVE  ReadinessInv'
<1> DEFINE t == run[w]
<1>1. Typed /\ Aware /\ NoLostReadiness
  BY DEF PlaceInv, ReadinessInv
<1>2. pc[w] = "running"
  BY DEF Program, Yield, Sleep, Park, Finish, StartIo, TryIo, WaitIo, StartJoin, Join, Running
<1>3. t \in VThreads /\ t # NoVThread
  BY <1>2, BusyWorker DEF Busy
<1>4. reason[t] # "io"
  <2>1. \A x \in Workers : run[x] = t => x = w
    BY <1>3, HoldsRun
  <2> QED
    BY <1>1, <1>2, <1>3, <2>1 DEF Aware
<1>5. /\ UNCHANGED <<run, edge, parkedIo>> /\ data' \in SUBSET data
      /\ (pc' = pc \/ pc' = [pc EXCEPT ![w] = "switched"])
  BY DEF Program, Yield, Sleep, Park, Finish, StartIo, TryIo, WaitIo, StartJoin, Join,
     Switch, workerVars, ioVars
\* Of the thread itself, an access that would block, a look at the flag, or neither.
<1>6. \/ /\ vpc[t] = "ioTry" /\ chan[t] \notin data
         /\ vpc' = [vpc EXCEPT ![t] = "ioWait"] /\ UNCHANGED <<reason, chan, data, ready>>
      \/ /\ vpc[t] = "ioWait" /\ vpc' = [vpc EXCEPT ![t] = "ioTry"]
         /\ ready' = ready \ {chan[t]} /\ UNCHANGED <<reason, chan>>
      \/ /\ vpc[t] = "ioWait" /\ vpc' = [vpc EXCEPT ![t] = "ioTry"]
         /\ pc' = [pc EXCEPT ![w] = "switched"]
         /\ reason' = [reason EXCEPT ![t] = "io"] /\ UNCHANGED <<chan, data, ready>>
      \/ /\ UNCHANGED ready
         /\ vpc[t] \in {"program", "ioTry", "join"}
         /\ \/ vpc' = vpc
            \/ \E at \in {"program", "ioTry", "join", "ended"} : vpc' = [vpc EXCEPT ![t] = at]
         /\ \/ reason' = reason
            \/ \E why \in {"yield", "sleep", "park", "done"} : reason' = [reason EXCEPT ![t] = why]
         /\ chan' = chan \/ \E c \in Channels \union {NoChannel} : chan' = [chan EXCEPT ![t] = c]
  <2>1. CASE Yield(w) \/ Sleep(w) \/ Park(w) \/ Finish(w)
    BY <2>1 DEF Yield, Sleep, Park, Finish, Switch, Running, workerVars, ioVars
  <2>2. CASE StartIo(w)
    BY <2>2 DEF StartIo, Running, workerVars, ioVars
  <2>3. CASE TryIo(w)
    BY <2>3 DEF TryIo, Running, workerVars
  <2>4. CASE WaitIo(w)
    BY <2>4 DEF WaitIo, Running, Switch, workerVars
  <2>5. CASE StartJoin(w) \/ Join(w)
    BY <2>5 DEF StartJoin, Join, Running, Switch, workerVars, ioVars
  <2> QED
    BY <2>1, <2>2, <2>3, <2>4, <2>5 DEF Program
<1> HIDE DEF t
<1>7. \A u \in VThreads \ {t} : vpc'[u] = vpc[u] /\ chan'[u] = chan[u] /\ reason'[u] = reason[u]
  BY <1>1, <1>6 DEF Typed
<1>8. \A x \in Workers \ {w} : pc'[x] = pc[x]
  BY <1>1, <1>5 DEF Typed
<1>9. ASSUME NEW u \in VThreads \ {t}
      PROVE  /\ Blocking(u)' /\ chan'[u] \in data' => chan'[u] \in edge' \union ready'
             /\ reason'[u] = "io" => \E x \in Workers : run'[x] = u /\ pc'[x] \in {"switched", "route"}
  <2>1. Blocking(u) /\ vpc[t] = "ioWait" => chan[u] # chan[t]
    BY <1>1, <1>3, BlockingAlone
  <2>2. Blocking(u)' <=> Blocking(u)
    BY <1>7 DEF Blocking
  <2>3. Blocking(u) /\ chan[u] \in ready => chan[u] \in ready'
    BY <1>6, <2>1
  <2>4. \A x \in Workers : run[x] = u /\ pc[x] \in {"switched", "route"} =>
          run'[x] = u /\ pc'[x] \in {"switched", "route"}
    BY <1>2, <1>5, <1>8
  <2> QED
    BY <1>1, <1>5, <1>7, <2>2, <2>3, <2>4, AwareStays
<1>10. /\ (vpc'[t] = "ioWait" \/ reason'[t] = "io") /\ chan'[t] \in data' => chan'[t] \in edge' \union ready'
       /\ reason'[t] = "io" => \E x \in Workers : run'[x] = t /\ pc'[x] \in {"switched", "route"}
  <2>1. CASE vpc[t] = "ioTry" /\ chan[t] \notin data
             /\ vpc' = [vpc EXCEPT ![t] = "ioWait"] /\ UNCHANGED <<reason, chan, data, ready>>
    BY <1>4, <2>1
  <2>2. CASE vpc[t] = "ioWait" /\ vpc' = [vpc EXCEPT ![t] = "ioTry"]
             /\ ready' = ready \ {chan[t]} /\ UNCHANGED <<reason, chan>>
    BY <1>1, <1>3, <1>4, <2>2 DEF Typed
  <2>3. CASE vpc[t] = "ioWait" /\ vpc' = [vpc EXCEPT ![t] = "ioTry"]
             /\ pc' = [pc EXCEPT ![w] = "switched"]
             /\ reason' = [reason EXCEPT ![t] = "io"] /\ UNCHANGED <<chan, data, ready>>
    <3>1. chan[t] \in data => chan[t] \in edge \union ready
      BY <1>1, <1>3, <2>3 DEF Aware, Blocking
    <3>2. run'[w] = t /\ pc'[w] = "switched"
      BY <1>1, <1>5, <2>3 DEF t, Typed
    <3> QED
      BY <1>5, <2>3, <3>1, <3>2
  <2>4. CASE /\ vpc[t] \in {"program", "ioTry", "join"}
             /\ \/ vpc' = vpc
                \/ \E at \in {"program", "ioTry", "join", "ended"} : vpc' = [vpc EXCEPT ![t] = at]
             /\ \/ reason' = reason
                \/ \E why \in {"yield", "sleep", "park", "done"} : reason' = [reason EXCEPT ![t] = why]
    BY <1>1, <1>3, <1>4, <2>4 DEF Typed
  <2> QED
    BY <1>6, <2>1, <2>2, <2>3, <2>4
<1>11. PICK v \in VThreads : v = t
  BY <1>3
<1>12. Aware'
  BY <1>9, <1>10, <1>11 DEF Aware, Blocking
<1>13. NoLostReadiness'
  BY <1>1, <1>5 DEF NoLostReadiness
<1> QED
  BY <1>12, <1>13 DEF ReadinessInv

LEMMA RouteAware ==
  ASSUME PlaceInv, OneUser, ReadinessInv, NEW w \in Workers,
         RouteYield(w) \/ RouteSleep(w) \/ RouteIo(w) \/ RoutePark(w)
  PROVE  ReadinessInv'
<1>1. Typed /\ Aware /\ NoLostReadiness
  BY DEF PlaceInv, ReadinessInv
<1>2. PICK why : Routed(w, why)
  BY DEF RouteYield, RouteSleep, RouteIo, RoutePark
<1>3. PICK t \in VThreads : t = run[w] /\ t # NoVThread
  BY <1>2, RouteFacts
<1>4. /\ reason' = [reason EXCEPT ![t] = "yield"] /\ UNCHANGED <<vpc, chan>>
      /\ pc' = [pc EXCEPT ![w] = "seek"] /\ run' = [run EXCEPT ![w] = NoVThread]
  BY <1>2, <1>3 DEF Routed
<1>5. /\ UNCHANGED <<data, edge>>
      /\ \/ UNCHANGED <<ready, parkedIo>>
         \/ Routed(w, "io") /\ ready' = ready \ {chan[t]} /\ UNCHANGED parkedIo
         \/ /\ Routed(w, "io") /\ chan[t] \notin ready
            /\ parkedIo' = [parkedIo EXCEPT ![chan[t]] = t] /\ UNCHANGED ready
  BY <1>3 DEF RouteYield, RouteSleep, RouteIo, RoutePark, ioVars
<1>6. Routed(w, "io") => vpc[t] = "ioTry" /\ Blocking(t)
  BY <1>3, FreeSlot DEF Routed, Blocking
<1>7. ASSUME NEW u \in VThreads
      PROVE  /\ Blocking(u)' /\ chan'[u] \in data' => chan'[u] \in edge' \union ready'
             /\ reason'[u] = "io" => \E x \in Workers : run'[x] = u /\ pc'[x] \in {"switched", "route"}
  <2>1. reason'[u] = IF u = t THEN "yield" ELSE reason[u]
    BY <1>1, <1>4 DEF Typed
  <2>2. Blocking(u)' => Blocking(u)
    BY <1>4, <2>1 DEF Blocking
  <2>3. Blocking(u)' /\ Routed(w, "io") => chan[u] # chan[t]
    <3>1. u = t /\ Routed(w, "io") => ~ Blocking(u)'
      BY <1>4, <1>6, <2>1 DEF Blocking
    <3>2. u # t /\ Routed(w, "io") /\ Blocking(u) => chan[u] # chan[t]
      BY <1>1, <1>3, <1>6, BlockingAlone
    <3> QED
      BY <2>2, <3>1, <3>2
  <2>4. Blocking(u)' /\ chan'[u] \in data' => chan'[u] \in edge' \union ready'
    BY <1>1, <1>4, <1>5, <2>2, <2>3 DEF Aware
  <2>5. ASSUME reason'[u] = "io"
        PROVE  \E x \in Workers : run'[x] = u /\ pc'[x] \in {"switched", "route"}
    <3>1. u # t /\ reason[u] = "io"
      BY <2>1, <2>5
    <3>2. PICK x \in Workers : run[x] = u /\ pc[x] \in {"switched", "route"}
      BY <1>1, <3>1 DEF Aware
    <3>3. x # w /\ run'[x] = run[x] /\ pc'[x] = pc[x]
      BY <1>1, <1>3, <1>4, <3>1, <3>2 DEF Typed
    <3> QED
      BY <3>2, <3>3
  <2> QED
    BY <2>4, <2>5
<1>8. Aware'
  BY <1>7 DEF Aware
<1>9. NoLostReadiness'
  <2>1. CASE UNCHANGED parkedIo
    BY <1>1, <1>5, <2>1 DEF NoLostReadiness
  <2>2. CASE Routed(w, "io") /\ chan[t] \notin ready
             /\ parkedIo' = [parkedIo EXCEPT ![chan[t]] = t]
    <3>1. chan[t] \in data => chan[t] \in edge
      BY <1>1, <1>6, <2>2 DEF Aware
    <3>2. \A c \in Channels : parkedIo'[c] = parkedIo[c] \/ c = chan[t]
      BY <1>1, <2>2 DEF Typed
    <3> QED
      BY <1>1, <1>5, <3>1, <3>2 DEF NoLostReadiness
  <2> QED
    BY <1>5, <2>1, <2>2
<1> QED
  BY <1>8, <1>9 DEF ReadinessInv

LEMMA NextAware ==
  ASSUME PlaceInv, OneUser, ReadinessInv, [Next]_vars
  PROVE  ReadinessInv'
<1>1. Typed /\ Aware /\ NoLostReadiness
  BY DEF PlaceInv, ReadinessInv
\* A step of a worker that is not at a thread's code, of the program or of the timers.
<1>2. ASSUME UNCHANGED <<chan, data, edge, ready, parkedIo>>,
             \A v \in VThreads : (Blocking(v)' => Blocking(v)) /\ (reason'[v] = "io" => reason[v] = "io"),
             \A w \in Workers, v \in VThreads :
               run[w] = v /\ pc[w] \in {"switched", "route"} =>
                 reason'[v] # "io" \/ (run'[w] = v /\ pc'[w] \in {"switched", "route"})
      PROVE  ReadinessInv'
  <2>1. ASSUME NEW v \in VThreads
        PROVE  /\ Blocking(v)' /\ chan'[v] \in data' => chan'[v] \in edge' \union ready'
               /\ reason'[v] = "io" => \E w \in Workers : run'[w] = v /\ pc'[w] \in {"switched", "route"}
    BY <1>1, <1>2, AwareStays
  <2>2. Aware'
    BY <2>1 DEF Aware
  <2>3. NoLostReadiness'
    BY <1>1, <1>2 DEF NoLostReadiness
  <2> QED
    BY <2>2, <2>3 DEF ReadinessInv
<1>3. ASSUME NEW w \in Workers, Pick(w) PROVE ReadinessInv'
  <2>1. UNCHANGED <<chan, data, edge, ready, parkedIo, vpc, reason>>
    BY <1>3 DEF Pick, ioVars, threadVars
  <2>2. /\ pc[w] \in Idle
        /\ \A x \in Workers \ {w} : pc'[x] = pc[x] /\ run'[x] = run[x]
    <3>1. CASE Seek(w)
      BY <1>1, <3>1 DEF Seek, TakeBatch, Typed, Idle, queueVars
    <3>2. CASE SeekGlobal(w)
      BY <1>1, <3>2 DEF SeekGlobal, TakeBatch, Typed, Idle
    <3>3. CASE SeekOthers(w)
      BY <1>1, <3>3 DEF SeekOthers, Typed, Idle
    <3> QED
      BY <1>3, <3>1, <3>2, <3>3 DEF Pick
  <2>3. \A v \in VThreads : (Blocking(v)' => Blocking(v)) /\ (reason'[v] = "io" => reason[v] = "io")
    BY <2>1 DEF Blocking
  <2>4. \A x \in Workers : pc[x] \in {"switched", "route"} => run'[x] = run[x] /\ pc'[x] = pc[x]
    BY <2>2 DEF Idle
  <2> QED
    BY <1>2, <2>1, <2>3, <2>4
<1>4. ASSUME NEW w \in Workers, Resume(w) \/ Save(w) \/ Drop(w) \/ EndThread(w)
      PROVE  ReadinessInv'
  <2>1. UNCHANGED <<chan, data, edge, ready, parkedIo, reason>>
    BY <1>4 DEF Resume, Save, Drop, EndThread, ioVars
  <2>2. vpc' = vpc \/ vpc' = [vpc EXCEPT ![run[w]] = IF vpc[run[w]] = "spawned" THEN "program"
                                                    ELSE vpc[run[w]]]
    BY <1>4 DEF Resume, Save, Drop, EndThread
  <2>3. \A v \in VThreads : vpc'[v] = "ioWait" => vpc[v] = "ioWait"
    BY <1>1, <2>2 DEF Typed
  <2>4. \A v \in VThreads : (Blocking(v)' => Blocking(v)) /\ (reason'[v] = "io" => reason[v] = "io")
    BY <2>1, <2>3 DEF Blocking
  <2>5. /\ \A x \in Workers \ {w} : pc'[x] = pc[x] /\ run'[x] = run[x]
        /\ \/ pc[w] \in {"picked", "dropped"} \/ reason[run[w]] = "done"
           \/ run'[w] = run[w] /\ pc'[w] = "route"
    BY <1>1, <1>4 DEF Resume, Save, Drop, EndThread, Typed
  <2>6. \A x \in Workers, v \in VThreads :
          run[x] = v /\ pc[x] \in {"switched", "route"} =>
            reason'[v] # "io" \/ (run'[x] = v /\ pc'[x] \in {"switched", "route"})
    BY <2>1, <2>5
  <2> QED
    BY <1>2, <2>1, <2>4, <2>6
<1>5. ASSUME NEW u \in VThreads, Spawn(u) PROVE ReadinessInv'
  <2>1. /\ UNCHANGED <<chan, data, edge, ready, parkedIo, reason, pc, run>>
        /\ vpc' = [vpc EXCEPT ![u] = "spawned"]
    BY <1>5 DEF Spawn, ioVars, workerVars
  <2>2. \A v \in VThreads : vpc'[v] = "ioWait" => vpc[v] = "ioWait"
    BY <1>1, <2>1 DEF Typed
  <2>3. \A v \in VThreads : (Blocking(v)' => Blocking(v)) /\ (reason'[v] = "io" => reason[v] = "io")
    BY <2>1, <2>2 DEF Blocking
  <2> QED
    BY <1>2, <2>1, <2>3
<1>6. ASSUME NEW c \in Channels, Arrive(c) PROVE ReadinessInv'
  <2>1. /\ data' = data \union {c} /\ edge' = edge \union {c}
        /\ UNCHANGED <<ready, parkedIo, vpc, chan, reason, pc, run>>
    BY <1>6 DEF Arrive, workerVars, threadVars
  <2>2. ASSUME NEW v \in VThreads
        PROVE  /\ Blocking(v)' /\ chan'[v] \in data' => chan'[v] \in edge' \union ready'
               /\ reason'[v] = "io" => \E w \in Workers : run'[w] = v /\ pc'[w] \in {"switched", "route"}
    <3>1. Blocking(v)' <=> Blocking(v)
      BY <2>1 DEF Blocking
    <3> QED
      BY <1>1, <2>1, <3>1 DEF Aware
  <2>3. Aware'
    BY <2>2 DEF Aware
  <2>4. NoLostReadiness'
    BY <1>1, <2>1 DEF NoLostReadiness
  <2> QED
    BY <2>3, <2>4 DEF ReadinessInv
<1>7. ASSUME NEW c \in Channels, Deliver(c) PROVE ReadinessInv'
  <2>1. /\ edge' = edge \ {c} /\ UNCHANGED <<data, vpc, chan, reason, pc, run>>
        /\ \/ parkedIo[c] # NoVThread /\ parkedIo' = [parkedIo EXCEPT ![c] = NoVThread] /\ ready' = ready
           \/ parkedIo[c] = NoVThread /\ parkedIo' = parkedIo /\ ready' = ready \union {c}
    BY <1>7 DEF Deliver, workerVars, threadVars
  <2>2. ASSUME NEW v \in VThreads
        PROVE  /\ Blocking(v)' /\ chan'[v] \in data' => chan'[v] \in edge' \union ready'
               /\ reason'[v] = "io" => \E w \in Workers : run'[w] = v /\ pc'[w] \in {"switched", "route"}
    <3>1. Blocking(v)' <=> Blocking(v)
      BY <2>1 DEF Blocking
    <3>2. Blocking(v) => parkedIo[chan[v]] = NoVThread
      BY <1>1, BlockingAlone
    <3>3. Blocking(v) /\ chan[v] \in data => chan[v] \in edge' \union ready'
      BY <1>1, <2>1, <3>2 DEF Aware
    <3> QED
      BY <1>1, <2>1, <3>1, <3>3 DEF Aware
  <2>3. Aware'
    BY <2>2 DEF Aware
  <2>4. NoLostReadiness'
    <3>1. \A d \in Channels : parkedIo'[d] # NoVThread => d # c /\ parkedIo'[d] = parkedIo[d]
      BY <1>1, <2>1 DEF Typed
    <3> QED
      BY <1>1, <2>1, <3>1 DEF NoLostReadiness
  <2> QED
    BY <2>3, <2>4 DEF ReadinessInv
<1>8. ASSUME UNCHANGED <<ioVars, workerVars, threadVars>> PROVE ReadinessInv'
  <2>1. UNCHANGED <<chan, data, edge, ready, parkedIo, vpc, reason, pc, run>>
    BY <1>8 DEF ioVars, workerVars, threadVars
  <2>2. \A v \in VThreads : (Blocking(v)' => Blocking(v)) /\ (reason'[v] = "io" => reason[v] = "io")
    BY <2>1 DEF Blocking
  <2> QED
    BY <1>2, <2>1, <2>2
<1>9. ASSUME NEW w \in Workers, Pick(w) \/ Resume(w) \/ Program(w) \/ Route(w) PROVE ReadinessInv'
  BY <1>3, <1>4, <1>9, ProgramAware, RouteAware DEF Route
<1>10. \/ \E w \in Workers : Pick(w) \/ Resume(w) \/ Program(w) \/ Route(w)
       \/ \E u \in VThreads : Spawn(u)
       \/ \E c \in Channels : Arrive(c) \/ Deliver(c)
       \/ UNCHANGED <<ioVars, workerVars, threadVars>>
  BY DEF Next, PushExpired, UnparkThread, DrainTimers, Clock, vars
<1> QED
  BY <1>5, <1>6, <1>7, <1>8, <1>9, <1>10

\* No readiness is lost between a call that would block, the event and the worker that
\* parks the thread (vthread.rs:1068-1084, 1215-1220, 1411-1430), when no two threads wait
\* on the same channel.
THEOREM ReadinessKept ==
  ASSUME OneUser
  PROVE  Spec => []NoLostReadiness
<1>1. Init => ReadinessInv
  BY DEF Init, ReadinessInv, NoLostReadiness, Aware, Blocking
<1>2. PlaceInv /\ ReadinessInv /\ [Next]_vars => ReadinessInv'
  BY NextAware
<1>3. ReadinessInv => NoLostReadiness
  BY DEF ReadinessInv
<1> QED
  BY <1>1, <1>2, <1>3, PlaceInvariant, PTL DEF Spec

\* A thread parked on a channel leaves it for a run queue
\* (docs/STANDARD_LIBRARY_REFERENCE.md:703), when no two threads wait on the same channel.
\* Without that it does not hold.
THEOREM ParkedStay ==
  ASSUME OneUser
  PROVE  Spec => ParkedUntilReady
<1> DEFINE Queued == \A c \in Channels :
             parkedIo[c] # NoVThread /\ parkedIo'[c] # parkedIo[c] => Contains(priority', parkedIo[c])
<1>1. ASSUME PlaceInv, [Next]_vars PROVE Queued
  <2>1. Typed
    BY <1>1 DEF PlaceInv
  <2>2. ASSUME NEW w \in Workers, RouteIo(w), parkedIo' # parkedIo PROVE Queued
    <3>1. Routed(w, "io") /\ parkedIo' = [parkedIo EXCEPT ![chan[run[w]]] = run[w]]
      BY <2>2 DEF RouteIo
    <3>2. parkedIo[chan[run[w]]] = NoVThread
      BY <1>1, <3>1, FreeSlot
    <3> QED
      BY <2>1, <3>1, <3>2 DEF Typed
  <2>3. ASSUME NEW c \in Channels, Deliver(c), parkedIo' # parkedIo PROVE Queued
    <3>1. /\ priority' = Append(priority, parkedIo[c])
          /\ parkedIo' = [parkedIo EXCEPT ![c] = NoVThread]
          /\ parkedIo[c] \in VThreads
      BY <2>1, <2>3 DEF Deliver, Typed
    <3>2. \A d \in Channels : parkedIo'[d] # parkedIo[d] => d = c
      BY <2>1, <3>1 DEF Typed
    <3>3. Contains(priority', parkedIo[c])
      <4>1. /\ Len(priority') = Len(priority) + 1 /\ Len(priority) \in Nat
            /\ priority'[Len(priority) + 1] = parkedIo[c]
        BY <2>1, <3>1, AppendProperties, LenProperties DEF Typed
      <4> QED
        BY <4>1 DEF Contains
    <3> QED
      BY <3>2, <3>3
  <2>4. \/ \E w \in Workers : RouteIo(w)
        \/ \E c \in Channels : Deliver(c)
        \/ UNCHANGED parkedIo
    BY <1>1 DEF Next, Pick, Resume, Program, Yield, Sleep, Park, Finish, StartIo, TryIo, WaitIo,
       StartJoin, Join, Route, Save, RouteYield, RouteSleep, RoutePark, Drop, EndThread, Spawn,
       PushExpired, UnparkThread, Arrive, DrainTimers, Clock, vars, ioVars
  <2> QED
    BY <2>2, <2>3, <2>4
<1>2. PlaceInv /\ [Next]_vars => [Queued]_vars
  BY <1>1
<1> QED
  BY <1>2, PlaceInvariant, PTL DEF Spec, ParkedUntilReady

-----------------------------------------------------------------------------
(* Timers *)

TimeInv == now \in Nat /\ until \in [VThreads -> Nat]

LEMMA TimeKept ==
  ASSUME TimeInv, [Next]_vars
  PROVE  TimeInv'
<1> USE DEF TimeInv
<1>1. CASE DrainTimers
  BY <1>1 DEF DrainTimers
<1>2. CASE Clock
  BY <1>2 DEF Clock
<1>3. CASE \E w \in Workers : Sleep(w) \/ Join(w)
  BY <1>3, SchedulerAssumption DEF Sleep, Join, Deadline
<1>4. CASE UNCHANGED <<now, until>>
  BY <1>4
<1> QED
  BY <1>1, <1>2, <1>3, <1>4 DEF Next, Pick, Resume, Program, Yield, Park, Finish, StartIo, TryIo,
     WaitIo, StartJoin, Route, Save, RouteYield, RouteSleep, RouteIo, RoutePark, Drop, EndThread,
     Spawn, PushExpired, UnparkThread, Arrive, Deliver, vars, timerVars

LEMMA TimerSteps ==
  ASSUME TimeInv, timers \subseteq VThreads, [Next]_vars
  PROVE  \A v \in timers : v \notin timers' => now >= until[v]
<1>1. CASE DrainTimers
  BY <1>1 DEF DrainTimers, TimeInv
<1>2. CASE ~ DrainTimers
  <2>1. timers \subseteq timers'
    BY <1>2 DEF Next, Pick, Resume, Program, Yield, Sleep, Park, Finish, StartIo, TryIo, WaitIo,
       StartJoin, Join, Route, Save, RouteYield, RouteSleep, RouteIo, RoutePark, Drop, EndThread,
       Spawn, PushExpired, UnparkThread, Arrive, Deliver, Clock, vars, timerVars
  <2> QED
    BY <2>1
<1> QED
  BY <1>1, <1>2

\* A thread leaves the timers only when its time has passed (vthread.rs:971-985, 1537).
\* That no two threads wait on the same channel matters only to the types of the queues.
THEOREM SleepIsLong ==
  ASSUME OneUser
  PROVE  Spec => SleepsLongEnough
<1> DEFINE Due == \A v \in timers : v \notin timers' => now >= until[v]
<1>1. Init => TimeInv
  BY DEF Init, TimeInv
<1>2. TimeInv /\ [Next]_vars => TimeInv'
  BY TimeKept
<1>3. PlaceInv => timers \subseteq VThreads
  BY DEF PlaceInv, Typed
<1>4. TimeInv /\ PlaceInv /\ [Next]_vars => [Due]_vars
  BY <1>3, TimerSteps
<1> QED
  BY <1>1, <1>2, <1>4, PlaceInvariant, PTL DEF Spec, SleepsLongEnough

=============================================================================
