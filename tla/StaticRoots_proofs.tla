------------------------- MODULE StaticRoots_proofs --------------------------
(***************************************************************************)
(* Proofs about the two users of static roots: ThreadObject, for any       *)
(* number of callers, and ConstStrings, for any literals, cache and number *)
(* of threads.                                                             *)
(***************************************************************************)
EXTENDS ThreadObject, ConstStrings, TLAPS

-----------------------------------------------------------------------------
(* Thread objects.  RootInStep is not inductive.  ThreadInv adds that the  *)
(* root is given up exactly when cb_released is set, what begun and        *)
(* running say of the virtual thread, and that nobody uses the object      *)
(* after the finalizer.                                                    *)

CallerSteps == {"idle", "start", "join", "wait", "detach", "done"}

ThreadTypeInv ==
  /\ begun \in BOOLEAN /\ running \in BOOLEAN /\ released \in BOOLEAN
  /\ root \in {"own", "free", "other"} /\ box \in {"held", "freed"}
  /\ caller \in [Callers \cup {Finalizer} -> CallerSteps]
  /\ vthread \in {"none", "ready", "called", "ended"}

\* Whoever sets cb_released gives the root back, once.
RootInv == released = (root # "own")

\* The virtual thread gives the root back before it is seen to have ended.
VThreadInv ==
  /\ begun = (vthread # "none")
  /\ ~running => vthread = "ended"
  /\ vthread = "ready" => ~released
  /\ vthread = "ended" => released
  /\ ran \in {"", "own"}

\* Who frees the box has given the root back, or leaves that to the virtual thread.
UsersInv ==
  /\ caller[Finalizer] \in {"idle", "done"}
  /\ caller[Finalizer] = "idle" =>
       /\ released => begun
       /\ box = "freed" => released
  /\ caller[Finalizer] = "done" =>
       /\ released \/ (begun /\ running)
       /\ \A c \in Callers : caller[c] = "done"
  /\ \A c \in Callers : caller[c] = "detach" => released

ThreadInv == ThreadTypeInv /\ RootInv /\ VThreadInv /\ UsersInv

LEMMA ThreadInitInv == ThreadInit => ThreadInv
BY CallersAssumption
DEF ThreadInit, ThreadInv, ThreadTypeInv, RootInv, VThreadInv, UsersInv, CallerSteps

\* A step of one caller leaves the finalizer where it is.
LEMMA CallerMoves ==
  ASSUME ThreadTypeInv, NEW c \in Callers, NEW from \in CallerSteps, NEW to \in CallerSteps,
         Moves(c, from, to)
  PROVE  /\ caller[c] = from /\ caller'[c] = to
         /\ \A d \in (Callers \cup {Finalizer}) \ {c} : caller'[d] = caller[d]
         /\ caller' \in [Callers \cup {Finalizer} -> CallerSteps]
         /\ caller'[Finalizer] = caller[Finalizer]
BY CallersAssumption DEF ThreadTypeInv, Moves

LEMMA EnterPreserves == ASSUME ThreadInv, NEW c \in Callers, Enter(c) PROVE ThreadInv'
<1> USE DEF ThreadInv
<1>1. PICK to \in {"start", "join", "done"} : Moves(c, "idle", to)
  BY DEF Enter
<1>2. /\ caller[c] = "idle" /\ caller'[c] = to
      /\ \A d \in (Callers \cup {Finalizer}) \ {c} : caller'[d] = caller[d]
      /\ caller' \in [Callers \cup {Finalizer} -> CallerSteps]
      /\ caller'[Finalizer] = caller[Finalizer]
  BY <1>1, CallerMoves DEF CallerSteps
<1> QED
  BY <1>2 DEF Enter, ThreadTypeInv, RootInv, VThreadInv, UsersInv

\* The swap of begun starts the virtual thread before the root is given back.
LEMMA StartPreserves ==
  ASSUME ThreadInv, NEW c \in Callers, NEW from \in {"start", "join"}, NEW to \in {"wait", "done"},
         StartOnce(c, from, to)
  PROVE  ThreadInv'
<1> USE DEF ThreadInv
<1>1. /\ caller[c] = from /\ caller'[c] = to
      /\ \A d \in (Callers \cup {Finalizer}) \ {c} : caller'[d] = caller[d]
      /\ caller' \in [Callers \cup {Finalizer} -> CallerSteps]
      /\ caller'[Finalizer] = caller[Finalizer]
  BY CallerMoves DEF StartOnce, CallerSteps
<1>2. caller[Finalizer] = "idle"
  BY <1>1 DEF UsersInv
<1> QED
  BY <1>1, <1>2 DEF StartOnce, ThreadTypeInv, RootInv, VThreadInv, UsersInv

LEMMA JoinStartsPreserves == ASSUME ThreadInv, NEW c \in Callers, JoinStarts(c) PROVE ThreadInv'
<1> USE DEF ThreadInv
<1>1. CASE StartOnce(c, "join", "wait")
  BY <1>1, StartPreserves
<1>2. CASE Moves(c, "join", "wait") /\ UNCHANGED <<begun, running, released, root, box, vthread, ran>>
  <2>1. /\ caller'[c] = "wait"
        /\ \A d \in (Callers \cup {Finalizer}) \ {c} : caller'[d] = caller[d]
        /\ caller' \in [Callers \cup {Finalizer} -> CallerSteps]
        /\ caller'[Finalizer] = caller[Finalizer]
        /\ caller[c] = "join"
    BY <1>2, CallerMoves DEF CallerSteps
  <2> QED
    BY <1>2, <2>1 DEF ThreadTypeInv, RootInv, VThreadInv, UsersInv
<1> QED
  BY <1>1, <1>2 DEF JoinStarts

LEMMA JoinReleasesPreserves == ASSUME ThreadInv, NEW c \in Callers, JoinReleases(c) PROVE ThreadInv'
<1> USE DEF ThreadInv
<1>1. /\ caller[c] = "wait" /\ caller'[c] = "detach"
      /\ \A d \in (Callers \cup {Finalizer}) \ {c} : caller'[d] = caller[d]
      /\ caller' \in [Callers \cup {Finalizer} -> CallerSteps]
      /\ caller'[Finalizer] = caller[Finalizer]
  BY CallerMoves DEF JoinReleases, CallerSteps
<1> QED
  BY <1>1 DEF JoinReleases, ReleaseRoot, ThreadTypeInv, RootInv, VThreadInv, UsersInv

LEMMA JoinFreesPreserves == ASSUME ThreadInv, NEW c \in Callers, JoinFrees(c) PROVE ThreadInv'
<1> USE DEF ThreadInv
<1>1. /\ caller[c] = "detach" /\ caller'[c] = "done"
      /\ \A d \in (Callers \cup {Finalizer}) \ {c} : caller'[d] = caller[d]
      /\ caller' \in [Callers \cup {Finalizer} -> CallerSteps]
      /\ caller'[Finalizer] = caller[Finalizer]
  BY CallerMoves DEF JoinFrees, CallerSteps
<1> QED
  BY <1>1 DEF JoinFrees, ThreadTypeInv, RootInv, VThreadInv, UsersInv

LEMMA FinalizePreserves == ASSUME ThreadInv, Finalize PROVE ThreadInv'
<1> USE DEF ThreadInv
<1>1. caller' = [c \in Callers \cup {Finalizer} |-> "done"]
  BY DEF Finalize, ThreadTypeInv
<1>2. caller[Finalizer] = "idle"
  BY DEF Finalize
<1>3. released' \/ (begun /\ running)
  BY <1>2 DEF Finalize, FinalizeReleases, ReleaseRoot, UsersInv, ThreadTypeInv
<1>4. vthread = "ready" => ~released'
  BY DEF Finalize, FinalizeReleases, ReleaseRoot, VThreadInv, ThreadTypeInv
<1> QED
  BY <1>1, <1>2, <1>3, <1>4
  DEF Finalize, ReleaseRoot, ThreadTypeInv, RootInv, VThreadInv, UsersInv, CallerSteps

LEMMA ThreadStepInv == ThreadInv /\ [ThreadNext]_threadVars => ThreadInv'
<1> SUFFICES ASSUME ThreadInv, [ThreadNext]_threadVars PROVE ThreadInv'
  OBVIOUS
<1>1. ASSUME NEW c \in Callers, Enter(c) PROVE ThreadInv'
  BY <1>1, EnterPreserves
<1>2. ASSUME NEW c \in Callers, Start(c) PROVE ThreadInv'
  BY <1>2, StartPreserves DEF Start
<1>3. ASSUME NEW c \in Callers, JoinStarts(c) PROVE ThreadInv'
  BY <1>3, JoinStartsPreserves
<1>4. ASSUME NEW c \in Callers, JoinReleases(c) PROVE ThreadInv'
  BY <1>4, JoinReleasesPreserves
<1>5. ASSUME NEW c \in Callers, JoinFrees(c) PROVE ThreadInv'
  BY <1>5, JoinFreesPreserves
<1>6. CASE Finalize
  BY <1>6, FinalizePreserves
<1>7. CASE ReadRoot
  BY <1>7 DEF ReadRoot, ThreadInv, ThreadTypeInv, RootInv, VThreadInv, UsersInv
<1>8. CASE DropGuard
  BY <1>8 DEF DropGuard, ReleaseRoot, ThreadInv, ThreadTypeInv, RootInv, VThreadInv, UsersInv
<1>9. CASE EndVThread
  BY <1>9 DEF EndVThread, ThreadInv, ThreadTypeInv, RootInv, VThreadInv, UsersInv
<1>10. CASE TakeRoot
  BY <1>10 DEF TakeRoot, ThreadInv, ThreadTypeInv, RootInv, VThreadInv, UsersInv
<1>11. CASE UNCHANGED threadVars
  BY <1>11 DEF threadVars, ThreadInv, ThreadTypeInv, RootInv, VThreadInv, UsersInv
<1> QED
  BY <1>1, <1>2, <1>3, <1>4, <1>5, <1>6, <1>7, <1>8, <1>9, <1>10, <1>11 DEF ThreadNext

\* However many threads start and join the object, the virtual thread finds the object's own
\* callback in the root, and the root is given back once the object is gone and the thread has
\* ended (rt_release_thread_cb_slot, ThreadRunGuard, rt_thread_object_finalizer).
THEOREM RootFollowsObject == ThreadSpec => []RootInStep
<1>1. ThreadInit => ThreadInv
  BY ThreadInitInv
<1>2. ThreadInv /\ [ThreadNext]_threadVars => ThreadInv'
  BY ThreadStepInv
<1>3. ThreadInv => RootInStep
  BY DEF ThreadInv, ThreadTypeInv, RootInv, VThreadInv, UsersInv, RootInStep, RunsOwnCallback, RootNotLeaked
<1> QED
  BY <1>1, <1>2, <1>3, PTL DEF ThreadSpec

\* No call gives a root back that another object has got since (rt_release_thread_cb_slot).
THEOREM OtherRootsSpared == ThreadSpec => SparesOtherRoots
<1>1. ThreadInit => ThreadInv
  BY ThreadInitInv
<1>2. ThreadInv /\ [ThreadNext]_threadVars => ThreadInv'
  BY ThreadStepInv
<1>3. ThreadInv /\ [ThreadNext]_threadVars => (root = "other" => root' = "other")
  <2> SUFFICES ASSUME ThreadInv, [ThreadNext]_threadVars, root = "other" PROVE root' = "other"
    OBVIOUS
  <2>1. released
    BY DEF ThreadInv, RootInv
  <2>2. ReleaseRoot => root' = root
    BY <2>1 DEF ReleaseRoot
  <2> QED
    BY <2>2 DEF ThreadNext, threadVars, Enter, Start, StartOnce, JoinStarts, JoinReleases, JoinFrees,
                Finalize, ReadRoot, DropGuard, EndVThread, TakeRoot
<1> QED
  BY <1>1, <1>2, <1>3, PTL DEF ThreadSpec, SparesOtherRoots

-----------------------------------------------------------------------------
(* String literals.  LiteralsAgree is not inductive.  CacheInv adds what   *)
(* the tables say of each other, that one thread at a time writes to the   *)
(* cache, between which of its two writes an entry may be out of step, and *)
(* that a root in an entry is one of a literal of that entry.              *)

Steps == {"idle", "match", "hit", "find", "findBytes", "make", "cacheRoot", "cacheAddress", "done"}
Entries == Range(CacheIndex)
StringsMade == {Contents[p] : p \in Literals}

CacheTypeInv ==
  /\ cache \in [Entries -> [of : Literals \cup {NoRoot}, root : Nat]]
  /\ rooted \in Seq(StringsMade)
  /\ tablesHeld \in BOOLEAN
  /\ reader \in [Readers -> [at : Steps, of : Literals \cup {NoRoot}, root : Nat]]
  /\ \A r \in Readers : reader[r].at # "idle" => reader[r].of \in Literals

\* Each table leads to the strings there are, and the one by contents to all of them.
TablesInv ==
  /\ \A p \in DOMAIN byAddress :
       p \in Literals /\ byAddress[p] \in DOMAIN rooted /\ rooted[byAddress[p]] = Contents[p]
  /\ \A b \in DOMAIN byBytes : byBytes[b] \in DOMAIN rooted /\ rooted[byBytes[b]] = b
  /\ \A i \in DOMAIN rooted : rooted[i] \in DOMAIN byBytes /\ byBytes[rooted[i]] = i

Writes(r) == reader[r].at \in {"cacheRoot", "cacheAddress"}

\* A thread that writes to the cache has the lock, and the right root.
WritersInv ==
  /\ \A r \in Readers : Writes(r) =>
       tablesHeld /\ reader[r].root \in DOMAIN rooted /\ rooted[reader[r].root] = Contents[reader[r].of]
  /\ \A r \in Readers : reader[r].at = "cacheAddress" => cache[SlotOf(r)].root = reader[r].root
  /\ \A r, q \in Readers : Writes(r) /\ Writes(q) => r = q

\* Of these strings, the one in this root is that of a literal with the entry i.
OfEntry(strings, str, i) ==
  str \in DOMAIN strings /\ \E p \in Literals : CacheIndex[p] = i /\ strings[str] = Contents[p]

\* An entry is out of step between the two writes only.
EntriesInv ==
  \A i \in Entries :
    /\ cache[i].root # NoRoot => OfEntry(rooted, cache[i].root, i)
    /\ cache[i].of # NoRoot =>
         /\ CacheIndex[cache[i].of] = i /\ cache[i].root # NoRoot
         /\ \/ rooted[cache[i].root] = Contents[cache[i].of]
            \/ \E r \in Readers : reader[r].at = "cacheAddress" /\ SlotOf(r) = i

DoneInv == \A r \in Readers : reader[r].at = "done" => OfEntry(rooted, reader[r].root, SlotOf(r))

CacheInv == CacheTypeInv /\ TablesInv /\ WritersInv /\ EntriesInv /\ DoneInv

\* An entry of the cache is there for every literal.
LEMMA EntryOf == ASSUME NEW p \in Literals PROVE CacheIndex[p] \in Entries
BY ConstAssumption DEF Entries, Range

LEMMA CacheInitInv == ConstInit => CacheInv
<1> SUFFICES ASSUME ConstInit PROVE CacheInv
  OBVIOUS
<1> USE ConstAssumption DEF ConstInit
<1>1. CacheTypeInv
  <2>1. cache \in [Entries -> [of : Literals \cup {NoRoot}, root : Nat]]
    BY DEF Entries, NoRoot
  <2>2. rooted \in Seq(StringsMade)
    OBVIOUS
  <2>3. reader \in [Readers -> [at : Steps, of : Literals \cup {NoRoot}, root : Nat]]
    BY DEF Steps, NoRoot
  <2> QED
    BY <2>1, <2>2, <2>3 DEF CacheTypeInv
<1>2. TablesInv
  BY DEF TablesInv
<1>3. WritersInv /\ EntriesInv /\ DoneInv
  BY DEF WritersInv, EntriesInv, DoneInv, Writes, Entries, NoRoot
<1> QED
  BY <1>1, <1>2, <1>3 DEF CacheInv

\* What a step that leaves the cache, the tables and the lock alone has to show: that its
\* thread does not begin to write, and is done only with a root of its entry.
LEMMA MovesOn ==
  ASSUME CacheInv, NEW r \in Readers, ~Writes(r),
         NEW next \in [at : Steps \ {"cacheRoot", "cacheAddress"}, of : Literals \cup {NoRoot}, root : Nat],
         Step(r, next), UNCHANGED <<cache, tableVars, tablesHeld>>,
         next.at # "idle" => next.of \in Literals,
         next.at = "done" => OfEntry(rooted, next.root, CacheIndex[next.of])
  PROVE  CacheInv'
<1> USE DEF CacheInv, tableVars
<1>1. reader' = [reader EXCEPT ![r] = next]
  BY DEF Step
<1>2. CacheTypeInv'
  BY <1>1 DEF CacheTypeInv
<1>3. TablesInv'
  BY DEF TablesInv
<1>4. /\ reader'[r] = next
      /\ \A q \in Readers \ {r} : reader'[q] = reader[q]
  BY <1>1 DEF CacheTypeInv
<1>5. WritersInv'
  BY <1>4 DEF WritersInv, Writes, SlotOf
<1>6. EntriesInv'
  BY <1>4 DEF EntriesInv, OfEntry, SlotOf, Writes
<1>7. DoneInv'
  BY <1>4 DEF DoneInv, OfEntry, SlotOf
<1> QED
  BY <1>2, <1>3, <1>5, <1>6, <1>7

LEMMA EvaluatePreserves == ASSUME CacheInv, NEW r \in Readers, Evaluate(r) PROVE CacheInv'
<1>1. PICK p \in Literals : Step(r, [at |-> "match", of |-> p, root |-> NoRoot])
  BY DEF Evaluate
<1> QED
  BY <1>1, MovesOn DEF Evaluate, Writes, Steps, NoRoot

LEMMA ComparePreserves == ASSUME CacheInv, NEW r \in Readers, Compare(r) PROVE CacheInv'
<1>1. PICK p \in {"hit", "find"} : Step(r, Reading(r, p))
  BY DEF Compare
<1>2. reader[r].of \in Literals /\ reader[r].root \in Nat
  BY DEF CacheInv, CacheTypeInv, Compare
<1>3. Reading(r, p) \in [at : Steps \ {"cacheRoot", "cacheAddress"}, of : Literals \cup {NoRoot}, root : Nat]
  BY <1>2 DEF Reading, Steps
<1> QED
  BY <1>1, <1>2, <1>3, MovesOn DEF Compare, Writes, Reading

LEMMA HitPreserves == ASSUME CacheInv, NEW r \in Readers, Hit(r) PROVE CacheInv'
<1> DEFINE str == cache[SlotOf(r)].root
<1>1. reader[r].of \in Literals /\ reader[r].root \in Nat /\ SlotOf(r) \in Entries
  BY EntryOf DEF CacheInv, CacheTypeInv, Hit, SlotOf
<1>2. str \in Nat
  BY <1>1 DEF CacheInv, CacheTypeInv
<1>3. CASE str = NoRoot
  <2>1. Step(r, Reading(r, "find"))
    BY <1>3 DEF Hit
  <2>2. Reading(r, "find") \in [at : Steps \ {"cacheRoot", "cacheAddress"}, of : Literals \cup {NoRoot}, root : Nat]
    BY <1>1 DEF Reading, Steps
  <2> QED
    BY <1>1, <2>1, <2>2, MovesOn DEF Hit, Writes, Reading
<1>4. CASE str # NoRoot
  <2>1. Step(r, [at |-> "done", of |-> reader[r].of, root |-> str])
    BY <1>4 DEF Hit
  <2>2. OfEntry(rooted, str, SlotOf(r))
    BY <1>1, <1>4 DEF CacheInv, EntriesInv
  <2> QED
    BY <1>1, <1>2, <2>1, <2>2, MovesOn DEF Hit, Writes, Steps, SlotOf
<1> QED
  BY <1>3, <1>4

\* A thread that has found the root of its literal takes the lock.
LEMMA FoundPreserves ==
  ASSUME CacheInv, NEW r \in Readers, reader[r].at \in {"find", "findBytes"}, ~tablesHeld,
         NEW str \in DOMAIN rooted, rooted[str] = Contents[reader[r].of],
         Found(r, str), UNCHANGED <<cache, tableVars>>
  PROVE  CacheInv'
<1> USE DEF CacheInv, tableVars
<1>0. str \in Nat /\ reader[r].of \in Literals
  BY DEF CacheTypeInv
<1>1. reader' = [reader EXCEPT ![r] = [at |-> "cacheRoot", of |-> reader[r].of, root |-> str]]
  BY DEF Found, Step
<1>2. CacheTypeInv'
  BY <1>0, <1>1 DEF CacheTypeInv, Found, Steps
<1>3. TablesInv'
  BY DEF TablesInv
<1>4. /\ reader'[r] = [at |-> "cacheRoot", of |-> reader[r].of, root |-> str]
      /\ \A q \in Readers \ {r} : reader'[q] = reader[q]
  BY <1>1 DEF CacheTypeInv
<1>5. \A q \in Readers : ~Writes(q)
  BY DEF WritersInv
<1>6. WritersInv'
  BY <1>4, <1>5 DEF WritersInv, Writes, SlotOf, Found
<1>7. EntriesInv'
  BY <1>4, <1>5 DEF EntriesInv, OfEntry, SlotOf, Writes
<1>8. DoneInv'
  BY <1>4 DEF DoneInv, OfEntry, SlotOf
<1> QED
  BY <1>2, <1>3, <1>6, <1>7, <1>8

LEMMA FindByAddressPreserves == ASSUME CacheInv, NEW r \in Readers, FindByAddress(r) PROVE CacheInv'
<1> DEFINE str == Under(byAddress, reader[r].of)
<1>1. reader[r].of \in Literals /\ reader[r].root \in Nat
  BY DEF CacheInv, CacheTypeInv, FindByAddress
<1>2. CASE str # NoRoot
  <2>1. str \in DOMAIN rooted /\ rooted[str] = Contents[reader[r].of]
    BY <1>2 DEF CacheInv, TablesInv, Under
  <2> QED
    BY <1>2, <2>1, FoundPreserves DEF FindByAddress
<1>3. CASE str = NoRoot
  <2>1. Step(r, Reading(r, "findBytes")) /\ UNCHANGED tablesHeld
    BY <1>3 DEF FindByAddress
  <2>2. Reading(r, "findBytes") \in [at : Steps \ {"cacheRoot", "cacheAddress"}, of : Literals \cup {NoRoot}, root : Nat]
    BY <1>1 DEF Reading, Steps
  <2> QED
    BY <1>1, <2>1, <2>2, MovesOn DEF FindByAddress, Writes, Reading
<1> QED
  BY <1>2, <1>3

LEMMA FindByBytesPreserves == ASSUME CacheInv, NEW r \in Readers, FindByBytes(r) PROVE CacheInv'
<1> DEFINE str == Under(byBytes, Bytes(r))
<1>1. reader[r].of \in Literals /\ reader[r].root \in Nat
  BY DEF CacheInv, CacheTypeInv, FindByBytes
<1>2. CASE str # NoRoot
  <2>1. str \in DOMAIN rooted /\ rooted[str] = Contents[reader[r].of]
    BY <1>2 DEF CacheInv, TablesInv, Under, Bytes
  <2> QED
    BY <1>2, <2>1, FoundPreserves DEF FindByBytes
<1>3. CASE str = NoRoot
  <2>1. Step(r, Reading(r, "make")) /\ UNCHANGED tablesHeld
    BY <1>3 DEF FindByBytes
  <2>2. Reading(r, "make") \in [at : Steps \ {"cacheRoot", "cacheAddress"}, of : Literals \cup {NoRoot}, root : Nat]
    BY <1>1 DEF Reading, Steps
  <2> QED
    BY <1>1, <2>1, <2>2, MovesOn DEF FindByBytes, Writes, Reading
<1> QED
  BY <1>2, <1>3

\* The string gets a new root, unless another thread has made one for the same bytes.
LEMMA MakePreserves == ASSUME CacheInv, NEW r \in Readers, Make(r) PROVE CacheInv'
<1> USE DEF CacheInv
<1> DEFINE old == Under(byBytes, Bytes(r))
           str == IF old = NoRoot THEN Len(rooted) + 1 ELSE old
<1>1. /\ reader[r].at = "make" /\ ~tablesHeld
      /\ Intern(r, str)
      /\ UNCHANGED cache
  BY DEF Make
<1>2. reader[r].of \in Literals /\ Bytes(r) \in StringsMade /\ Bytes(r) = Contents[reader[r].of]
  BY <1>1 DEF CacheTypeInv, Bytes, StringsMade
<1>3. rooted \in Seq(StringsMade) /\ DOMAIN rooted = 1..Len(rooted) /\ Len(rooted) \in Nat
  BY DEF CacheTypeInv
<1>5. \A q \in Readers : ~Writes(q)
  BY <1>1 DEF WritersInv
<1>6. /\ rooted' \in Seq(StringsMade)
      /\ DOMAIN rooted \subseteq DOMAIN rooted'
      /\ \A i \in DOMAIN rooted : rooted'[i] = rooted[i]
      /\ str \in DOMAIN rooted' /\ rooted'[str] = Bytes(r)
      /\ \A i \in DOMAIN rooted' : i \in DOMAIN rooted \/ i = str
      /\ byBytes' = With(byBytes, Bytes(r), str)
  <2>1. CASE old # NoRoot
    BY <1>1, <1>3, <2>1 DEF TablesInv, Under, Intern
  <2>2. CASE old = NoRoot
    <3>1. str = Len(rooted) + 1
      BY <2>2
    <3>2. rooted' = Append(rooted, Bytes(r))
      <4> HIDE DEF str
      <4>1. rooted' = IF str > Len(rooted) THEN Append(rooted, Bytes(r)) ELSE rooted
        BY <1>1, Zenon DEF Intern
      <4>2. str > Len(rooted)
        BY <1>3, <3>1
      <4> QED
        BY <4>1, <4>2, Zenon
    <3> QED
      BY <1>1, <1>2, <1>3, <3>1, <3>2 DEF Intern
  <2> QED
    BY <2>1, <2>2
<1>7. reader' = [reader EXCEPT ![r] = [at |-> "cacheRoot", of |-> reader[r].of, root |-> str]]
  BY <1>1 DEF Intern, Found, Step
<1>8. /\ reader'[r] = [at |-> "cacheRoot", of |-> reader[r].of, root |-> str]
      /\ \A q \in Readers \ {r} : reader'[q] = reader[q]
  BY <1>7 DEF CacheTypeInv
<1>9. str \in Nat
  BY <1>6
<1>10. CacheTypeInv'
  BY <1>1, <1>2, <1>6, <1>7, <1>9 DEF CacheTypeInv, Steps, Intern, Found
<1>11. TablesInv'
  <2>1. byAddress' = With(byAddress, reader[r].of, str)
    BY <1>1 DEF Intern
  <2>2. \A p \in DOMAIN byAddress' :
          p \in Literals /\ byAddress'[p] \in DOMAIN rooted' /\ rooted'[byAddress'[p]] = Contents[p]
    BY <1>2, <1>6, <2>1 DEF TablesInv, With
  <2>3. \A b \in DOMAIN byBytes' : byBytes'[b] \in DOMAIN rooted' /\ rooted'[byBytes'[b]] = b
    BY <1>6 DEF TablesInv, With
  <2>4. \A i \in DOMAIN rooted' : rooted'[i] \in DOMAIN byBytes' /\ byBytes'[rooted'[i]] = i
    <3> SUFFICES ASSUME NEW i \in DOMAIN rooted'
                 PROVE  rooted'[i] \in DOMAIN byBytes' /\ byBytes'[rooted'[i]] = i
      OBVIOUS
    <3>1. CASE i = str
      BY <1>6, <3>1 DEF With
    <3>2. CASE i # str
      <4>1. i \in DOMAIN rooted /\ rooted[i] \in DOMAIN byBytes /\ byBytes[rooted[i]] = i
        BY <1>6, <3>2 DEF TablesInv
      <4>2. rooted[i] # Bytes(r)
        BY <1>3, <3>2, <4>1 DEF Under, NoRoot
      <4> QED
        BY <1>6, <4>1, <4>2 DEF With
    <3> QED
      BY <3>1, <3>2
  <2> QED
    BY <2>2, <2>3, <2>4 DEF TablesInv
<1>12. WritersInv'
  <2>1. \A q \in Readers : Writes(q)' => q = r
    BY <1>5, <1>8 DEF Writes
  <2>2. reader'[r].at = "cacheRoot" /\ reader'[r].root = str /\ reader'[r].of = reader[r].of
    BY <1>8
  <2>3. tablesHeld'
    BY <1>1 DEF Intern, Found
  <2>4. str \in DOMAIN rooted' /\ rooted'[str] = Contents[reader[r].of]
    BY <1>2, <1>6
  <2> HIDE DEF str
  <2>5. \A q \in Readers : Writes(q)' =>
          tablesHeld' /\ reader'[q].root \in DOMAIN rooted'
            /\ rooted'[reader'[q].root] = Contents[reader'[q].of]
    BY ONLY <2>1, <2>2, <2>3, <2>4
  <2>6. \A q \in Readers : reader'[q].at # "cacheAddress"
    BY <2>1, <2>2 DEF Writes
  <2>7. \A p, q \in Readers : Writes(p)' /\ Writes(q)' => p = q
    BY ONLY <2>1
  <2> QED
    BY <2>5, <2>6, <2>7 DEF WritersInv
<1>13. \A k, i : OfEntry(rooted, k, i) => OfEntry(rooted', k, i)
  BY <1>6 DEF OfEntry
<1>14. EntriesInv'
  BY <1>1, <1>5, <1>6, <1>13 DEF EntriesInv, OfEntry, Writes
<1>15. DoneInv'
  BY <1>8, <1>13 DEF DoneInv, SlotOf
<1> QED
  BY <1>10, <1>11, <1>12, <1>14, <1>15

LEMMA CacheRootPreserves == ASSUME CacheInv, NEW r \in Readers, CacheRoot(r) PROVE CacheInv'
<1> USE DEF CacheInv
<1>1. /\ reader[r].of \in Literals /\ SlotOf(r) \in Entries /\ Writes(r)
      /\ reader[r].root \in Nat
  BY EntryOf DEF CacheTypeInv, CacheRoot, SlotOf, Writes
<1>2. OfEntry(rooted, reader[r].root, SlotOf(r)) /\ reader[r].root # NoRoot
  BY <1>1 DEF WritersInv, OfEntry, SlotOf, CacheTypeInv, NoRoot
<1>3. reader' = [reader EXCEPT ![r] = Reading(r, "cacheAddress")]
  BY DEF CacheRoot, Step
<1>4. /\ reader'[r] = Reading(r, "cacheAddress")
      /\ \A q \in Readers \ {r} : reader'[q] = reader[q]
  BY <1>3 DEF CacheTypeInv
<1>5. /\ cache'[SlotOf(r)] = [of |-> cache[SlotOf(r)].of, root |-> reader[r].root]
      /\ \A i \in Entries \ {SlotOf(r)} : cache'[i] = cache[i]
  BY <1>1 DEF CacheRoot, CacheTypeInv
<1>6. rooted' = rooted /\ UNCHANGED <<byAddress, byBytes, tablesHeld>>
  BY DEF CacheRoot, tableVars
<1>7. CacheTypeInv'
  BY <1>1, <1>3, <1>6 DEF CacheTypeInv, CacheRoot, Reading, Steps
<1>8. TablesInv'
  BY <1>6 DEF TablesInv
<1>9. SlotOf(r)' = SlotOf(r) /\ \A q \in Readers \ {r} : SlotOf(q)' = SlotOf(q)
  BY <1>4 DEF SlotOf, Reading
<1>10. WritersInv'
  BY <1>1, <1>4, <1>5, <1>6, <1>9 DEF WritersInv, Writes, Reading
<1>11. \A k, i : OfEntry(rooted, k, i) => OfEntry(rooted', k, i)
  BY <1>6 DEF OfEntry
<1>12. EntriesInv'
  <2> SUFFICES ASSUME NEW i \in Entries
               PROVE  /\ cache'[i].root # NoRoot => OfEntry(rooted', cache'[i].root, i)
                      /\ cache'[i].of # NoRoot =>
                           /\ CacheIndex[cache'[i].of] = i /\ cache'[i].root # NoRoot
                           /\ \/ rooted'[cache'[i].root] = Contents[cache'[i].of]
                              \/ \E q \in Readers : reader'[q].at = "cacheAddress" /\ SlotOf(q)' = i
    BY DEF EntriesInv
  <2>1. CASE i = SlotOf(r)
    BY <1>2, <1>4, <1>5, <1>9, <1>11, <2>1 DEF EntriesInv, Reading
  <2>2. CASE i # SlotOf(r)
    BY <1>1, <1>4, <1>5, <1>6, <1>9, <1>11, <2>2 DEF EntriesInv, Reading, WritersInv, Writes
  <2> QED
    BY <2>1, <2>2
<1>13. DoneInv'
  BY <1>4, <1>9, <1>11 DEF DoneInv, Reading
<1> QED
  BY <1>7, <1>8, <1>10, <1>12, <1>13

LEMMA CacheAddressPreserves == ASSUME CacheInv, NEW r \in Readers, CacheAddress(r) PROVE CacheInv'
<1> USE DEF CacheInv
<1>1. /\ reader[r].of \in Literals /\ SlotOf(r) \in Entries /\ Writes(r)
      /\ reader[r].root \in Nat
  BY EntryOf DEF CacheTypeInv, CacheAddress, SlotOf, Writes
<1>2. /\ reader[r].root \in DOMAIN rooted /\ reader[r].root # NoRoot
      /\ rooted[reader[r].root] = Contents[reader[r].of]
      /\ cache[SlotOf(r)].root = reader[r].root
  BY <1>1 DEF WritersInv, CacheTypeInv, NoRoot, CacheAddress
<1>3. reader' = [reader EXCEPT ![r] = Reading(r, "done")]
  BY DEF CacheAddress, Step
<1>4. /\ reader'[r] = Reading(r, "done")
      /\ \A q \in Readers \ {r} : reader'[q] = reader[q] /\ ~Writes(q)
  BY <1>1, <1>3 DEF CacheTypeInv, WritersInv
<1>5. /\ cache'[SlotOf(r)] = [of |-> reader[r].of, root |-> cache[SlotOf(r)].root]
      /\ \A i \in Entries \ {SlotOf(r)} : cache'[i] = cache[i]
  BY <1>1 DEF CacheAddress, CacheTypeInv
<1>6. UNCHANGED <<byAddress, byBytes, rooted>> /\ tablesHeld' = FALSE
  BY DEF CacheAddress, tableVars
<1>7. CacheTypeInv'
  BY <1>1, <1>3, <1>6 DEF CacheTypeInv, CacheAddress, Reading, Steps
<1>8. TablesInv'
  BY <1>6 DEF TablesInv
<1>9. SlotOf(r)' = SlotOf(r) /\ \A q \in Readers \ {r} : SlotOf(q)' = SlotOf(q)
  BY <1>4 DEF SlotOf, Reading
<1>10. WritersInv'
  BY <1>4 DEF WritersInv, Writes, Reading
<1>11. \A k, i : OfEntry(rooted, k, i) => OfEntry(rooted', k, i)
  BY <1>6 DEF OfEntry
<1>12. EntriesInv'
  <2> SUFFICES ASSUME NEW i \in Entries
               PROVE  /\ cache'[i].root # NoRoot => OfEntry(rooted', cache'[i].root, i)
                      /\ cache'[i].of # NoRoot =>
                           /\ CacheIndex[cache'[i].of] = i /\ cache'[i].root # NoRoot
                           /\ rooted'[cache'[i].root] = Contents[cache'[i].of]
    BY DEF EntriesInv
  <2>1. CASE i = SlotOf(r)
    BY <1>2, <1>5, <1>6, <1>11, <2>1 DEF EntriesInv, SlotOf
  <2>2. CASE i # SlotOf(r)
    BY <1>1, <1>4, <1>5, <1>6, <1>11, <2>2 DEF EntriesInv, Writes
  <2> QED
    BY <2>1, <2>2
<1>13. DoneInv'
  <2>1. OfEntry(rooted, reader[r].root, SlotOf(r))
    BY <1>1, <1>2 DEF OfEntry, SlotOf
  <2> QED
    BY <1>4, <1>9, <1>11, <2>1 DEF DoneInv, Reading
<1> QED
  BY <1>7, <1>8, <1>10, <1>12, <1>13

LEMMA CacheStepInv == CacheInv /\ [ConstNext]_constVars => CacheInv'
<1> SUFFICES ASSUME CacheInv, [ConstNext]_constVars PROVE CacheInv'
  OBVIOUS
<1>1. ASSUME NEW r \in Readers, Evaluate(r) PROVE CacheInv'
  BY <1>1, EvaluatePreserves
<1>2. ASSUME NEW r \in Readers, Compare(r) PROVE CacheInv'
  BY <1>2, ComparePreserves
<1>3. ASSUME NEW r \in Readers, Hit(r) PROVE CacheInv'
  BY <1>3, HitPreserves
<1>4. ASSUME NEW r \in Readers, FindByAddress(r) PROVE CacheInv'
  BY <1>4, FindByAddressPreserves
<1>5. ASSUME NEW r \in Readers, FindByBytes(r) PROVE CacheInv'
  BY <1>5, FindByBytesPreserves
<1>6. ASSUME NEW r \in Readers, Make(r) PROVE CacheInv'
  BY <1>6, MakePreserves
<1>7. ASSUME NEW r \in Readers, CacheRoot(r) PROVE CacheInv'
  BY <1>7, CacheRootPreserves
<1>8. ASSUME NEW r \in Readers, CacheAddress(r) PROVE CacheInv'
  BY <1>8, CacheAddressPreserves
<1>9. ASSUME UNCHANGED constVars PROVE CacheInv'
  BY <1>9 DEF constVars, tableVars, CacheInv, CacheTypeInv, TablesInv, WritersInv, EntriesInv, DoneInv,
              Writes, OfEntry, SlotOf
<1> QED
  BY <1>1, <1>2, <1>3, <1>4, <1>5, <1>6, <1>7, <1>8, <1>9 DEF ConstNext

LEMMA CacheInvAgrees == CacheInv => LiteralsAgree
<1> SUFFICES ASSUME CacheInv PROVE LiteralsAgree
  OBVIOUS
<1> USE DEF CacheInv
<1>1. OneStringPerBytes
  BY DEF OneStringPerBytes, IsInjective, TablesInv
<1>2. CacheConsistent
  BY DEF CacheConsistent, CacheTypeInv, EntriesInv, WritersInv, Writes
<1>3. OwnOrNeighbour
  BY DEF OwnOrNeighbour, DoneInv, OfEntry
<1> QED
  BY <1>1, <1>2, <1>3 DEF LiteralsAgree

\* However many threads meet literals for the first time at once, and whichever of them share an
\* entry of the cache: equal literals are one string, an entry nobody is writing leads to the
\* string of its address, and a literal evaluates to its string or to that of a literal with the
\* same entry (rt_string_from_c_str_const).
THEOREM LiteralsOne == ConstSpec => []LiteralsAgree
<1>1. ConstInit => CacheInv
  BY CacheInitInv
<1>2. CacheInv /\ [ConstNext]_constVars => CacheInv'
  BY CacheStepInv
<1>3. CacheInv => LiteralsAgree
  BY CacheInvAgrees
<1> QED
  BY <1>1, <1>2, <1>3, PTL DEF ConstSpec

=============================================================================
