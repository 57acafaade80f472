----------------------------- MODULE ConstStrings -----------------------------
(***************************************************************************)
(* String literals at run time (rt_string_from_c_str_const,                *)
(* runtime/core/lib.rs): a literal is known by its address, its string is  *)
(* made once and held by a static root.  Tables behind a lock find the     *)
(* root by address or by contents; in front of them is a cache without a   *)
(* lock, indexed by some bits of the address, whose two words are read and *)
(* written one at a time.                                                  *)
(*                                                                         *)
(* A static root is known by its number, and so is the string in it.       *)
(***************************************************************************)
EXTENDS Naturals, Sequences, Functions

CONSTANTS
  Literals,    \* addresses of literals
  Contents,    \* the bytes at an address
  CacheIndex,  \* the cache entry of an address
  Readers      \* threads that evaluate literals

NoRoot == 0

ASSUME ConstAssumption ==
  DOMAIN Contents = Literals /\ DOMAIN CacheIndex = Literals /\ NoRoot \notin Literals

VARIABLES
  cache,      \* CONST_FAST_CACHE: address and root of an entry, 0 for none
  byAddress,  \* CONST_STRING_ROOTS.slots_by_ptr
  byBytes,    \* CONST_STRING_ROOTS.slots_by_bytes
  rooted,     \* the contents of the string in each static root
  tablesHeld, \* the lock of the tables is held
  reader      \* what each thread is at: step, literal, root found

constVars == <<cache, byAddress, byBytes, rooted, tablesHeld, reader>>
tableVars == <<byAddress, byBytes, rooted>>

ConstInit ==
  /\ cache = [i \in Range(CacheIndex) |-> [of |-> NoRoot, root |-> NoRoot]]
  /\ byAddress = <<>> /\ byBytes = <<>> /\ rooted = <<>>
  /\ tablesHeld = FALSE
  /\ reader = [r \in Readers |-> [at |-> "idle", of |-> NoRoot, root |-> NoRoot]]

Step(r, next) == reader' = [reader EXCEPT ![r] = next]
Reading(r, p) == [at |-> p, of |-> reader[r].of, root |-> reader[r].root]
SlotOf(r) == CacheIndex[reader[r].of]

Evaluate(r) ==
  /\ reader[r].at \in {"idle", "done"}
  /\ \E p \in Literals : Step(r, [at |-> "match", of |-> p, root |-> NoRoot])
  /\ UNCHANGED <<cache, tableVars, tablesHeld>>

\* The address of the entry, then its root.
Compare(r) ==
  /\ reader[r].at = "match"
  /\ Step(r, Reading(r, IF cache[SlotOf(r)].of = reader[r].of THEN "hit" ELSE "find"))
  /\ UNCHANGED <<cache, tableVars, tablesHeld>>

Hit(r) ==
  /\ reader[r].at = "hit"
  /\ LET root == cache[SlotOf(r)].root
     IN Step(r, IF root = NoRoot THEN Reading(r, "find")
                ELSE [at |-> "done", of |-> reader[r].of, root |-> root])
  /\ UNCHANGED <<cache, tableVars, tablesHeld>>

Under(f, key) == IF key \in DOMAIN f THEN f[key] ELSE NoRoot
Bytes(r) == Contents[reader[r].of]
With(f, key, root) == [x \in DOMAIN f \cup {key} |-> IF x = key THEN root ELSE f[x]]

\* Mutant: the lock is given back before the root is written to the cache.
FoundUnlocked(r, root) ==
  /\ UNCHANGED tablesHeld
  /\ Step(r, [at |-> "cacheRoot", of |-> reader[r].of, root |-> root])

\* A root that is found is written to the cache before the lock is given back.
Found(r, root) ==
  /\ tablesHeld' = TRUE
  /\ Step(r, [at |-> "cacheRoot", of |-> reader[r].of, root |-> root])

FindByAddress(r) ==
  /\ reader[r].at = "find" /\ ~tablesHeld
  /\ LET root == Under(byAddress, reader[r].of)
     IN IF root # NoRoot THEN Found(r, root) ELSE Step(r, Reading(r, "findBytes")) /\ UNCHANGED tablesHeld
  /\ UNCHANGED <<cache, tableVars>>

FindByBytes(r) ==
  /\ reader[r].at = "findBytes" /\ ~tablesHeld
  /\ LET root == Under(byBytes, Bytes(r))
     IN IF root # NoRoot THEN Found(r, root) ELSE Step(r, Reading(r, "make")) /\ UNCHANGED tablesHeld
  /\ UNCHANGED <<cache, tableVars>>

\* The string is made without the lock: another thread may have been faster.
Intern(r, root) ==
  /\ Found(r, root)
  /\ byAddress' = With(byAddress, reader[r].of, root)
  /\ byBytes' = With(byBytes, Bytes(r), root)
  /\ rooted' = IF root > Len(rooted) THEN Append(rooted, Bytes(r)) ELSE rooted

Make(r) ==
  /\ reader[r].at = "make" /\ ~tablesHeld
  /\ LET root == Under(byBytes, Bytes(r))
     IN Intern(r, IF root = NoRoot THEN Len(rooted) + 1 ELSE root)
  /\ UNCHANGED cache

CacheRoot(r) ==
  /\ reader[r].at = "cacheRoot"
  /\ cache' = [cache EXCEPT ![SlotOf(r)].root = reader[r].root]
  /\ Step(r, Reading(r, "cacheAddress"))
  /\ UNCHANGED <<tableVars, tablesHeld>>

CacheAddress(r) ==
  /\ reader[r].at = "cacheAddress"
  /\ cache' = [cache EXCEPT ![SlotOf(r)].of = reader[r].of]
  /\ tablesHeld' = FALSE
  /\ Step(r, Reading(r, "done"))
  /\ UNCHANGED tableVars

ConstNext ==
  \E r \in Readers :
    \/ Evaluate(r) \/ Compare(r) \/ Hit(r)
    \/ FindByAddress(r) \/ FindByBytes(r) \/ Make(r)
    \/ CacheRoot(r) \/ CacheAddress(r)

ConstSpec == ConstInit /\ [][ConstNext]_constVars

---------------------------------------------------------------------------
(* Properties. *)

\* The same bytes are one string: there is one static root for them, however many
\* threads evaluate such literals for the first time at once (CONST_STRING_ROOTS).
OneStringPerBytes == IsInjective(rooted)

\* While nobody holds the tables, every entry of the cache leads to the string of its
\* address: the entries are written by one thread at a time.
CacheConsistent ==
  ~tablesHeld => \A i \in DOMAIN cache :
    cache[i].of # NoRoot => rooted[cache[i].root] = Contents[cache[i].of]

\* A literal evaluates to the string of its bytes, unless another one shares its entry of the
\* cache: a thread that has compared the address may then find the root of the other, which has
\* taken the entry since.
OwnOrNeighbour ==
  \A r \in Readers : reader[r].at = "done" =>
    \E p \in Literals : /\ CacheIndex[p] = SlotOf(r)
                        /\ rooted[reader[r].root] = Contents[p]

\* The tables, the cache in front of them and the threads agree on what a literal's string is.
LiteralsAgree == OneStringPerBytes /\ CacheConsistent /\ OwnOrNeighbour

=============================================================================
