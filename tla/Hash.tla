-------------------------------- MODULE Hash ---------------------------------
(***************************************************************************)
(* minzip/Hash.c: a hash table with open addressing.  A removed entry      *)
(* leaves a tombstone, which no addition reuses; when entries and          *)
(* tombstones together fill more than LOAD_NUMER / LOAD_DENOM of the table *)
(* the entries move to one of twice the size.  Every probe of a search is  *)
(* a step of its own.                                                      *)
(***************************************************************************)
EXTENDS Integers, Sequences, FiniteSets

CONSTANTS
    Items,          \* the pointers that are stored
    Keys, Key,      \* what cmpFunc compares: the key of an item
    HashOf,         \* the hash of a key
    Expected,       \* numbers of entries a table is created for
    MaxSize,        \* bound on the size of the table
    NULL, TOMBSTONE

LOAD_NUMER == 5
LOAD_DENOM == 8

VARIABLES
    slots,          \* pEntries[i].data
    tableSize, numEntries, numDeadEntries,
    pc,             \* "idle", "probe", "resize" or "each"
    req,            \* the operation, NoRequest when there is none
    idx,            \* pEntry, or i of a loop over the table
    fresh,          \* pNewEntries
    result,
    visited         \* items mzHashForeach() has handed out

table == <<slots, tableSize, numEntries, numDeadEntries>>
hashVars == <<table, pc, req, idx, fresh, result, visited>>

NoRequest == [op |-> "none", key |-> NULL, item |-> NULL]
Requests ==
    {[op |-> "find", key |-> k, item |-> NULL] : k \in Keys}
        \cup {[op |-> o, key |-> Key[x], item |-> x] : o \in {"add", "remove"}, x \in Items}

\* hash & (size - 1), for a size that is a power of two.
Home(key, size) == HashOf[key] % size

mzHashSize(n) == (n * LOAD_DENOM) \div LOAD_NUMER + 1
Powers2 == {2^k : k \in 0..30}      \* the sizes an int holds
roundUpPower2(v) == CHOOSE p \in Powers2 : p >= v /\ \A q \in Powers2 : q >= v => p <= q

ASSUME HashAssumption ==
    /\ Key \in [Items -> Keys] /\ HashOf \in [Keys -> Nat]
    /\ NULL \notin Items /\ TOMBSTONE \notin Items /\ NULL # TOMBSTONE /\ NULL \notin Keys
    /\ \A n \in Expected : roundUpPower2(mzHashSize(n)) \in Nat \ {0}

EmptyTable(size) == [i \in 0..(size - 1) |-> NULL]
Entries(t) == {i \in DOMAIN t : t[i] \in Items}
Tombstones(t) == {i \in DOMAIN t : t[i] = TOMBSTONE}
Live == {slots[i] : i \in Entries(slots)}

\* mzHashTableCreate()
Init ==
    /\ \E n \in Expected : tableSize = roundUpPower2(mzHashSize(n))
    /\ slots = EmptyTable(tableSize)
    /\ numEntries = 0 /\ numDeadEntries = 0
    /\ pc = "idle" /\ req = NoRequest /\ idx = 0 /\ fresh = <<>>
    /\ result = NULL /\ visited = <<>>

-----------------------------------------------------------------------------
(* Searching *)

\* A call of mzHashTableLookup() or mzHashTableRemove().
Begin ==
    /\ pc = "idle"
    /\ \E r \in Requests :
        /\ r.op = "add" =>
              \/ tableSize < MaxSize
              \/ (numEntries + numDeadEntries + 1) * LOAD_DENOM <= tableSize * LOAD_NUMER
        /\ req' = r /\ idx' = Home(r.key, tableSize)
    /\ pc' = "probe"
    /\ UNCHANGED <<table, fresh, result, visited>>

\* Mutant: equal hashes are taken for equal keys.
MatchHash(x) ==
    /\ x \in Items
    /\ IF req.op = "remove" THEN x = req.item ELSE HashOf[Key[x]] = HashOf[req.key]

\* remove() looks for the item itself, the others for its key.
Match(x) ==
    /\ x \in Items
    /\ IF req.op = "remove" THEN x = req.item ELSE Key[x] = req.key

\* The next slot, from the last one to the first; the search of a table of
\* one slot stops behind it.
After(i) == IF i + 1 < tableSize THEN i + 1
            ELSE IF tableSize = 1 THEN tableSize ELSE 0

Probe ==
    /\ pc = "probe" /\ slots[idx] # NULL /\ ~Match(slots[idx])
    /\ idx' = After(idx)
    /\ UNCHANGED <<table, pc, req, fresh, result, visited>>

Done(r) == pc' = "idle" /\ req' = NoRequest /\ idx' = 0 /\ result' = r

Found ==
    /\ pc = "probe" /\ slots[idx] # NULL /\ Match(slots[idx]) /\ req.op # "remove"
    /\ Done(slots[idx])
    /\ UNCHANGED <<table, fresh, visited>>

\* Mutant: the slot is emptied.
RemoveEmpties ==
    /\ pc = "probe" /\ slots[idx] # NULL /\ Match(slots[idx]) /\ req.op = "remove"
    /\ slots' = [slots EXCEPT ![idx] = NULL]
    /\ numEntries' = numEntries - 1
    /\ Done(req.item)
    /\ UNCHANGED <<tableSize, numDeadEntries, fresh, visited>>

Remove ==
    /\ pc = "probe" /\ slots[idx] # NULL /\ Match(slots[idx]) /\ req.op = "remove"
    /\ slots' = [slots EXCEPT ![idx] = TOMBSTONE]
    /\ numEntries' = numEntries - 1 /\ numDeadEntries' = numDeadEntries + 1
    /\ Done(req.item)
    /\ UNCHANGED <<tableSize, fresh, visited>>

NotFound ==
    /\ pc = "probe" /\ slots[idx] = NULL /\ req.op # "add"
    /\ Done(NULL)
    /\ UNCHANGED <<table, fresh, visited>>

-----------------------------------------------------------------------------
(* Adding *)

\* Mutant: the tombstones are not counted.
TooFullLive(n, dead) == n * LOAD_DENOM > tableSize * LOAD_NUMER

TooFull(n, dead) == (n + dead) * LOAD_DENOM > tableSize * LOAD_NUMER

\* calloc() of the new table fails: abort().
Add ==
    /\ pc = "probe" /\ slots[idx] = NULL /\ req.op = "add"
    /\ slots' = [slots EXCEPT ![idx] = req.item] /\ numEntries' = numEntries + 1
    /\ req' = NoRequest /\ result' = req.item /\ idx' = 0
    /\ \/ ~TooFull(numEntries + 1, numDeadEntries) /\ pc' = "idle" /\ UNCHANGED fresh
       \/ /\ TooFull(numEntries + 1, numDeadEntries)
          /\ pc' = "resize" /\ fresh' = EmptyTable(2 * tableSize)
       \/ TooFull(numEntries + 1, numDeadEntries) /\ pc' = "abort" /\ UNCHANGED fresh
    /\ UNCHANGED <<tableSize, numDeadEntries, visited>>

\* The slots a search that begins at h passes before slot j.
Path(h, j, size) == IF h <= j THEN h..(j - 1) ELSE (h..(size - 1)) \cup (0..(j - 1))

\* resizeHash(): entry idx moves to the first free slot from its new home.
Rehash ==
    /\ pc = "resize" /\ idx < tableSize
    /\ \/ /\ slots[idx] \in Items
          /\ \E j \in DOMAIN fresh :
              /\ fresh[j] = NULL
              /\ \A q \in Path(Home(Key[slots[idx]], 2 * tableSize), j, 2 * tableSize) :
                     fresh[q] # NULL
              /\ fresh' = [fresh EXCEPT ![j] = slots[idx]]
       \/ slots[idx] \notin Items /\ UNCHANGED fresh
    /\ idx' = idx + 1
    /\ UNCHANGED <<table, pc, req, result, visited>>

Replace ==
    /\ pc = "resize" /\ idx = tableSize
    /\ slots' = fresh /\ tableSize' = 2 * tableSize /\ fresh' = <<>>
    /\ numDeadEntries' = 0 /\ pc' = "idle" /\ idx' = 0
    /\ UNCHANGED <<numEntries, req, result, visited>>

-----------------------------------------------------------------------------
(* The rest of the interface *)

mzHashTableClear ==
    /\ pc = "idle"
    /\ slots' = EmptyTable(tableSize) /\ numEntries' = 0 /\ numDeadEntries' = 0
    /\ UNCHANGED <<tableSize, pc, req, idx, fresh, result, visited>>

BeginEach ==
    /\ pc = "idle" /\ pc' = "each"
    /\ UNCHANGED <<table, req, idx, fresh, result, visited>>

EndLoop == pc' = "idle" /\ idx' = 0 /\ visited' = <<>>
HandOut == visited' = Append(visited, slots[idx]) /\ idx' = idx + 1 /\ UNCHANGED pc
Skip == idx' = idx + 1 /\ UNCHANGED <<pc, visited>>

\* Mutant: tombstones are handed out.
EachSlot ==
    /\ pc = "each" /\ idx < tableSize
    /\ \/ slots[idx] # NULL /\ (HandOut \/ EndLoop)
       \/ slots[idx] = NULL /\ Skip
    /\ UNCHANGED <<table, req, fresh, result>>

\* mzHashForeach() hands out an entry; the function may end the loop.
Each ==
    /\ pc = "each" /\ idx < tableSize
    /\ \/ slots[idx] \in Items /\ (HandOut \/ EndLoop)
       \/ slots[idx] \notin Items /\ Skip
    /\ UNCHANGED <<table, req, fresh, result>>

EndEach ==
    /\ pc = "each" /\ idx = tableSize /\ EndLoop
    /\ UNCHANGED <<table, req, fresh, result>>

-----------------------------------------------------------------------------

Operation == Probe \/ Found \/ Remove \/ NotFound \/ Add \/ Rehash \/ Replace \/ Each \/ EndEach
Next == Begin \/ Operation \/ mzHashTableClear \/ BeginEach

Spec == Init /\ [][Next]_hashVars
\* An operation that was called goes on.
FairSpec == Spec /\ WF_hashVars(Operation)

-----------------------------------------------------------------------------
(* Properties *)

\* Slots with what they may hold, and a position within the table: the case
\* of a table of one slot never leaves it.
TypeOK ==
    /\ tableSize \in Nat \ {0}
    /\ slots \in [0..(tableSize - 1) -> Items \cup {NULL, TOMBSTONE}]
    /\ pc \in {"idle", "probe", "resize", "each", "abort"}
    /\ IF pc = "probe" THEN req \in Requests /\ idx \in 0..(tableSize - 1)
                       ELSE req = NoRequest
    /\ pc \in {"resize", "each"} => idx \in 0..tableSize
    /\ pc = "resize" =>
           fresh \in [0..(2 * tableSize - 1) -> Items \cup {NULL}]
    /\ result \in Items \cup {NULL}

\* What the assertions of resizeHash() and mzHashTableLookup() say, and what
\* makes every search end: the counters are those of the table, which is
\* never so full of entries and tombstones that no slot is empty.
Counted ==
    /\ numEntries = Cardinality(Entries(slots))
    /\ numDeadEntries = Cardinality(Tombstones(slots))
    /\ pc \notin {"resize", "abort"} =>
           (numEntries + numDeadEntries) * LOAD_DENOM <= tableSize * LOAD_NUMER
    /\ pc = "resize" =>
           /\ numEntries * LOAD_DENOM <= 2 * tableSize * LOAD_NUMER
           /\ Cardinality(Entries(fresh)) = Cardinality(Entries(slots) \cap 0..(idx - 1))

\* An entry is found from its home on: no slot before it is empty, in the
\* table and in the one a resize is filling.
ReachableIn(t, size) ==
    \A j \in DOMAIN t : t[j] \in Items =>
        \A q \in Path(Home(Key[t[j]], size), j, size) : t[q] # NULL
DistinctIn(t) ==
    \A i, j \in DOMAIN t : (t[i] \in Items /\ t[j] \in Items /\ Key[t[i]] = Key[t[j]]) => i = j
Moved ==
    \A x \in Items : (\E j \in DOMAIN fresh : fresh[j] = x)
                        <=> (\E i \in 0..(idx - 1) : slots[i] = x)
Searched ==
    \A q \in Path(Home(req.key, tableSize), idx, tableSize) :
        slots[q] # NULL /\ ~Match(slots[q])

Probing ==
    /\ TypeOK
    /\ ReachableIn(slots, tableSize) /\ DistinctIn(slots)
    /\ pc = "probe" => Searched
    /\ pc = "resize" => Moved /\ ReachableIn(fresh, 2 * tableSize) /\ DistinctIn(fresh)

\* The table is a dictionary: every search, addition and removal has the
\* result and the effect it should have, whatever tombstones, collisions
\* and resizes came before.
D == INSTANCE Dictionary WITH items <- Live, pending <- req
Refinement == D!Spec

\* mzHashForeach() that is not ended by its function hands out every entry
\* once.
EachOnce ==
    (pc = "each" /\ idx = tableSize) =>
        /\ {visited[i] : i \in DOMAIN visited} = Live
        /\ Len(visited) = numEntries

\* Inductive: in the middle of the loop, every entry behind idx was handed
\* out once.
Behind == Entries(slots) \cap 0..(idx - 1)
HandedOut ==
    IF pc = "each"
    THEN /\ visited \in Seq(Items) /\ Len(visited) = Cardinality(Behind)
         /\ {visited[i] : i \in DOMAIN visited} = {slots[i] : i \in Behind}
    ELSE visited = <<>> /\ (pc = "idle" => idx = 0)

IInv == Probing /\ Counted /\ HandedOut

\* Every operation ends, unless memory runs out: no search runs round a
\* table without an empty slot.
Halts == pc # "idle" ~> pc \in {"idle", "abort"}
=============================================================================
