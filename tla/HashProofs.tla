----------------------------- MODULE HashProofs ------------------------------
(***************************************************************************)
(* Proofs about the hash table, for every set of items, every hash and     *)
(* every size: its searches see what is in it, and its counters count it.  *)
(***************************************************************************)
EXTENDS Hash, FiniteSetTheorems, TLAPS

\* itemHash & (tableSize - 1) is a slot of the table.
LEMMA HomeIsSlot ==
    ASSUME NEW k \in Keys, NEW s \in Nat \ {0}
    PROVE  Home(k, s) \in 0..(s - 1)
<1>1. HashOf[k] \in Nat
  BY HashAssumption
<1>2. HashOf[k] % s \in 0..(s - 1)
  BY <1>1
<1> QED
  BY <1>2 DEF Home

\* One probe further, a search has passed the slot it was at and no other.
LEMMA PathStep ==
    ASSUME NEW s \in Nat \ {0}, NEW h \in 0..(s - 1), NEW i \in 0..(s - 1),
           NEW k, k = IF i + 1 < s THEN i + 1 ELSE 0
    PROVE  Path(h, k, s) \subseteq Path(h, i, s) \cup {i}
BY DEF Path

\* Of two slots, a search from any home passes one before the other.
LEMMA PathOrder ==
    ASSUME NEW s \in Nat \ {0}, NEW h \in 0..(s - 1),
           NEW i \in 0..(s - 1), NEW j \in 0..(s - 1), i # j
    PROVE  i \in Path(h, j, s) \/ j \in Path(h, i, s)
BY DEF Path

LEMMA PathInTable ==
    ASSUME NEW s \in Nat \ {0}, NEW h \in 0..(s - 1), NEW j \in 0..(s - 1)
    PROVE  Path(h, j, s) \subseteq 0..(s - 1)
BY DEF Path

\* A search begins with nothing behind it.
LEMMA PathEmpty ==
    ASSUME NEW s \in Nat \ {0}, NEW h \in 0..(s - 1)
    PROVE  Path(h, h, s) = {}
BY DEF Path

\* Requests have the key of their item.
LEMMA RequestType ==
    ASSUME NEW r \in Requests
    PROVE  /\ r.op \in {"find", "add", "remove"} /\ r.key \in Keys
           /\ r.op # "find" => r.item \in Items /\ r.key = Key[r.item]
           /\ r # NoRequest
BY HashAssumption DEF Requests, NoRequest

LEMMA ItemKey ==
    ASSUME NEW x \in Items
    PROVE  Key[x] \in Keys /\ x # NULL /\ x # TOMBSTONE
BY HashAssumption

-----------------------------------------------------------------------------
(* The counters *)

LEMMA FiniteIndices ==
    ASSUME NEW s \in Nat, NEW t, DOMAIN t = 0..(s - 1)
    PROVE  /\ IsFiniteSet(Entries(t)) /\ IsFiniteSet(Tombstones(t))
           /\ \A S : IsFiniteSet(Entries(t) \cap S)
<1>1. IsFiniteSet(0..(s - 1))
  BY FS_Interval
<1>2. Entries(t) \subseteq 0..(s - 1) /\ Tombstones(t) \subseteq 0..(s - 1)
  BY DEF Entries, Tombstones
<1> QED
  BY <1>1, <1>2, FS_Subset

\* An entry written to an empty slot is one more.
LEMMA CountAdd ==
    ASSUME NEW s \in Nat, NEW t, DOMAIN t = 0..(s - 1),
           NEW j \in 0..(s - 1), t[j] = NULL, NEW x \in Items,
           NEW u, u = [t EXCEPT ![j] = x]
    PROVE  Cardinality(Entries(u)) = Cardinality(Entries(t)) + 1
<1>1. Entries(u) = Entries(t) \cup {j} /\ j \notin Entries(t)
  BY HashAssumption DEF Entries
<1> QED
  BY <1>1, FiniteIndices, FS_AddElement

\* A removal turns one entry into one tombstone.
LEMMA CountRemove ==
    ASSUME NEW s \in Nat, NEW t, DOMAIN t = 0..(s - 1),
           NEW j \in 0..(s - 1), t[j] \in Items,
           NEW u, u = [t EXCEPT ![j] = TOMBSTONE]
    PROVE  /\ Cardinality(Entries(u)) = Cardinality(Entries(t)) - 1
           /\ Cardinality(Tombstones(u)) = Cardinality(Tombstones(t)) + 1
<1>1. Entries(u) = Entries(t) \ {j} /\ j \in Entries(t)
  BY HashAssumption DEF Entries
<1>2. Tombstones(u) = Tombstones(t) \cup {j} /\ j \notin Tombstones(t)
  BY HashAssumption DEF Tombstones
<1>3. IsFiniteSet(Entries(t)) /\ IsFiniteSet(Tombstones(t))
  BY FiniteIndices
<1>4. Cardinality(Entries(u)) = Cardinality(Entries(t)) - 1
  BY <1>1, <1>3, FS_RemoveElement
<1>5. Cardinality(Tombstones(u)) = Cardinality(Tombstones(t)) + 1
  BY <1>2, <1>3, FS_AddElement
<1> QED
  BY <1>4, <1>5

\* A table with no entry but empty slots counts nothing.
LEMMA CountEmpty ==
    ASSUME NEW s \in Nat
    PROVE  Entries(EmptyTable(s)) = {} /\ Tombstones(EmptyTable(s)) = {}
BY HashAssumption DEF Entries, Tombstones, EmptyTable

LEMMA CountType ==
    ASSUME TypeOK, Counted
    PROVE  numEntries \in Nat /\ numDeadEntries \in Nat
BY FiniteIndices, FS_CardinalityType DEF TypeOK, Counted

\* A search never meets an entry or a tombstone in a table of one slot.
LEMMA SingleSlot ==
    ASSUME TypeOK, Counted, pc = "probe", tableSize = 1
    PROVE  slots[idx] = NULL
<1>1. numEntries = 0 /\ numDeadEntries = 0
  BY CountType DEF Counted, LOAD_NUMER, LOAD_DENOM
<1>2. Entries(slots) = {} /\ Tombstones(slots) = {}
  BY <1>1, FiniteIndices, FS_EmptySet DEF Counted, TypeOK
<1> QED
  BY <1>2 DEF TypeOK, Entries, Tombstones

-----------------------------------------------------------------------------
(* The invariant *)

LEMMA InitInv == Init => Probing /\ Counted
<1> SUFFICES ASSUME Init PROVE Probing /\ Counted
  OBVIOUS
<1>1. tableSize \in Nat \ {0}
  BY HashAssumption DEF Init
<1>2. slots \in [0..(tableSize - 1) -> Items \cup {NULL, TOMBSTONE}] /\ Entries(slots) = {}
      /\ Tombstones(slots) = {}
  BY <1>1, CountEmpty DEF Init, EmptyTable
<1>3. TypeOK
  BY <1>1, <1>2 DEF Init, TypeOK
<1>4. Probing
  BY <1>2, <1>3 DEF Init, Probing, ReachableIn, DistinctIn, Entries
<1>5. Counted
  BY <1>1, <1>2, FS_EmptySet DEF Init, Counted, LOAD_NUMER, LOAD_DENOM
<1> QED
  BY <1>4, <1>5

LEMMA BeginInv == Probing /\ Counted /\ Begin => Probing' /\ Counted'
<1> SUFFICES ASSUME Probing, Counted, Begin PROVE Probing' /\ Counted'
  OBVIOUS
<1> USE DEF Begin, table
<1>1. req' \in Requests /\ idx' = Home(req'.key, tableSize)
  OBVIOUS
<1>2. idx' \in 0..(tableSize - 1) /\ Path(Home(req'.key, tableSize), idx', tableSize) = {}
  BY <1>1, RequestType, HomeIsSlot, PathEmpty DEF Probing, TypeOK
<1>3. TypeOK'
  BY <1>1, <1>2 DEF Probing, TypeOK
<1>4. Probing'
  BY <1>2, <1>3 DEF Probing, ReachableIn, DistinctIn, Searched
<1>5. Counted'
  BY DEF Counted
<1> QED
  BY <1>4, <1>5

\* One probe: the slot that is left is neither empty nor the one looked for.
LEMMA ProbeInv == Probing /\ Counted /\ Probe => Probing' /\ Counted'
<1> SUFFICES ASSUME Probing, Counted, Probe PROVE Probing' /\ Counted'
  OBVIOUS
<1> USE DEF Probe, table
<1>1. tableSize # 1
  BY SingleSlot DEF Probing
<1>2. /\ idx' = IF idx + 1 < tableSize THEN idx + 1 ELSE 0
      /\ idx' \in 0..(tableSize - 1)
  BY <1>1 DEF After, Probing, TypeOK
<1>3. TypeOK'
  BY <1>2 DEF Probing, TypeOK
<1>4. Home(req.key, tableSize) \in 0..(tableSize - 1)
  BY RequestType, HomeIsSlot DEF Probing, TypeOK
<1>5. Path(Home(req.key, tableSize), idx', tableSize)
          \subseteq Path(Home(req.key, tableSize), idx, tableSize) \cup {idx}
  BY <1>2, <1>4, PathStep DEF Probing, TypeOK
<1>6. Searched'
  BY <1>5 DEF Probing, Searched, Match
<1>7. Probing'
  BY <1>3, <1>6 DEF Probing, ReachableIn, DistinctIn
<1>8. Counted'
  BY DEF Counted
<1> QED
  BY <1>7, <1>8

\* The results of a search that changes nothing.
LEMMA ResultInv == Probing /\ Counted /\ (Found \/ NotFound) => Probing' /\ Counted'
<1> SUFFICES ASSUME Probing, Counted, Found \/ NotFound PROVE Probing' /\ Counted'
  OBVIOUS
<1>1. /\ pc = "probe" /\ pc' = "idle" /\ req' = NoRequest /\ result' \in Items \cup {NULL}
      /\ UNCHANGED table
  BY DEF Found, NotFound, Done, Match
<1>2. TypeOK'
  BY <1>1 DEF Probing, TypeOK, table
<1>3. Probing'
  BY <1>1, <1>2 DEF Probing, ReachableIn, DistinctIn, table
<1>4. Counted'
  BY <1>1 DEF Counted, table
<1> QED
  BY <1>3, <1>4

\* A tombstone keeps what lies behind it reachable.
LEMMA RemoveInv == Probing /\ Counted /\ Remove => Probing' /\ Counted'
<1> SUFFICES ASSUME Probing, Counted, Remove PROVE Probing' /\ Counted'
  OBVIOUS
<1> USE DEF Remove, Done
<1>1. idx \in 0..(tableSize - 1) /\ slots[idx] \in Items /\ req.item = slots[idx]
  BY DEF Probing, TypeOK, Match
<1>2. TypeOK'
  BY <1>1 DEF Probing, TypeOK
<1>3. /\ DOMAIN slots' = DOMAIN slots /\ DOMAIN slots = 0..(tableSize - 1)
      /\ \A q \in DOMAIN slots : slots'[q] = IF q = idx THEN TOMBSTONE ELSE slots[q]
  BY <1>1 DEF Probing, TypeOK
<1>4. DistinctIn(slots)'
  BY <1>3, HashAssumption DEF Probing, DistinctIn
<1>5. ReachableIn(slots, tableSize)'
  <2> SUFFICES ASSUME NEW j \in DOMAIN slots, slots'[j] \in Items,
                      NEW q \in Path(Home(Key[slots'[j]], tableSize), j, tableSize)
               PROVE  slots'[q] # NULL
    BY <1>3 DEF ReachableIn
  <2>1. j # idx /\ slots'[j] = slots[j]
    BY <1>3, HashAssumption
  <2>2. slots[q] # NULL
    BY <2>1 DEF Probing, ReachableIn
  <2>3. q \in DOMAIN slots
    BY <1>3, <2>1, HomeIsSlot, ItemKey, PathInTable DEF Probing, TypeOK
  <2> QED
    BY <1>3, <2>2, <2>3, HashAssumption
<1>6. Probing'
  BY <1>2, <1>4, <1>5 DEF Probing
<1>7. /\ Cardinality(Entries(slots')) = Cardinality(Entries(slots)) - 1
      /\ Cardinality(Tombstones(slots')) = Cardinality(Tombstones(slots)) + 1
  BY <1>1, <1>3, CountRemove DEF Probing, TypeOK
<1>8. Counted'
  <2>1. numEntries' + numDeadEntries' = numEntries + numDeadEntries
    BY CountType DEF Probing
  <2>2. numEntries' = Cardinality(Entries(slots')) /\ numDeadEntries' = Cardinality(Tombstones(slots'))
    BY <1>7 DEF Counted
  <2> QED
    BY <2>1, <2>2 DEF Counted
<1> QED
  BY <1>6, <1>8

\* The key of what is added is nowhere in the table: an item with it would
\* lie before the empty slot, where it was searched, or behind it, where it
\* could not be reached.
LEMMA EmptyMeansAbsent ==
    ASSUME Probing, pc = "probe", slots[idx] = NULL, NEW i \in DOMAIN slots
    PROVE  ~Match(slots[i])
<1> SUFFICES ASSUME Match(slots[i]) PROVE FALSE
  OBVIOUS
<1> DEFINE h == Home(req.key, tableSize)
<1>1. /\ idx \in 0..(tableSize - 1) /\ i \in 0..(tableSize - 1) /\ tableSize \in Nat \ {0}
      /\ h \in 0..(tableSize - 1)
  BY RequestType, HomeIsSlot DEF Probing, TypeOK
<1>2. slots[i] \in Items /\ Key[slots[i]] = req.key
  BY RequestType DEF Probing, TypeOK, Match
<1>3. i # idx
  BY <1>2, HashAssumption
<1>4. i \notin Path(h, idx, tableSize)
  BY DEF Probing, Searched
<1>5. idx \notin Path(h, i, tableSize)
  BY <1>2 DEF Probing, ReachableIn
<1> HIDE DEF h
<1> QED
  BY <1>1, <1>3, <1>4, <1>5, PathOrder

LEMMA AddInv == Probing /\ Counted /\ Add => Probing' /\ Counted'
<1> SUFFICES ASSUME Probing, Counted, Add PROVE Probing' /\ Counted'
  OBVIOUS
<1> USE DEF Add
<1>1. /\ idx \in 0..(tableSize - 1) /\ req \in Requests /\ tableSize \in Nat \ {0}
      /\ DOMAIN slots = 0..(tableSize - 1)
  BY DEF Probing, TypeOK
<1>2. req.item \in Items /\ req.key = Key[req.item] /\ req.item # NULL
  BY <1>1, RequestType, ItemKey
<1>3. /\ DOMAIN slots' = DOMAIN slots
      /\ \A q \in DOMAIN slots : slots'[q] = IF q = idx THEN req.item ELSE slots[q]
  BY <1>1
<1>4. pc' \in {"idle", "resize", "abort"}
  OBVIOUS
<1>5. pc' = "resize" => idx' = 0 /\ fresh' = EmptyTable(2 * tableSize)
  OBVIOUS
<1>6. TypeOK'
  <2>1. slots' \in [0..(tableSize - 1) -> Items \cup {NULL, TOMBSTONE}]
    BY <1>1, <1>2 DEF Probing, TypeOK
  <2>2. pc' = "resize" => fresh' \in [0..(2 * tableSize - 1) -> Items \cup {NULL}]
    BY <1>5 DEF EmptyTable
  <2> QED
    BY <1>1, <1>2, <1>4, <2>1, <2>2 DEF TypeOK
<1>7. DistinctIn(slots)'
  <2>1. \A i \in DOMAIN slots : slots[i] \in Items => Key[slots[i]] # req.key
    BY EmptyMeansAbsent DEF Match
  <2> QED
    BY <1>1, <1>2, <1>3, <2>1 DEF Probing, DistinctIn
<1>8. ReachableIn(slots, tableSize)'
  <2> SUFFICES ASSUME NEW j \in DOMAIN slots, slots'[j] \in Items,
                      NEW q \in Path(Home(Key[slots'[j]], tableSize), j, tableSize)
               PROVE  slots'[q] # NULL
    BY <1>3 DEF ReachableIn
  <2>1. q \in DOMAIN slots
    BY <1>1, HomeIsSlot, ItemKey, PathInTable
  <2>2. CASE j = idx
    BY <1>1, <1>2, <1>3, <2>1, <2>2 DEF Probing, Searched
  <2>3. CASE j # idx
    BY <1>2, <1>3, <2>1, <2>3 DEF Probing, ReachableIn
  <2> QED
    BY <2>2, <2>3
<1>9. pc' = "resize" => Moved' /\ ReachableIn(fresh, 2 * tableSize)' /\ DistinctIn(fresh)'
  <2> SUFFICES ASSUME pc' = "resize"
               PROVE  Moved' /\ ReachableIn(fresh, 2 * tableSize)' /\ DistinctIn(fresh)'
    OBVIOUS
  <2>1. \A j \in DOMAIN fresh' : fresh'[j] \notin Items
    BY <1>5, HashAssumption DEF EmptyTable
  <2>2. 0..(idx' - 1) = {}
    BY <1>5
  <2>3. Moved'
    BY <2>1, <2>2 DEF Moved
  <2> QED
    BY <2>1, <2>3 DEF ReachableIn, DistinctIn
<1>10. Probing'
  BY <1>4, <1>6, <1>7, <1>8, <1>9 DEF Probing
<1>11. /\ Cardinality(Entries(slots')) = Cardinality(Entries(slots)) + 1
       /\ Tombstones(slots') = Tombstones(slots)
  <2> DEFINE x == req.item
             u == slots'
  <2>1. /\ tableSize \in Nat /\ DOMAIN slots = 0..(tableSize - 1) /\ idx \in 0..(tableSize - 1)
        /\ slots[idx] = NULL /\ x \in Items /\ u = [slots EXCEPT ![idx] = x]
    BY <1>1, <1>2
  <2> HIDE DEF x, u, Add
  <2>2. Cardinality(Entries(u)) = Cardinality(Entries(slots)) + 1
    BY ONLY <2>1, CountAdd
  <2>3. Tombstones(u) = Tombstones(slots)
    BY <2>1, HashAssumption DEF Tombstones
  <2> QED
    BY <2>2, <2>3 DEF u
<1>12. numEntries \in Nat /\ numDeadEntries \in Nat
  BY CountType DEF Probing
<1>13. Counted'
  <2>1. /\ numEntries' = Cardinality(Entries(slots'))
        /\ numDeadEntries' = Cardinality(Tombstones(slots'))
    BY <1>11 DEF Counted
  <2>2. pc' \notin {"resize", "abort"} =>
            (numEntries' + numDeadEntries') * LOAD_DENOM <= tableSize' * LOAD_NUMER
    BY <1>1, <1>12 DEF TooFull, LOAD_DENOM, LOAD_NUMER
  <2>3. numEntries' * LOAD_DENOM <= 2 * tableSize' * LOAD_NUMER
    <3>1. (numEntries + numDeadEntries) * LOAD_DENOM <= tableSize * LOAD_NUMER
      BY <1>1 DEF Counted
    <3>2. tableSize \in Nat /\ tableSize' = tableSize /\ numEntries' = numEntries + 1
      BY <1>1
    <3>3. tableSize # 0
      BY <1>1
    <3> QED
      BY ONLY <1>12, <3>1, <3>2, <3>3 DEF LOAD_DENOM, LOAD_NUMER
  <2>4. pc' = "resize" => Cardinality(Entries(fresh')) = Cardinality(Entries(slots') \cap 0..(idx' - 1))
    <3> SUFFICES ASSUME pc' = "resize"
                 PROVE  Entries(fresh') = {} /\ Entries(slots') \cap 0..(idx' - 1) = {}
      OBVIOUS
    <3> QED
      BY <1>1, <1>5, CountEmpty
  <2> QED
    BY <2>1, <2>2, <2>3, <2>4 DEF Counted
<1> QED
  BY <1>10, <1>13

LEMMA RehashInv == Probing /\ Counted /\ Rehash => Probing' /\ Counted'
<1> SUFFICES ASSUME Probing, Counted, Rehash PROVE Probing' /\ Counted'
  OBVIOUS
<1> DEFINE s == 2 * tableSize
<1>1. /\ pc = "resize" /\ idx \in 0..(tableSize - 1) /\ idx' = idx + 1
      /\ UNCHANGED <<table, pc, req, result>>
      /\ tableSize \in Nat \ {0} /\ DOMAIN slots = 0..(tableSize - 1)
      /\ DOMAIN fresh = 0..(s - 1) /\ s \in Nat \ {0}
  BY DEF Rehash, Probing, TypeOK
<1>2. (ReachableIn(slots, tableSize) /\ DistinctIn(slots))'
  BY <1>1 DEF Probing, ReachableIn, DistinctIn, table
<1>3. 0..(idx' - 1) = 0..(idx - 1) \cup {idx}
  BY <1>1
<1>4. numEntries' * LOAD_DENOM <= 2 * tableSize' * LOAD_NUMER
      /\ numEntries' = Cardinality(Entries(slots')) /\ numDeadEntries' = Cardinality(Tombstones(slots'))
  BY <1>1 DEF Counted, table
<1>5. CASE slots[idx] \notin Items
  <2>1. UNCHANGED fresh
    BY <1>5 DEF Rehash
  <2>2. TypeOK'
    BY <1>1, <2>1 DEF Probing, TypeOK, table
  <2>3. Moved'
    BY <1>1, <1>3, <1>5, <2>1 DEF Probing, Moved, table
  <2>4. (ReachableIn(fresh, 2 * tableSize) /\ DistinctIn(fresh))'
    BY <1>1, <2>1 DEF Probing, ReachableIn, DistinctIn, table
  <2>5. Entries(slots') \cap 0..(idx' - 1) = Entries(slots) \cap 0..(idx - 1)
    BY <1>1, <1>3, <1>5 DEF Entries, table
  <2> QED
    BY <1>1, <1>2, <1>4, <2>1, <2>2, <2>3, <2>4, <2>5 DEF Probing, Counted
<1>6. CASE slots[idx] \in Items
  <2> DEFINE x == slots[idx]
  <2>1. PICK j \in DOMAIN fresh :
            /\ fresh[j] = NULL
            /\ \A q \in Path(Home(Key[x], s), j, s) : fresh[q] # NULL
            /\ fresh' = [fresh EXCEPT ![j] = x]
    BY <1>6 DEF Rehash
  <2>2. /\ DOMAIN fresh' = DOMAIN fresh
        /\ \A q \in DOMAIN fresh : fresh'[q] = IF q = j THEN x ELSE fresh[q]
    BY <1>1, <2>1
  <2>3. TypeOK'
    <3>1. fresh' \in [0..(s - 1) -> Items \cup {NULL}]
      BY <1>1, <1>6, <2>1 DEF Probing, TypeOK
    <3> QED
      BY <1>1, <3>1 DEF Probing, TypeOK, table
  <2>4. Moved'
    <3> SUFFICES ASSUME NEW y \in Items
                 PROVE  (\E q \in DOMAIN fresh' : fresh'[q] = y)
                            <=> (\E i \in 0..(idx' - 1) : slots'[i] = y)
      BY DEF Moved
    <3>1. (\E q \in DOMAIN fresh' : fresh'[q] = y) <=> (y = x \/ \E q \in DOMAIN fresh : fresh[q] = y)
      BY <2>1, <2>2, HashAssumption
    <3>2. (\E i \in 0..(idx' - 1) : slots'[i] = y) <=> (y = x \/ \E i \in 0..(idx - 1) : slots[i] = y)
      BY <1>1, <1>3 DEF table
    <3> QED
      BY <1>1, <3>1, <3>2 DEF Probing, Moved
  <2>5. DistinctIn(fresh')
    <3>1. \A q \in DOMAIN fresh : fresh[q] \in Items => Key[fresh[q]] # Key[x]
      <4> SUFFICES ASSUME NEW q \in DOMAIN fresh, fresh[q] \in Items, Key[fresh[q]] = Key[x]
                   PROVE  FALSE
        OBVIOUS
      <4>1. PICK i \in 0..(idx - 1) : slots[i] = fresh[q]
        BY <1>1 DEF Probing, Moved
      <4> QED
        BY <1>1, <1>6, <4>1 DEF Probing, DistinctIn
    <3> QED
      BY <1>1, <2>1, <2>2, <3>1 DEF Probing, DistinctIn
  <2>6. ReachableIn(fresh', s)
    <3> SUFFICES ASSUME NEW k \in DOMAIN fresh, fresh'[k] \in Items,
                        NEW q \in Path(Home(Key[fresh'[k]], s), k, s)
                 PROVE  fresh'[q] # NULL
      BY <2>2 DEF ReachableIn
    <3>1. q \in DOMAIN fresh
      BY <1>1, HomeIsSlot, ItemKey, PathInTable
    <3>2. fresh[q] # NULL
      BY <1>1, <2>1, <2>2 DEF Probing, ReachableIn
    <3> QED
      BY <1>6, <2>2, <3>1, <3>2, ItemKey
  <2>7. Cardinality(Entries(fresh')) = Cardinality(Entries(fresh)) + 1
    <3>1. s \in Nat /\ DOMAIN fresh = 0..(s - 1) /\ j \in 0..(s - 1) /\ x \in Items
      BY <1>1, <1>6, <2>1
    <3> HIDE DEF s, x
    <3> QED
      BY ONLY <2>1, <3>1, CountAdd
  <2>8. /\ Entries(slots') \cap 0..(idx' - 1) = (Entries(slots) \cap 0..(idx - 1)) \cup {idx}
        /\ idx \notin Entries(slots) \cap 0..(idx - 1)
    BY <1>1, <1>3, <1>6 DEF Entries, table
  <2>9. Cardinality(Entries(slots') \cap 0..(idx' - 1))
            = Cardinality(Entries(slots) \cap 0..(idx - 1)) + 1
    <3> DEFINE B == Entries(slots) \cap 0..(idx - 1)
    <3>1. IsFiniteSet(B)
      BY <1>1, FiniteIndices
    <3>2. Entries(slots') \cap 0..(idx' - 1) = B \cup {idx} /\ idx \notin B
      BY <2>8
    <3> HIDE DEF B
    <3>3. Cardinality(B \cup {idx}) = IF idx \in B THEN Cardinality(B) ELSE Cardinality(B) + 1
      BY ONLY <3>1, FS_AddElement
    <3>4. Cardinality(B \cup {idx}) = Cardinality(B) + 1
      BY ONLY <3>2, <3>3
    <3> QED
      BY <3>2, <3>4 DEF B
  <2>10. Counted'
    BY <1>1, <1>4, <2>7, <2>9 DEF Counted
  <2>11. Probing'
    BY <1>1, <1>2, <2>3, <2>4, <2>5, <2>6 DEF Probing, table
  <2> QED
    BY <2>10, <2>11
<1> QED
  BY <1>5, <1>6

\* The new table has the entries of the old one and no tombstone.
LEMMA ReplaceInv == Probing /\ Counted /\ Replace => Probing' /\ Counted'
<1> SUFFICES ASSUME Probing, Counted, Replace PROVE Probing' /\ Counted'
  OBVIOUS
<1> USE DEF Replace
<1>1. /\ tableSize \in Nat \ {0} /\ DOMAIN slots = 0..(tableSize - 1)
      /\ fresh \in [0..(2 * tableSize - 1) -> Items \cup {NULL}]
  BY DEF Probing, TypeOK
<1>2. TypeOK'
  BY <1>1 DEF Probing, TypeOK
<1>3. Probing'
  BY <1>2 DEF Probing
<1>4. Tombstones(fresh) = {} /\ Entries(slots) \cap 0..(idx - 1) = Entries(slots)
  BY <1>1, HashAssumption DEF Tombstones, Entries
<1>5. Cardinality(Tombstones(fresh)) = 0 /\ Cardinality(Entries(fresh)) = numEntries
  BY <1>4, FS_EmptySet DEF Counted
<1>6. numEntries \in Nat
  BY CountType DEF Probing
<1>7. Counted'
  BY <1>1, <1>5, <1>6 DEF Counted, LOAD_NUMER, LOAD_DENOM
<1> QED
  BY <1>3, <1>7

LEMMA ClearInv == Probing /\ Counted /\ mzHashTableClear => Probing' /\ Counted'
<1> SUFFICES ASSUME Probing, Counted, mzHashTableClear PROVE Probing' /\ Counted'
  OBVIOUS
<1> USE DEF mzHashTableClear
<1>1. tableSize \in Nat \ {0}
  BY DEF Probing, TypeOK
<1>2. slots' \in [0..(tableSize - 1) -> Items \cup {NULL, TOMBSTONE}]
      /\ Entries(slots') = {} /\ Tombstones(slots') = {}
  BY <1>1, CountEmpty DEF EmptyTable
<1>3. TypeOK'
  BY <1>1, <1>2 DEF Probing, TypeOK
<1>4. Probing'
  BY <1>2, <1>3 DEF Probing, ReachableIn, DistinctIn, Entries
<1>5. Counted'
  BY <1>1, <1>2, FS_EmptySet DEF Counted, LOAD_NUMER, LOAD_DENOM
<1> QED
  BY <1>4, <1>5

\* mzHashForeach() only moves through the table.
LEMMA EachInv == Probing /\ Counted /\ (BeginEach \/ Each \/ EndEach) => Probing' /\ Counted'
<1> SUFFICES ASSUME Probing, Counted, BeginEach \/ Each \/ EndEach PROVE Probing' /\ Counted'
  OBVIOUS
<1>1. /\ pc \in {"idle", "each"} /\ pc' \in {"idle", "each"}
      /\ UNCHANGED <<table, req, fresh, result>>
  BY DEF BeginEach, Each, EndEach, HandOut, Skip, EndLoop
<1>2. pc' = "each" => idx' \in 0..tableSize
  BY DEF BeginEach, Each, EndEach, HandOut, Skip, EndLoop, Probing, TypeOK
<1>3. TypeOK'
  BY <1>1, <1>2 DEF Probing, TypeOK, table
<1>4. Probing'
  BY <1>1, <1>3 DEF Probing, ReachableIn, DistinctIn, table
<1>5. Counted'
  BY <1>1 DEF Counted, table
<1> QED
  BY <1>4, <1>5

LEMMA NextInv == Probing /\ Counted /\ [Next]_hashVars => Probing' /\ Counted'
<1> SUFFICES ASSUME Probing, Counted, [Next]_hashVars PROVE Probing' /\ Counted'
  OBVIOUS
<1>1. CASE Next
  BY <1>1, BeginInv, ProbeInv, ResultInv, RemoveInv, AddInv, RehashInv, ReplaceInv, ClearInv, EachInv
     DEF Next, Operation
<1>2. CASE UNCHANGED hashVars
  <2>1. UNCHANGED <<slots, tableSize, numEntries, numDeadEntries, pc, req, idx, fresh, result>>
    BY <1>2 DEF hashVars, table
  <2>2. TypeOK'
    BY <2>1 DEF Probing, TypeOK
  <2>3. Probing'
    BY <2>1, <2>2 DEF Probing, ReachableIn, DistinctIn, Searched, Match, Moved
  <2>4. Counted'
    BY <2>1 DEF Counted
  <2> QED
    BY <2>3, <2>4
<1> QED
  BY <1>1, <1>2

\* mzHashTableLookup(), resizeHash(): in every table an entry is reached from
\* its home without an empty slot on the way, and no two have the same key,
\* also in the table a resize is filling.
LEMMA ProbingInvariance == Spec => []Probing
<1>1. Init => Probing /\ Counted
  BY InitInv
<1>2. Probing /\ Counted /\ [Next]_hashVars => (Probing /\ Counted)'
  BY NextInv
<1> QED
  BY <1>1, <1>2, PTL DEF Spec

\* The assertions of Hash.c: the counters are those of the table, and a
\* table that can be searched always has an empty slot.
THEOREM CountsHold == Spec => []Counted
<1>1. Init => Probing /\ Counted
  BY InitInv
<1>2. Probing /\ Counted /\ [Next]_hashVars => (Probing /\ Counted)'
  BY NextInv
<1> QED
  BY <1>1, <1>2, PTL DEF Spec

\* What the comment in mzHashTableLookup() fears, "full table is bad -- search
\* for nonexistent never halts", cannot happen: some slot is empty.
LEMMA SomeSlotEmpty ==
    ASSUME Probing, Counted, pc = "probe"
    PROVE  \E i \in DOMAIN slots : slots[i] = NULL
<1> SUFFICES ASSUME \A i \in DOMAIN slots : slots[i] # NULL PROVE FALSE
  OBVIOUS
<1>1. tableSize \in Nat \ {0} /\ DOMAIN slots = 0..(tableSize - 1)
  BY DEF Probing, TypeOK
<1>2. 0..(tableSize - 1) = Entries(slots) \cup Tombstones(slots)
  BY DEF Probing, TypeOK, Entries, Tombstones
<1>3. Entries(slots) \cap Tombstones(slots) = {}
  BY HashAssumption DEF Entries, Tombstones
<1>4. Cardinality(0..(tableSize - 1)) = tableSize
  BY <1>1, FS_Interval
<1>5. IsFiniteSet(Entries(slots)) /\ IsFiniteSet(Tombstones(slots))
  BY <1>1, FiniteIndices
<1>6. Cardinality(Entries(slots) \cap Tombstones(slots)) = 0
  BY <1>3, FS_EmptySet
<1>7. Cardinality(Entries(slots) \cup Tombstones(slots))
        = Cardinality(Entries(slots)) + Cardinality(Tombstones(slots))
            - Cardinality(Entries(slots) \cap Tombstones(slots))
  BY <1>5, FS_Union
<1>8. numEntries \in Nat /\ numDeadEntries \in Nat
  BY CountType DEF Probing
<1>9. numEntries + numDeadEntries = tableSize
  <2>1. tableSize = Cardinality(Entries(slots) \cup Tombstones(slots))
    BY ONLY <1>2, <1>4
  <2>2. numEntries = Cardinality(Entries(slots)) /\ numDeadEntries = Cardinality(Tombstones(slots))
    BY DEF Counted
  <2> QED
    BY ONLY <2>1, <2>2, <1>6, <1>7, <1>8
<1> QED
  BY <1>1, <1>8, <1>9 DEF Counted, LOAD_NUMER, LOAD_DENOM

\* No search meets a table without an empty slot, so every search ends.
THEOREM NeverFull ==
    Spec => [](pc = "probe" => \E i \in DOMAIN slots : slots[i] = NULL)
<1>1. Probing /\ Counted => (pc = "probe" => \E i \in DOMAIN slots : slots[i] = NULL)
  BY SomeSlotEmpty
<1> QED
  BY <1>1, ProbingInvariance, CountsHold, PTL

-----------------------------------------------------------------------------
(* The refinement *)

\* What a step that ends a search has found.
LEMMA FoundReturns == Probing /\ Found => D!Return
<1> SUFFICES ASSUME Probing, Found PROVE D!Return
  OBVIOUS
<1>1. /\ req \in Requests /\ idx \in DOMAIN slots /\ slots[idx] \in Items
      /\ Key[slots[idx]] = req.key /\ req.op # "remove"
      /\ req' = NoRequest /\ result' = slots[idx] /\ slots' = slots
  BY DEF Found, Done, Match, table, Probing, TypeOK
<1>2. result' \in D!Present /\ Live' = Live
  BY <1>1 DEF D!Present, Live, Entries
<1>3. req.op \in {"find", "add"}
  BY <1>1, RequestType
<1> QED
  BY <1>1, <1>2, <1>3 DEF D!Return, D!Find, D!Add

LEMMA NotFoundReturns == Probing /\ NotFound => D!Return
<1> SUFFICES ASSUME Probing, NotFound PROVE D!Return
  OBVIOUS
<1>1. /\ req \in Requests /\ pc = "probe" /\ slots[idx] = NULL /\ req.op # "add"
      /\ req' = NoRequest /\ result' = NULL /\ slots' = slots
  BY DEF NotFound, Done, table, Probing, TypeOK
<1>2. Live' = Live
  BY <1>1 DEF Live, Entries
<1>3. \A x \in Live : ~Match(x)
  BY <1>1, EmptyMeansAbsent DEF Live, Entries
<1>4. \A x \in Live : x \in Items
  BY DEF Live, Entries
<1>5. CASE req.op = "find"
  <2>1. D!Present = {}
    BY <1>3, <1>4, <1>5 DEF D!Present, Match
  <2> QED
    BY <1>1, <1>2, <1>5, <2>1 DEF D!Return, D!Find
<1>6. CASE req.op = "remove"
  <2>1. req.item \notin Live
    BY <1>3, <1>4, <1>6 DEF Match
  <2> QED
    BY <1>1, <1>2, <1>6, <2>1 DEF D!Return, D!Delete
<1> QED
  BY <1>1, <1>5, <1>6, RequestType

LEMMA RemoveReturns == Probing /\ Remove => D!Return
<1> SUFFICES ASSUME Probing, Remove PROVE D!Return
  OBVIOUS
<1>1. /\ req \in Requests /\ idx \in DOMAIN slots /\ slots[idx] \in Items
      /\ slots[idx] = req.item /\ req.op = "remove"
      /\ req' = NoRequest /\ result' = req.item
      /\ slots' = [slots EXCEPT ![idx] = TOMBSTONE]
  BY DEF Remove, Done, Match, Probing, TypeOK
<1>2. req.item \in Live
  BY <1>1 DEF Live, Entries
<1>3. /\ DOMAIN slots' = DOMAIN slots
      /\ \A q \in DOMAIN slots : slots'[q] = IF q = idx THEN TOMBSTONE ELSE slots[q]
  BY <1>1
<1>4. \A q \in DOMAIN slots : slots[q] = req.item => q = idx
  BY <1>1 DEF Probing, DistinctIn
<1>5. Live' = Live \ {req.item}
  BY <1>1, <1>3, <1>4, HashAssumption DEF Live, Entries
<1> QED
  BY <1>1, <1>2, <1>5 DEF D!Return, D!Delete

LEMMA AddReturns == Probing /\ Add => D!Return
<1> SUFFICES ASSUME Probing, Add PROVE D!Return
  OBVIOUS
<1>1. /\ req \in Requests /\ pc = "probe" /\ idx \in DOMAIN slots /\ slots[idx] = NULL
      /\ req.op = "add" /\ req' = NoRequest /\ result' = req.item
      /\ slots' = [slots EXCEPT ![idx] = req.item]
  BY DEF Add, Probing, TypeOK
<1>2. req.item \in Items
  BY <1>1, RequestType
<1>3. /\ DOMAIN slots' = DOMAIN slots
      /\ \A q \in DOMAIN slots : slots'[q] = IF q = idx THEN req.item ELSE slots[q]
  BY <1>1
<1>4. D!Present = {}
  BY <1>1, EmptyMeansAbsent DEF D!Present, Live, Entries, Match
<1>5. Live' = Live \cup {req.item}
  BY <1>1, <1>2, <1>3, HashAssumption DEF Live, Entries
<1> QED
  BY <1>1, <1>4, <1>5 DEF D!Return, D!Add

\* A resize moves what is there.
LEMMA ReplaceStutters == Probing /\ Replace => Live' = Live
<1> SUFFICES ASSUME Probing, Replace PROVE Live' = Live
  OBVIOUS
<1>1. /\ slots' = fresh /\ DOMAIN slots = 0..(tableSize - 1) /\ tableSize \in Nat
      /\ idx = tableSize /\ Moved
  BY DEF Replace, Probing, TypeOK
<1>2. \A x \in Items : (\E j \in DOMAIN fresh : fresh[j] = x)
                        <=> (\E i \in DOMAIN slots : slots[i] = x)
  BY <1>1 DEF Moved
<1> QED
  BY <1>1, <1>2 DEF Live, Entries

\* The table is a dictionary of at most one item for a key: a search sees
\* what was added and not removed, whatever collisions, tombstones and
\* resizes lie between.
THEOREM Refines == Spec => Refinement
<1>1. Init => D!Init
  <2> SUFFICES ASSUME Init PROVE D!Init
    OBVIOUS
  <2>1. tableSize \in Nat /\ Entries(slots) = {}
    BY HashAssumption, CountEmpty DEF Init
  <2> QED
    BY <2>1 DEF Init, D!Init, Live
<1>2. Probing /\ [Next]_hashVars => [D!Next]_D!dictVars
  <2> SUFFICES ASSUME Probing, [Next]_hashVars PROVE [D!Next]_D!dictVars
    OBVIOUS
  <2>1. CASE Begin
    <3>1. req = NoRequest /\ req' \in Requests /\ Live' = Live /\ result' = result
      BY <2>1 DEF Begin, table, Probing, TypeOK, Live, Entries
    <3> QED
      BY <3>1 DEF D!Call, D!Next
  <2>2. CASE Found \/ NotFound \/ Remove \/ Add
    BY <2>2, FoundReturns, NotFoundReturns, RemoveReturns, AddReturns DEF D!Next
  <2>3. CASE mzHashTableClear
    <3>1. tableSize \in Nat /\ req = NoRequest
      BY <2>3 DEF mzHashTableClear, Probing, TypeOK
    <3>2. Live' = {} /\ req' = req /\ result' = result
      BY <2>3, <3>1, CountEmpty DEF mzHashTableClear, Live
    <3> QED
      BY <3>1, <3>2 DEF D!Clear, D!Next
  <2>4. CASE Replace
    <3>1. req' = req /\ result' = result
      BY <2>4 DEF Replace
    <3> QED
      BY <2>4, <3>1, ReplaceStutters DEF D!dictVars
  <2>5. CASE UNCHANGED <<slots, req, result>>
    BY <2>5 DEF D!dictVars, Live, Entries
  <2> QED
    BY <2>1, <2>2, <2>3, <2>4, <2>5
       DEF Next, Operation, Probe, Rehash, BeginEach, Each, EndEach, hashVars, table
<1> QED
  BY <1>1, <1>2, ProbingInvariance, PTL DEF Spec, Refinement, D!Spec
-----------------------------------------------------------------------------
(* The loop over the entries *)

\* One slot further: one more entry is behind the loop, or none.
LEMMA BehindStep ==
    ASSUME NEW s \in Nat \ {0}, NEW t, DOMAIN t = 0..(s - 1), NEW k \in 0..(s - 1)
    PROVE  LET B == Entries(t) \cap 0..(k - 1)
               C == Entries(t) \cap 0..((k + 1) - 1)
           IN /\ t[k] \in Items => /\ C = B \cup {k}
                                  /\ Cardinality(C) = Cardinality(B) + 1
              /\ t[k] \notin Items => C = B
<1> DEFINE B == Entries(t) \cap 0..(k - 1)
           C == Entries(t) \cap 0..((k + 1) - 1)
<1>1. IsFiniteSet(B)
  BY FiniteIndices
<1>2. t[k] \in Items => C = B \cup {k} /\ k \notin B
  BY DEF Entries
<1>3. t[k] \notin Items => C = B
  BY DEF Entries
<1>4. t[k] \in Items => Cardinality(C) = Cardinality(B) + 1
  <2> HIDE DEF B, C
  <2>1. Cardinality(B \cup {k}) = IF k \in B THEN Cardinality(B) ELSE Cardinality(B) + 1
    BY ONLY <1>1, FS_AddElement
  <2> QED
    BY ONLY <1>2, <2>1
<1> QED
  BY <1>2, <1>3, <1>4

LEMMA AppendRange ==
    ASSUME NEW S, NEW q \in Seq(S), NEW x \in S
    PROVE  /\ Append(q, x) \in Seq(S) /\ Len(Append(q, x)) = Len(q) + 1
           /\ {Append(q, x)[i] : i \in DOMAIN Append(q, x)}
                  = {q[i] : i \in DOMAIN q} \cup {x}
<1>1. /\ Append(q, x) \in Seq(S) /\ Len(Append(q, x)) = Len(q) + 1
      /\ DOMAIN Append(q, x) = 1..(Len(q) + 1) /\ DOMAIN q = 1..Len(q) /\ Len(q) \in Nat
      /\ \A i \in 1..Len(q) : Append(q, x)[i] = q[i]
      /\ Append(q, x)[Len(q) + 1] = x
  OBVIOUS
<1>2. 1..(Len(q) + 1) = (1..Len(q)) \cup {Len(q) + 1}
  BY <1>1
<1> QED
  BY <1>1, <1>2

LEMMA NextHandedOut == Probing /\ HandedOut /\ [Next]_hashVars => HandedOut'
<1> SUFFICES ASSUME Probing, HandedOut, [Next]_hashVars PROVE HandedOut'
  OBVIOUS
<1>1. CASE Begin
  BY <1>1 DEF Begin, HandedOut
<1>2. CASE Probe \/ Found \/ Remove \/ NotFound \/ Add \/ Rehash \/ Replace
  BY <1>2 DEF Probe, Found, Remove, NotFound, Add, Rehash, Replace, Done, HandedOut
<1>3. CASE mzHashTableClear
  BY <1>3 DEF mzHashTableClear, HandedOut
<1>4. CASE BeginEach
  <2>1. pc' = "each" /\ visited' = <<>> /\ idx' = 0 /\ slots' = slots
    BY <1>4 DEF BeginEach, HandedOut, table
  <2>2. Behind' = {}
    BY <2>1 DEF Behind
  <2>3. Cardinality(Behind') = 0
    BY <2>2, FS_EmptySet
  <2>4. <<>> \in Seq(Items) /\ Len(<<>>) = 0 /\ DOMAIN <<>> = {}
    OBVIOUS
  <2> QED
    BY <2>1, <2>2, <2>3, <2>4 DEF HandedOut
<1>5. CASE Each
  <2>1. /\ tableSize \in Nat \ {0} /\ DOMAIN slots = 0..(tableSize - 1)
        /\ idx \in 0..(tableSize - 1) /\ slots' = slots
        /\ visited \in Seq(Items) /\ Len(visited) = Cardinality(Behind)
        /\ {visited[i] : i \in DOMAIN visited} = {slots[i] : i \in Behind}
    BY <1>5 DEF Each, table, HandedOut, Probing, TypeOK
  <2>2. CASE slots[idx] \in Items /\ HandOut
    <3>1. pc' = "each" /\ idx' = idx + 1 /\ visited' = Append(visited, slots[idx])
      BY <1>5, <2>2 DEF Each, HandOut
    <3>2. Behind' = Behind \cup {idx} /\ Cardinality(Behind') = Cardinality(Behind) + 1
      <4>1. Behind' = Entries(slots) \cap 0..((idx + 1) - 1)
        BY <2>1, <3>1 DEF Behind, Entries
      <4> QED
        BY <2>1, <2>2, <4>1, BehindStep DEF Behind
    <3>3. {slots[i] : i \in Behind'} = {slots[i] : i \in Behind} \cup {slots[idx]}
      BY <3>2
    <3>4. /\ visited' \in Seq(Items) /\ Len(visited') = Len(visited) + 1
          /\ {visited'[i] : i \in DOMAIN visited'}
                 = {visited[i] : i \in DOMAIN visited} \cup {slots[idx]}
      BY <2>1, <2>2, <3>1, AppendRange
    <3> QED
      BY <2>1, <3>1, <3>2, <3>3, <3>4 DEF HandedOut
  <2>3. CASE EndLoop
    BY <2>3 DEF EndLoop, HandedOut
  <2>4. CASE slots[idx] \notin Items /\ Skip
    <3>1. pc' = "each" /\ idx' = idx + 1 /\ visited' = visited
      BY <1>5, <2>4 DEF Each, Skip
    <3>2. Behind' = Behind
      <4>1. Behind' = Entries(slots) \cap 0..((idx + 1) - 1)
        BY <2>1, <3>1 DEF Behind, Entries
      <4> QED
        BY <2>1, <2>4, <4>1 DEF Behind, Entries
    <3> QED
      BY <2>1, <3>1, <3>2 DEF HandedOut
  <2> QED
    BY <1>5, <2>2, <2>3, <2>4 DEF Each
<1>6. CASE EndEach
  BY <1>6 DEF EndEach, EndLoop, HandedOut
<1>7. CASE UNCHANGED hashVars
  BY <1>7 DEF hashVars, table, HandedOut, Behind
<1> QED
  BY <1>1, <1>2, <1>3, <1>4, <1>5, <1>6, <1>7 DEF Next, Operation

\* The whole inductive invariant: an entry is reached from its home without
\* an empty slot on the way, also in the table a resize is filling, the
\* counters are those of the table, and a loop has handed out what is behind it.
THEOREM Invariance == Spec => []IInv
<1>1. Init => HandedOut
  BY DEF Init, HandedOut
<1>2. Probing /\ HandedOut /\ [Next]_hashVars => HandedOut'
  BY NextHandedOut
<1>3. Probing /\ Counted /\ HandedOut => IInv
  BY DEF IInv
<1> QED
  BY <1>1, <1>2, <1>3, ProbingInvariance, CountsHold, PTL DEF Spec

\* mzHashForeach() that is not ended by its function hands out every entry,
\* and none twice: what is behind the loop was handed out, and at its end
\* everything is.
THEOREM ForeachVisitsAll == Spec => []EachOnce
<1>1. IInv => EachOnce
  <2> SUFFICES ASSUME Probing, Counted, HandedOut, pc = "each", idx = tableSize
               PROVE  /\ {visited[i] : i \in DOMAIN visited} = Live
                      /\ Len(visited) = numEntries
    BY DEF EachOnce, IInv
  <2>1. Behind = Entries(slots)
    BY DEF Behind, Entries, Probing, TypeOK
  <2> QED
    BY <2>1 DEF HandedOut, Counted, Live
<1> QED
  BY <1>1, Invariance, PTL
=============================================================================
