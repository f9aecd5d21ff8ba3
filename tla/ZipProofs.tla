------------------------------ MODULE ZipProofs ------------------------------
(***************************************************************************)
(* Proofs about Zip: the functions that are defined by recursion have      *)
(* values, the order of names is one, and the array of an archive is       *)
(* sorted and holds every entry of the directory.                          *)
(*                                                                         *)
(* Induction is over sets: a set of numbers that contains 0 and, with n,   *)
(* n + 1 is the set of all of them.                                        *)
(***************************************************************************)
EXTENDS Zip, SequenceTheorems, WellFoundedInduction, TLAPS

-----------------------------------------------------------------------------
(* Induction and recursion *)

LEMMA LeastNat ==
    ASSUME NEW T, T \subseteq Nat, T # {}
    PROVE  \E x \in T : \A y \in T : x <= y
<1>1. PICK x \in T : \A y \in T : ~(<<y, x>> \in OpToRel(<, Nat))
  BY NatLessThanWellFounded, WFMin, Zenon
<1>2. \A y \in T : ~(y < x)
  BY <1>1 DEF OpToRel
<1>3. \A y \in T : x <= y
  BY <1>2
<1> QED
  BY <1>3

LEMMA NatSets ==
    ASSUME NEW T, 0 \in T, \A n \in Nat : n \in T => n + 1 \in T
    PROVE  \A n \in Nat : n \in T
<1> SUFFICES ASSUME Nat \ T # {} PROVE FALSE
  OBVIOUS
<1>1. PICK x \in Nat \ T : \A y \in Nat \ T : x <= y
  BY LeastNat
<1>2. x # 0 /\ x - 1 \in Nat /\ x - 1 \in T
  BY <1>1
<1> QED
  BY <1>1, <1>2

\* A function that calls itself once, at the end, on arguments for which the
\* measure mu is smaller, exists.
Falls(mu, D, Stop, nxt) == \A r \in D : r \notin Stop => mu[nxt[r]] < mu[r]
Follows(f, D, Stop, val, nxt) ==
    \A r \in D : f[r] = IF r \in Stop THEN val[r] ELSE f[nxt[r]]

LEMMA TailRecursion ==
    ASSUME NEW D, NEW V, NEW M \in Nat, NEW mu \in [D -> 0..M],
           NEW Stop, NEW val \in [D -> V], NEW nxt \in [D -> D],
           Falls(mu, D, Stop, nxt)
    PROVE  \E f \in [D -> V] : Follows(f, D, Stop, val, nxt)
<1> DEFINE Below(n) == {r \in D : mu[r] < n}
           Solves(n, f) == \A r \in Below(n) : f[r] = IF r \in Stop THEN val[r] ELSE f[nxt[r]]
           T == {n \in Nat : \E f \in [D -> V] : Solves(n, f)}
<1>1. 0 \in T
  <2>1. val \in [D -> V] /\ Below(0) = {}
    OBVIOUS
  <2> HIDE DEF Below
  <2>2. Solves(0, val)
    BY <2>1
  <2> HIDE DEF Solves
  <2> QED
    BY <2>1, <2>2
<1>2. ASSUME NEW n \in Nat, n \in T PROVE n + 1 \in T
  <2>1. PICK f \in [D -> V] : Solves(n, f)
    BY <1>2
  <2> DEFINE g == [r \in D |-> IF mu[r] < n THEN f[r]
                               ELSE IF r \in Stop THEN val[r] ELSE f[nxt[r]]]
  <2>2. g \in [D -> V]
    OBVIOUS
  <2>3. ASSUME NEW r \in Below(n + 1) PROVE g[r] = IF r \in Stop THEN val[r] ELSE g[nxt[r]]
    <3>1. r \in D /\ mu[r] \in Nat /\ mu[r] < n + 1 /\ nxt[r] \in D /\ mu[nxt[r]] \in Nat
      OBVIOUS
    <3>2. r \notin Stop => mu[nxt[r]] < n
      BY <3>1 DEF Falls
    <3>3. r \notin Stop => g[nxt[r]] = f[nxt[r]]
      BY <3>1, <3>2
    <3>4. g[r] = IF r \in Stop THEN val[r] ELSE f[nxt[r]]
      BY <2>1, <3>1
    <3> QED
      BY <3>3, <3>4
  <2> HIDE DEF g
  <2>4. Solves(n + 1, g)
    BY <2>3
  <2> HIDE DEF Solves
  <2> QED
    BY <2>2, <2>4
<1> HIDE DEF T
<1>3. \A n \in Nat : n \in T
  BY <1>1, <1>2, NatSets
<1>4. PICK f \in [D -> V] : Solves(M + 1, f)
  BY <1>3 DEF T
<1>5. D \subseteq Below(M + 1)
  OBVIOUS
<1> QED
  BY <1>4, <1>5 DEF Follows

-----------------------------------------------------------------------------
(* Sequences *)

LEMMA SeqOver ==
    ASSUME NEW S, NEW q \in Seq(S)
    PROVE  IsSeq(q) /\ Len(q) \in Nat /\ DOMAIN q = 1..Len(q)
<1>1. Len(q) \in Nat /\ q \in [1..Len(q) -> S] /\ DOMAIN q = 1..Len(q)
  BY LenProperties
<1>2. \A i \in 1..Len(q) : q[i] \in Range(q)
  BY <1>1 DEF Range
<1>3. [i \in 1..Len(q) |-> q[i]] \in Seq(Range(q))
  BY <1>1, <1>2, IsASeq
<1> QED
  BY <1>1, <1>3 DEF IsSeq

LEMMA SeqAppended ==
    ASSUME NEW q, IsSeq(q), NEW e
    PROVE  /\ IsSeq(Append(q, e)) /\ Len(q) \in Nat /\ Len(Append(q, e)) = Len(q) + 1
           /\ \A i \in 1..Len(q) : Append(q, e)[i] = q[i]
           /\ Append(q, e)[Len(q) + 1] = e
<1> DEFINE S == Range(q) \cup {e}
<1>1. q \in Seq(S) /\ e \in S
  BY SeqMonotonic DEF IsSeq
<1> HIDE DEF S
<1>2. Append(q, e) \in Seq(S) /\ Len(q) \in Nat
  BY <1>1, AppendProperties, LenProperties
<1>3. /\ Len(Append(q, e)) = Len(q) + 1
      /\ \A i \in 1..Len(q) : Append(q, e)[i] = q[i]
      /\ Append(q, e)[Len(q) + 1] = e
  BY <1>1, AppendProperties
<1> QED
  BY <1>2, <1>3, SeqOver

LEMMA SeqHeadTail ==
    ASSUME NEW q, IsSeq(q), q # <<>>
    PROVE  /\ IsSeq(Tail(q)) /\ Len(q) \in Nat \ {0} /\ Len(Tail(q)) = Len(q) - 1
           /\ \A i \in 1..(Len(q) - 1) : Tail(q)[i] = q[i + 1]
           /\ Head(q) = q[1]
<1> DEFINE S == Range(q)
<1>1. q \in Seq(S)
  BY DEF IsSeq
<1> HIDE DEF S
<1>2. Tail(q) \in Seq(S) /\ Len(Tail(q)) = Len(q) - 1
  BY <1>1, HeadTailProperties
<1>3. Len(q) \in Nat \ {0}
  BY <1>1, EmptySeq
<1>4. /\ \A i \in 1..(Len(q) - 1) : Tail(q)[i] = q[i + 1]
      /\ Head(q) = q[1]
  BY <1>1, <1>3
<1> QED
  BY <1>2, <1>3, <1>4, SeqOver

LEMMA Flattened ==
    ASSUME NEW S, NEW q \in Seq(Seq(S))
    PROVE  FlattenSeq(q) \in Seq(S)
<1> DEFINE n == Len(q)
           Def(f) == [i \in 1..n |-> IF i = 1 THEN q[i] ELSE f[i - 1] \o q[i]]
           Flat == CHOOSE f : f = Def(f)
           Upto(k, f) == \A i \in 1..k : f[i] = IF i = 1 THEN q[i] ELSE f[i - 1] \o q[i]
           T == {k \in Nat : k <= n => \E f \in [1..k -> Seq(S)] : Upto(k, f)}
<1>0. n \in Nat /\ \A i \in 1..n : q[i] \in Seq(S)
  BY LenProperties, ElementOfSeq
<1>1. FlattenSeq(q) = IF n = 0 THEN q ELSE Flat[n]
  BY DEF FlattenSeq
<1>2. 0 \in T
  <2> DEFINE f == [i \in 1..0 |-> <<>>]
  <2>1. f \in [1..0 -> Seq(S)] /\ Upto(0, f)
    OBVIOUS
  <2> HIDE DEF f, Upto
  <2> QED
    BY <2>1
<1>3. ASSUME NEW k \in Nat, k \in T PROVE k + 1 \in T
  <2> SUFFICES ASSUME k + 1 <= n PROVE \E f \in [1..(k + 1) -> Seq(S)] : Upto(k + 1, f)
    <3> HIDE DEF Upto
    <3> QED
      OBVIOUS
  <2>1. PICK f \in [1..k -> Seq(S)] : Upto(k, f)
    <3>1. k <= n
      BY <1>0
    <3> HIDE DEF Upto
    <3> QED
      BY <1>3, <3>1
  <2> DEFINE v == IF k + 1 = 1 THEN q[k + 1] ELSE f[k] \o q[k + 1]
             g == [i \in 1..(k + 1) |-> IF i = k + 1 THEN v ELSE f[i]]
  <2>2. v \in Seq(S)
    <3>1. q[k + 1] \in Seq(S)
      BY <1>0
    <3>2. k + 1 # 1 => f[k] \in Seq(S)
      OBVIOUS
    <3> QED
      BY <3>1, <3>2, ConcatProperties
  <2>3. v = IF k + 1 = 1 THEN q[k + 1] ELSE f[k] \o q[k + 1]
    OBVIOUS
  <2> HIDE DEF v
  <2>4. g \in [1..(k + 1) -> Seq(S)]
    BY <2>2
  <2>5. \A i \in 1..(k + 1) : g[i] = IF i = k + 1 THEN v ELSE f[i]
    OBVIOUS
  <2> HIDE DEF g
  <2>6. ASSUME NEW i \in 1..(k + 1) PROVE g[i] = IF i = 1 THEN q[i] ELSE g[i - 1] \o q[i]
    <3>1. CASE i = k + 1 /\ i = 1
      BY <2>3, <2>5, <3>1
    <3>2. CASE i = k + 1 /\ i # 1
      <4>1. i - 1 \in 1..(k + 1) /\ i - 1 = k /\ k # k + 1
        BY <3>2
      <4>2. g[i - 1] = f[k]
        BY <2>5, <4>1
      <4> QED
        BY <2>3, <2>5, <3>2, <4>1, <4>2
    <3>3. CASE i # k + 1
      <4>1. i \in 1..k /\ g[i] = f[i] /\ (i # 1 => i - 1 \in 1..k /\ g[i - 1] = f[i - 1])
        BY <2>5, <3>3
      <4> QED
        BY <2>1, <4>1
    <3> QED
      BY <3>1, <3>2, <3>3
  <2>7. Upto(k + 1, g)
    BY <2>6
  <2> HIDE DEF Upto
  <2> QED
    BY <2>4, <2>7
<1> HIDE DEF T
<1>4. n \in T
  BY <1>0, <1>2, <1>3, NatSets
<1>5. \E f : f = Def(f)
  <2>1. PICK f \in [1..n -> Seq(S)] : Upto(n, f)
    BY <1>0, <1>4 DEF T
  <2>2. f = Def(f)
    BY <2>1
  <2> HIDE DEF Def
  <2> QED
    BY <2>2
<1>6. Flat = Def(Flat)
  <2> HIDE DEF Def
  <2> QED
    BY <1>5
<1>7. \A i \in 1..n : Flat[i] = IF i = 1 THEN q[i] ELSE Flat[i - 1] \o q[i]
  <2> HIDE DEF Flat
  <2> QED
    BY <1>6
<1> HIDE DEF Flat, n
<1> DEFINE U == {k \in Nat : k \in 1..n => Flat[k] \in Seq(S)}
<1>8. 0 \in U
  OBVIOUS
<1>9. ASSUME NEW k \in Nat, k \in U PROVE k + 1 \in U
  <2> SUFFICES ASSUME k + 1 \in 1..n PROVE Flat[k + 1] \in Seq(S)
    OBVIOUS
  <2>1. q[k + 1] \in Seq(S)
    BY <1>0
  <2>2. CASE k = 0
    BY <1>7, <2>1, <2>2
  <2>3. CASE k # 0
    <3>1. k \in 1..n /\ k + 1 # 1 /\ (k + 1) - 1 = k
      BY <1>0, <2>3
    <3>2. Flat[k + 1] = Flat[k] \o q[k + 1] /\ Flat[k] \in Seq(S)
      BY <1>7, <1>9, <3>1
    <3> QED
      BY <2>1, <3>2, ConcatProperties
  <2> QED
    BY <2>2, <2>3
<1> HIDE DEF U
<1>10. n \in U
  BY <1>0, <1>8, <1>9, NatSets
<1>11. CASE n = 0
  <2>1. q = <<>>
    BY <1>11, EmptySeq DEF n
  <2> QED
    BY <1>1, <1>11, <2>1, EmptySeq
<1>12. CASE n # 0
  BY <1>0, <1>1, <1>10, <1>12 DEF U
<1> QED
  BY <1>11, <1>12

-----------------------------------------------------------------------------
(* The order of names *)

Names == Seq(DOMAIN Ord)

LEMMA LeastOf ==
    ASSUME NEW S, S \subseteq Nat, S # {}
    PROVE  Least(S) \in S /\ \A j \in S : Least(S) <= j
BY LeastNat DEF Least

\* One name is the beginning of the other, or k is where they differ first.
Begins(a, b) == \A i \in 1..Len(a) : i <= Len(b) => a[i] = b[i]
Differ(a, b, k) ==
    /\ k \in 1..Len(a) /\ k \in 1..Len(b) /\ a[k] # b[k]
    /\ \A i \in 1..(k - 1) : a[i] = b[i]

LEMMA CompareCases ==
    ASSUME NEW a \in Names, NEW b \in Names
    PROVE  \/ Begins(a, b) /\ Compare(a, b) = Len(a) - Len(b)
           \/ \E k \in Nat : Differ(a, b, k) /\ Compare(a, b) = Ord[a[k]] - Ord[b[k]]
<1> DEFINE n == IF Len(a) < Len(b) THEN Len(a) ELSE Len(b)
           d == {i \in 1..n : a[i] # b[i]}
<1>0. Len(a) \in Nat /\ Len(b) \in Nat
  BY LenProperties DEF Names
<1>1. Compare(a, b) = IF d = {} THEN Len(a) - Len(b) ELSE Ord[a[Least(d)]] - Ord[b[Least(d)]]
  BY DEF Compare
<1>2. \A i \in 1..n : i \in 1..Len(a) /\ i \in 1..Len(b)
  BY <1>0
<1>3. \A i \in 1..Len(a) : i <= Len(b) => i \in 1..n
  BY <1>0
<1>4. CASE d = {}
  BY <1>1, <1>3, <1>4 DEF Begins
<1>5. CASE d # {}
  <2>1. n \in Nat /\ d \subseteq Nat
    BY <1>0
  <2>2. PICK k : k = Least(d)
    OBVIOUS
  <2>3. k \in d /\ \A j \in d : k <= j
    BY <1>5, <2>1, <2>2, LeastOf
  <2>4. k \in 1..n /\ a[k] # b[k]
    BY <2>3
  <2>5. ASSUME NEW i \in 1..(k - 1) PROVE a[i] = b[i]
    BY <2>1, <2>3, <2>4
  <2>6. Differ(a, b, k)
    BY <1>2, <2>4, <2>5 DEF Differ
  <2> QED
    BY <1>1, <1>5, <2>1, <2>2, <2>4, <2>6
<1> QED
  BY <1>4, <1>5

LEMMA OrdOf ==
    ASSUME NEW a \in Names, NEW k \in 1..Len(a)
    PROVE  a[k] \in DOMAIN Ord /\ Ord[a[k]] \in Int
BY ZipAssumption, ElementOfSeq DEF Names

LEMMA CompareInt == ASSUME NEW a \in Names, NEW b \in Names PROVE Compare(a, b) \in Int
<1>1. Len(a) \in Nat /\ Len(b) \in Nat
  BY LenProperties DEF Names
<1>2. CASE \E k \in Nat : Differ(a, b, k) /\ Compare(a, b) = Ord[a[k]] - Ord[b[k]]
  BY <1>2, OrdOf DEF Differ
<1> QED
  BY <1>1, <1>2, CompareCases

LEMMA CompareBack ==
    ASSUME NEW a \in Names, NEW b \in Names, Compare(a, b) >= 0
    PROVE  Compare(b, a) <= 0
<1>1. Len(a) \in Nat /\ Len(b) \in Nat
  BY LenProperties DEF Names
<1>2. CASE Begins(a, b) /\ Compare(a, b) = Len(a) - Len(b)
  <2>1. \A k : ~Differ(b, a, k)
    BY <1>1, <1>2 DEF Begins, Differ
  <2>2. Compare(b, a) = Len(b) - Len(a)
    BY <2>1, CompareCases
  <2> QED
    BY <1>1, <1>2, <2>2
<1>3. ASSUME NEW k \in Nat, Differ(a, b, k), Compare(a, b) = Ord[a[k]] - Ord[b[k]]
      PROVE  Compare(b, a) <= 0
  <2>1. ~Begins(b, a)
    BY <1>1, <1>3 DEF Begins, Differ
  <2>2. PICK l \in Nat : Differ(b, a, l) /\ Compare(b, a) = Ord[b[l]] - Ord[a[l]]
    BY <2>1, CompareCases
  <2>3. k = l
    BY <1>1, <1>3, <2>2 DEF Differ
  <2>4. Ord[a[k]] \in Int /\ Ord[b[k]] \in Int
    BY <1>3, OrdOf DEF Differ
  <2> QED
    BY <1>3, <2>2, <2>3, <2>4
<1> QED
  BY <1>2, <1>3, CompareCases

LEMMA CompareThrough ==
    ASSUME NEW a \in Names, NEW b \in Names, NEW c \in Names,
           Compare(a, b) <= 0, Compare(b, c) <= 0
    PROVE  Compare(a, c) <= 0
<1>1. Len(a) \in Nat /\ Len(b) \in Nat /\ Len(c) \in Nat
  BY LenProperties DEF Names
<1>2. ASSUME Begins(a, b), Len(a) <= Len(b), Begins(b, c), Len(b) <= Len(c)
      PROVE  Compare(a, c) <= 0
  <2>1. \A k : ~Differ(a, c, k)
    BY <1>1, <1>2 DEF Begins, Differ
  <2> QED
    BY <1>1, <1>2, <2>1, CompareCases
<1>3. ASSUME Begins(a, b), Len(a) <= Len(b), NEW l \in Nat, Differ(b, c, l), Ord[b[l]] <= Ord[c[l]]
      PROVE  Compare(a, c) <= 0
  <2>1. CASE l <= Len(a)
    <3>1. Differ(a, c, l) /\ a[l] = b[l]
      BY <1>1, <1>3, <2>1 DEF Begins, Differ
    <3>2. ~Begins(a, c) /\ \A m \in Nat : Differ(a, c, m) => m = l
      BY <1>1, <3>1 DEF Begins, Differ
    <3>3. Compare(a, c) = Ord[a[l]] - Ord[c[l]]
      BY <3>2, CompareCases
    <3>4. Ord[a[l]] \in Int /\ Ord[c[l]] \in Int
      BY <3>1, OrdOf DEF Differ
    <3> QED
      BY <1>3, <3>1, <3>3, <3>4
  <2>2. CASE l > Len(a)
    <3>1. Begins(a, c) /\ Len(a) <= Len(c)
      BY <1>1, <1>3, <2>2 DEF Begins, Differ
    <3>2. \A m : ~Differ(a, c, m)
      BY <1>1, <3>1 DEF Begins, Differ
    <3> QED
      BY <1>1, <3>1, <3>2, CompareCases
  <2> QED
    BY <1>1, <2>1, <2>2
<1>4. ASSUME NEW k \in Nat, Differ(a, b, k), Ord[a[k]] <= Ord[b[k]], Begins(b, c), Len(b) <= Len(c)
      PROVE  Compare(a, c) <= 0
  <2>1. Differ(a, c, k) /\ c[k] = b[k]
    BY <1>1, <1>4 DEF Begins, Differ
  <2>2. ~Begins(a, c) /\ \A m \in Nat : Differ(a, c, m) => m = k
    BY <1>1, <2>1 DEF Begins, Differ
  <2>3. Compare(a, c) = Ord[a[k]] - Ord[c[k]]
    BY <2>2, CompareCases
  <2>4. Ord[a[k]] \in Int /\ Ord[c[k]] \in Int
    BY <2>1, OrdOf DEF Differ
  <2> QED
    BY <1>4, <2>1, <2>3, <2>4
<1>5. ASSUME NEW k \in Nat, Differ(a, b, k), Ord[a[k]] <= Ord[b[k]],
             NEW l \in Nat, Differ(b, c, l), Ord[b[l]] <= Ord[c[l]]
      PROVE  Compare(a, c) <= 0
  <2>0. /\ a[k] \in DOMAIN Ord /\ b[k] \in DOMAIN Ord /\ b[l] \in DOMAIN Ord /\ c[l] \in DOMAIN Ord
        /\ Ord[a[k]] \in Int /\ Ord[b[k]] \in Int /\ Ord[b[l]] \in Int /\ Ord[c[l]] \in Int
    BY <1>5, OrdOf DEF Differ
  <2> DEFINE m == IF k <= l THEN k ELSE l
  <2>1. m \in Nat /\ m \in 1..Len(a) /\ m \in 1..Len(c) /\ \A i \in 1..(m - 1) : a[i] = c[i]
    BY <1>1, <1>5 DEF Differ
  <2>2. a[m] # c[m] /\ Ord[a[m]] <= Ord[c[m]]
    <3>1. CASE k < l
      <4>1. m = k /\ c[k] = b[k]
        BY <1>5, <3>1 DEF Differ
      <4> QED
        BY <1>5, <4>1 DEF Differ
    <3>2. CASE l < k
      <4>1. m = l /\ a[l] = b[l]
        BY <1>5, <3>2 DEF Differ
      <4> QED
        BY <1>5, <4>1 DEF Differ
    <3>3. CASE k = l
      <4>1. Ord[a[k]] # Ord[b[k]] /\ Ord[b[k]] # Ord[c[k]]
        BY <1>5, <2>0, <3>3, ZipAssumption DEF Differ
      <4>2. Ord[a[k]] < Ord[c[k]]
        BY <1>5, <2>0, <3>3, <4>1
      <4> QED
        BY <2>0, <3>3, <4>2
    <3> QED
      BY <3>1, <3>2, <3>3
  <2> HIDE DEF m
  <2>3. Differ(a, c, m)
    BY <2>1, <2>2 DEF Differ
  <2>4. ~Begins(a, c) /\ \A j \in Nat : Differ(a, c, j) => j = m
    BY <1>1, <2>1, <2>3 DEF Begins, Differ
  <2>5. Compare(a, c) = Ord[a[m]] - Ord[c[m]]
    BY <2>4, CompareCases
  <2>6. Ord[a[m]] \in Int /\ Ord[c[m]] \in Int
    BY <2>1, OrdOf
  <2> QED
    BY <2>2, <2>5, <2>6
<1>6. \/ Begins(a, b) /\ Len(a) <= Len(b)
      \/ \E k \in Nat : Differ(a, b, k) /\ Ord[a[k]] <= Ord[b[k]]
  <2>1. CASE \E k \in Nat : Differ(a, b, k) /\ Compare(a, b) = Ord[a[k]] - Ord[b[k]]
    <3>1. PICK k \in Nat : Differ(a, b, k) /\ Compare(a, b) = Ord[a[k]] - Ord[b[k]]
      BY <2>1
    <3>2. Ord[a[k]] \in Int /\ Ord[b[k]] \in Int
      BY <3>1, OrdOf DEF Differ
    <3> QED
      BY <3>1, <3>2
  <2> QED
    BY <1>1, <2>1, CompareCases
<1>7. \/ Begins(b, c) /\ Len(b) <= Len(c)
      \/ \E k \in Nat : Differ(b, c, k) /\ Ord[b[k]] <= Ord[c[k]]
  <2>1. CASE \E k \in Nat : Differ(b, c, k) /\ Compare(b, c) = Ord[b[k]] - Ord[c[k]]
    <3>1. PICK k \in Nat : Differ(b, c, k) /\ Compare(b, c) = Ord[b[k]] - Ord[c[k]]
      BY <2>1
    <3>2. Ord[b[k]] \in Int /\ Ord[c[k]] \in Int
      BY <3>1, OrdOf DEF Differ
    <3> QED
      BY <3>1, <3>2
  <2> QED
    BY <1>1, <2>1, CompareCases
<1> QED
  BY <1>2, <1>3, <1>4, <1>5, <1>6, <1>7

-----------------------------------------------------------------------------
(* Prefixes *)

LEMMA PrefixOf ==
    ASSUME NEW z, NEW a, IsSeq(z), IsSeq(a)
    PROVE  IsPrefix(z, a) <=> Len(z) <= Len(a) /\ \A i \in 1..Len(z) : a[i] = z[i]
<1> DEFINE S == Range(z) \cup Range(a)
<1>1. z \in Seq(S) /\ a \in Seq(S)
  BY SeqMonotonic DEF IsSeq
<1>2. Len(z) \in Nat /\ Len(a) \in Nat
  BY <1>1, LenProperties
<1> HIDE DEF S
<1>3. SubSeq(z, 1, Len(z)) = z
  BY <1>1, SubSeqFull
<1>4. ASSUME Len(z) <= Len(a)
      PROVE  SubSeq(z, 1, Len(z)) = SubSeq(a, 1, Len(z)) <=> \A i \in 1..Len(z) : a[i] = z[i]
  <2>1. \A i \in 1..Len(z) : a[i] \in S
    BY <1>1, <1>2, <1>4, ElementOfSeq
  <2>2. /\ SubSeq(a, 1, Len(z)) \in Seq(S) /\ Len(SubSeq(a, 1, Len(z))) = Len(z)
        /\ \A i \in 1..Len(z) : SubSeq(a, 1, Len(z))[i] = a[i]
    BY <1>2, <2>1, SubSeqProperties
  <2> QED
    BY <1>1, <1>3, <2>2, SeqEqual
<1> QED
  BY <1>4 DEF IsPrefix

\* The names with a given beginning stand together.
LEMMA BetweenPrefixes ==
    ASSUME NEW z, IsSeq(z), NEW a \in Names, NEW b \in Names, NEW c \in Names,
           IsPrefix(z, a), IsPrefix(z, c), Compare(a, b) <= 0, Compare(b, c) <= 0
    PROVE  IsPrefix(z, b)
<1>1. IsSeq(a) /\ IsSeq(b) /\ IsSeq(c)
  BY SeqOver DEF Names
<1>2. Len(a) \in Nat /\ Len(b) \in Nat /\ Len(c) \in Nat /\ Len(z) \in Nat
  BY <1>1, LenProperties DEF IsSeq
<1>3. /\ Len(z) <= Len(a) /\ \A i \in 1..Len(z) : a[i] = z[i]
      /\ Len(z) <= Len(c) /\ \A i \in 1..Len(z) : c[i] = z[i]
  BY <1>1, PrefixOf
<1> SUFFICES ASSUME ~(Len(z) <= Len(b) /\ \A i \in 1..Len(z) : b[i] = z[i]) PROVE FALSE
  BY <1>1, PrefixOf
<1> DEFINE d == {i \in 1..Len(z) : i <= Len(b) /\ b[i] # z[i]}
<1>4. CASE d = {}
  <2>1. Len(b) < Len(z) /\ \A i \in 1..Len(b) : b[i] = z[i]
    BY <1>2, <1>4
  <2>2. Begins(a, b) /\ \A k : ~Differ(a, b, k)
    BY <1>2, <1>3, <2>1 DEF Begins, Differ
  <2>3. Compare(a, b) = Len(a) - Len(b)
    BY <2>2, CompareCases
  <2> QED
    BY <1>2, <1>3, <2>1, <2>3
<1>5. CASE d # {}
  <2>1. d \subseteq Nat
    OBVIOUS
  <2>2. PICK k \in d : \A j \in d : k <= j
    BY <1>5, <2>1, LeastNat
  <2>3. k \in 1..Len(z) /\ k <= Len(b) /\ b[k] # z[k]
    BY <2>2
  <2>4. \A i \in 1..(k - 1) : b[i] = z[i]
    BY <1>2, <2>2, <2>3
  <2> HIDE DEF d
  <2>5. Differ(a, b, k) /\ Differ(b, c, k)
    BY <1>2, <1>3, <2>3, <2>4 DEF Differ
  <2>6. /\ ~Begins(a, b) /\ \A j \in Nat : Differ(a, b, j) => j = k
        /\ ~Begins(b, c) /\ \A j \in Nat : Differ(b, c, j) => j = k
    BY <1>2, <2>5 DEF Begins, Differ
  <2>7. Compare(a, b) = Ord[a[k]] - Ord[b[k]] /\ Compare(b, c) = Ord[b[k]] - Ord[c[k]]
    BY <2>6, CompareCases
  <2>8. a[k] = c[k]
    BY <1>3, <2>3
  <2>9. /\ Ord[a[k]] \in Int /\ Ord[b[k]] \in Int /\ a[k] \in DOMAIN Ord /\ b[k] \in DOMAIN Ord
        /\ a[k] # b[k]
    BY <2>5, OrdOf DEF Differ
  <2>10. Ord[a[k]] = Ord[b[k]]
    BY <2>7, <2>8, <2>9
  <2> QED
    BY <2>9, <2>10, ZipAssumption
<1> QED
  BY <1>4, <1>5

-----------------------------------------------------------------------------
(* The binary search *)

\* Entries whose names are strings, and arrays of them in order.
IsEntries(E) == \A e \in E : e.name \in Names
InOrder(s) == \A i, j \in 1..Len(s) : i <= j => Compare(s[i].name, s[j].name) <= 0

\* Everything up to position p is smaller than the name or the same, and
\* everything from q on larger or the same.
Separates(s, name, p, q) ==
    /\ \A i \in 1..p : Compare(s[i].name, name) <= 0
    /\ \A i \in q..Len(s) : Compare(name, s[i].name) <= 0
Belongs(s, name, p) == p \in 0..Len(s) /\ (InOrder(s) => Separates(s, name, p, p + 1))

LEMMA Middle ==
    ASSUME NEW l \in Int, NEW h \in Int, l <= h
    PROVE  LET m == l + ((h - l) \div 2) IN m \in Int /\ l <= m /\ m <= h
OBVIOUS

LEMMA PositionBelongs ==
    ASSUME NEW E, IsEntries(E), NEW s \in Seq(E), NEW name \in Names
    PROVE  Belongs(s, name, Position(s, name))
<1> DEFINE n == Len(s)
           D == (0..n) \X (-1..(n - 1))
           mid(r) == r[1] + ((r[2] - r[1]) \div 2)
           diff(r) == Compare(s[mid(r) + 1].name, name)
           Def(f) == [r \in D |-> IF r[1] > r[2] THEN r[2] + 1
                                  ELSE IF diff(r) < 0 THEN f[<<mid(r) + 1, r[2]>>]
                                  ELSE IF diff(r) > 0 THEN f[<<r[1], mid(r) - 1>>]
                                  ELSE mid(r) + 1]
           Search == CHOOSE f : f = Def(f)
<1>0. n \in Nat /\ \A i \in 1..n : s[i] \in E /\ s[i].name \in Names
  BY LenProperties, ElementOfSeq DEF IsEntries
<1>1. Position(s, name) = Search[<<0, n - 1>>]
  BY DEF Position
<1>2. ASSUME NEW r \in D, ~(r[1] > r[2])
      PROVE  /\ mid(r) \in Int /\ r[1] <= mid(r) /\ mid(r) <= r[2]
             /\ mid(r) + 1 \in 1..n /\ diff(r) \in Int
             /\ <<mid(r) + 1, r[2]>> \in D /\ <<r[1], mid(r) - 1>> \in D
  <2>1. r[1] \in Int /\ r[2] \in Int /\ r[1] <= r[2] /\ r[1] >= 0 /\ r[2] <= n - 1 /\ r[1] <= n
    BY <1>0, <1>2
  <2>2. mid(r) \in Int /\ r[1] <= mid(r) /\ mid(r) <= r[2]
    BY <2>1, Middle
  <2>3. mid(r) + 1 \in 1..n
    BY <1>0, <2>1, <2>2
  <2>4. diff(r) \in Int
    BY <1>0, <2>3, CompareInt
  <2> HIDE DEF mid, diff
  <2> QED
    BY <1>0, <2>1, <2>2, <2>3, <2>4
<1>3. \E f : f = Def(f)
  <2> DEFINE Stop == {r \in D : r[1] > r[2] \/ diff(r) = 0}
             val == [r \in D |-> IF r[1] > r[2] THEN r[2] + 1 ELSE mid(r) + 1]
             nxt == [r \in D |-> IF r[1] > r[2] \/ diff(r) = 0 THEN r
                                 ELSE IF diff(r) < 0 THEN <<mid(r) + 1, r[2]>>
                                 ELSE <<r[1], mid(r) - 1>>]
             mu == [r \in D |-> IF r[1] > r[2] THEN 0 ELSE r[2] - r[1] + 1]
  <2> HIDE DEF mid, diff
  <2>0. \A r \in D : r[1] \in 0..n /\ r[2] \in -1..(n - 1) /\ (r \in Stop <=> (r[1] > r[2] \/ diff(r) = 0))
    BY <1>0
  <2>1. mu \in [D -> 0..n]
    BY <1>0
  <2>3. val \in [D -> Int]
    <3>1. ASSUME NEW r \in D PROVE (IF r[1] > r[2] THEN r[2] + 1 ELSE mid(r) + 1) \in Int
      <4>1. CASE r[1] > r[2]
        <5>1. r[2] \in -1..(n - 1)
          BY <2>0
        <5> QED
          BY <1>0, <4>1, <5>1
      <4>2. CASE ~(r[1] > r[2])
        <5>1. mid(r) \in Int
          BY <1>2, <4>2
        <5> QED
          BY <4>2, <5>1
      <4> QED
        BY <4>1, <4>2
    <3> QED
      BY <3>1
  <2>4. nxt \in [D -> D]
    BY <1>2
  <2>5. ASSUME NEW r \in D, r \notin Stop PROVE mu[nxt[r]] < mu[r]
    <3>1. ~(r[1] > r[2]) /\ diff(r) # 0 /\ r[1] \in Int /\ r[2] \in Int
      BY <1>0, <2>0, <2>5
    <3>2. nxt[r] = IF diff(r) < 0 THEN <<mid(r) + 1, r[2]>> ELSE <<r[1], mid(r) - 1>>
      BY <3>1
    <3>3. mu[r] = r[2] - r[1] + 1
      BY <3>1
    <3>4. nxt[r] \in D
      BY <2>4
    <3>5. mu[nxt[r]] = IF nxt[r][1] > nxt[r][2] THEN 0 ELSE nxt[r][2] - nxt[r][1] + 1
      BY <3>4
    <3>6. mid(r) \in Int /\ r[1] <= mid(r) /\ mid(r) <= r[2]
      BY <1>2, <3>1
    <3>7. nxt[r][1] \in Int /\ nxt[r][2] \in Int /\ nxt[r][2] - nxt[r][1] < r[2] - r[1]
      BY <3>1, <3>2, <3>6
    <3> HIDE DEF nxt, mu
    <3> QED
      BY <3>1, <3>3, <3>5, <3>7
  <2> DEFINE V == Int
  <2>30. val \in [D -> V]
    BY <2>3
  <2> HIDE DEF val, nxt, mu, D, Stop, V
  <2>50. Falls(mu, D, Stop, nxt)
    BY <2>5 DEF Falls
  <2>6. PICK f \in [D -> V] : Follows(f, D, Stop, val, nxt)
    <3> HIDE DEF n
    <3> QED
      BY <1>0, <2>1, <2>30, <2>4, <2>50, TailRecursion
  <2>7. ASSUME NEW r \in D PROVE f[r] = Def(f)[r]
    <3>1. CASE r[1] > r[2]
      BY <2>0, <2>6, <3>1 DEF val, Follows
    <3>2. CASE ~(r[1] > r[2]) /\ diff(r) = 0
      BY <2>0, <2>6, <3>2 DEF val, Follows
    <3>3. CASE ~(r[1] > r[2]) /\ diff(r) # 0
      <4>1. f[r] = f[nxt[r]]
        BY <2>0, <2>6, <3>3 DEF Follows
      <4>2. nxt[r] = IF diff(r) < 0 THEN <<mid(r) + 1, r[2]>> ELSE <<r[1], mid(r) - 1>>
        BY <3>3 DEF nxt
      <4>3. diff(r) \in Int
        BY <1>2, <3>3
      <4> QED
        BY <3>3, <4>1, <4>2, <4>3
    <3> QED
      BY <3>1, <3>2, <3>3
  <2>8. f = Def(f)
    BY <2>7
  <2> HIDE DEF Def
  <2> QED
    BY <2>8
<1>4. Search = Def(Search)
  <2> HIDE DEF Def
  <2> QED
    BY <1>3
<1> DEFINE Inv(r) == r[1] <= r[2] + 1 /\ (InOrder(s) => Separates(s, name, r[1], r[2] + 2))
           Ok(r) == Inv(r) => Belongs(s, name, Search[r])
           T == {k \in Nat : \A r \in D : r[2] - r[1] + 1 < k => Ok(r)}
<1>5. ASSUME NEW r \in D, ~(r[1] > r[2]), InOrder(s)
      PROVE  /\ diff(r) <= 0 => \A i \in 1..(mid(r) + 1) : Compare(s[i].name, name) <= 0
             /\ diff(r) >= 0 => \A i \in (mid(r) + 1)..n : Compare(name, s[i].name) <= 0
  <2> DEFINE m == mid(r) + 1
  <2>1. m \in 1..n /\ s[m].name \in Names /\ diff(r) = Compare(s[m].name, name)
    BY <1>0, <1>2, <1>5
  <2> HIDE DEF m, diff
  <2>2. ASSUME NEW i \in 1..m, diff(r) <= 0 PROVE Compare(s[i].name, name) <= 0
    <3>1. i \in 1..n /\ i <= m
      BY <1>0, <2>1
    <3>2. Compare(s[i].name, s[m].name) <= 0 /\ s[i].name \in Names
      BY <1>0, <1>5, <2>1, <3>1 DEF InOrder
    <3> QED
      BY <2>1, <2>2, <3>2, CompareThrough
  <2>3. ASSUME NEW i \in m..n, diff(r) >= 0 PROVE Compare(name, s[i].name) <= 0
    <3>1. i \in 1..n /\ m <= i
      BY <1>0, <2>1
    <3>2. Compare(s[m].name, s[i].name) <= 0 /\ s[i].name \in Names
      BY <1>0, <1>5, <2>1, <3>1 DEF InOrder
    <3>3. Compare(name, s[m].name) <= 0
      BY <2>1, <2>3, CompareBack
    <3> QED
      BY <2>1, <3>2, <3>3, CompareThrough
  <2> QED
    BY <2>2, <2>3 DEF m
<1>6. 0 \in T
  BY <1>0
<1>7. ASSUME NEW k \in Nat, k \in T PROVE k + 1 \in T
  <2> SUFFICES ASSUME NEW r \in D, r[2] - r[1] + 1 < k + 1, Inv(r)
               PROVE  Belongs(s, name, Search[r])
    <3>1. k + 1 \in Nat
      OBVIOUS
    <3> HIDE DEF Inv, Search, D
    <3> QED
      BY <3>1
  <2>0. r[1] \in 0..n /\ r[2] \in -1..(n - 1)
    OBVIOUS
  <2>1. Search[r] = IF r[1] > r[2] THEN r[2] + 1
                    ELSE IF diff(r) < 0 THEN Search[<<mid(r) + 1, r[2]>>]
                    ELSE IF diff(r) > 0 THEN Search[<<r[1], mid(r) - 1>>]
                    ELSE mid(r) + 1
    <3> HIDE DEF Search, mid, diff, D
    <3> QED
      BY <1>4
  <2>2. \A q \in D : q[2] - q[1] + 1 < k => Ok(q)
    BY <1>7
  <2> HIDE DEF Search, mid, diff, T
  <2>3. CASE r[1] > r[2]
    <3>1. Search[r] = r[1] /\ r[1] = r[2] + 1
      BY <1>0, <2>0, <2>1, <2>3
    <3>2. r[1] + 1 = r[2] + 2
      BY <2>0, <3>1
    <3> QED
      BY <2>0, <3>1, <3>2 DEF Belongs
  <2>4. CASE ~(r[1] > r[2]) /\ diff(r) < 0
    <3> DEFINE q == <<mid(r) + 1, r[2]>>
    <3>1. q \in D /\ q[1] = mid(r) + 1 /\ q[2] = r[2] /\ Search[r] = Search[q]
      BY <1>2, <2>1, <2>4
    <3>2. mid(r) \in Int /\ r[1] <= mid(r) /\ mid(r) <= r[2] /\ diff(r) \in Int
      BY <1>2, <2>4
    <3>3. q[2] - q[1] + 1 < k
      <4>1. r[1] \in Int /\ r[2] \in Int /\ k \in Int /\ r[2] - r[1] + 1 < k + 1
        BY <2>0
      <4> HIDE DEF q, D, Inv
      <4> QED
        BY <3>1, <3>2, <4>1
    <3>4. Inv(q)
      <4>1. q[1] <= q[2] + 1
        BY <2>0, <3>1, <3>2
      <4>2. ASSUME InOrder(s) PROVE Separates(s, name, q[1], q[2] + 2)
        <5>1. \A i \in 1..(mid(r) + 1) : Compare(s[i].name, name) <= 0
          <6> HIDE DEF q, D, Inv
          <6> QED
            BY <1>5, <2>4, <3>2, <4>2
        <5>2. Separates(s, name, r[1], r[2] + 2)
          BY <4>2
        <5> HIDE DEF q, D, Inv
        <5> QED
          BY <3>1, <4>2, <5>1, <5>2 DEF Separates
      <4> QED
        BY <4>1, <4>2
    <3> HIDE DEF q, Inv
    <3> QED
      BY <2>2, <3>1, <3>3, <3>4
  <2>5. CASE ~(r[1] > r[2]) /\ diff(r) > 0
    <3> DEFINE q == <<r[1], mid(r) - 1>>
    <3>2. mid(r) \in Int /\ r[1] <= mid(r) /\ mid(r) <= r[2] /\ diff(r) \in Int
      BY <1>2, <2>5
    <3>1. q \in D /\ q[1] = r[1] /\ q[2] = mid(r) - 1 /\ Search[r] = Search[q]
      BY <1>2, <2>1, <2>5, <3>2
    <3>3. q[2] - q[1] + 1 < k
      <4>1. r[1] \in Int /\ r[2] \in Int /\ k \in Int /\ r[2] - r[1] + 1 < k + 1
        BY <2>0
      <4> HIDE DEF q, D, Inv
      <4> QED
        BY <3>1, <3>2, <4>1
    <3>4. Inv(q)
      <4>1. q[2] + 2 = mid(r) + 1 /\ q[1] <= q[2] + 1
        BY <2>0, <3>1, <3>2
      <4>2. ASSUME InOrder(s) PROVE Separates(s, name, q[1], q[2] + 2)
        <5>1. \A i \in (mid(r) + 1)..n : Compare(name, s[i].name) <= 0
          <6> HIDE DEF q, D, Inv
          <6> QED
            BY <1>5, <2>5, <3>2, <4>2
        <5>2. Separates(s, name, r[1], r[2] + 2)
          BY <4>2
        <5> HIDE DEF q, D, Inv
        <5> QED
          BY <3>1, <4>1, <4>2, <5>1, <5>2 DEF Separates
      <4> QED
        BY <4>1, <4>2
    <3> HIDE DEF q, Inv
    <3> QED
      BY <2>2, <3>1, <3>3, <3>4
  <2>6. CASE ~(r[1] > r[2]) /\ diff(r) = 0
    <3>1. mid(r) + 1 \in 1..n /\ Search[r] = mid(r) + 1 /\ mid(r) \in Int
      <4>1. mid(r) + 1 \in 1..n /\ mid(r) \in Int
        BY <1>2, <2>6
      <4> QED
        BY <2>1, <2>6, <4>1
    <3>2. ASSUME InOrder(s)
          PROVE  /\ \A i \in 1..(mid(r) + 1) : Compare(s[i].name, name) <= 0
                 /\ \A i \in (mid(r) + 1)..n : Compare(name, s[i].name) <= 0
      <4>1. diff(r) <= 0 /\ diff(r) >= 0 /\ ~(r[1] > r[2]) /\ InOrder(s)
        BY <2>6, <3>2
      <4> HIDE DEF D, Inv
      <4> QED
        BY <1>5, <4>1
    <3>3. InOrder(s) => Separates(s, name, mid(r) + 1, mid(r) + 2)
      BY <1>0, <3>1, <3>2 DEF Separates
    <3> QED
      BY <1>0, <3>1, <3>3 DEF Belongs
  <2>7. r[1] > r[2] \/ diff(r) \in Int
    BY <1>2
  <2> QED
    BY <2>3, <2>4, <2>5, <2>6, <2>7
<1> HIDE DEF T
<1>8. \A k \in Nat : k \in T
  BY <1>6, <1>7, NatSets
<1> DEFINE top == <<0, n - 1>>
<1>9. top \in D /\ top[1] = 0 /\ top[2] = n - 1
  BY <1>0
<1>10. Ok(top)
  <2>1. n + 1 \in T /\ top[2] - top[1] + 1 < n + 1
    BY <1>0, <1>8, <1>9
  <2> HIDE DEF Ok, top
  <2> QED
    BY <1>9, <2>1 DEF T
<1>11. Inv(top)
  BY <1>0, <1>9 DEF Separates
<1> HIDE DEF Inv, Search
<1> QED
  BY <1>1, <1>10, <1>11

LEMMA InsertOrdered ==
    ASSUME NEW E, IsEntries(E), NEW s \in Seq(E), NEW e \in E
    PROVE  /\ Insert(s, e) \in Seq(E) /\ Len(Insert(s, e)) = Len(s) + 1
           /\ Range(Insert(s, e)) = Range(s) \cup {e}
           /\ InOrder(s) => InOrder(Insert(s, e))
<1> DEFINE p == Position(s, e.name)
           n == Len(s)
           t == Insert(s, e)
<1>0. n \in Nat /\ e.name \in Names /\ \A i \in 1..n : s[i] \in E /\ s[i].name \in Names
  BY LenProperties, ElementOfSeq DEF IsEntries
<1>1. Belongs(s, e.name, p)
  BY <1>0, PositionBelongs
<1>2. p \in 0..n
  BY <1>1 DEF Belongs
<1>3. t = (SubSeq(s, 1, (p + 1) - 1) \o <<e>>) \o SubSeq(s, p + 1, n)
  BY DEF Insert, InsertAt
<1> HIDE DEF p, t
<1> DEFINE a == SubSeq(s, 1, p)
           b == SubSeq(s, p + 1, n)
<1>4. t = (a \o <<e>>) \o b
  <2>1. (p + 1) - 1 = p
    BY <1>2
  <2> QED
    BY <1>3, <2>1
<1>5. a \in Seq(E) /\ Len(a) = p /\ \A i \in 1..p : a[i] = s[i]
  <2>1. \A i \in 1..p : s[i] \in E
    BY <1>0, <1>2
  <2>2. /\ SubSeq(s, 1, p) \in Seq(E) /\ Len(SubSeq(s, 1, p)) = IF 1 <= p THEN p - 1 + 1 ELSE 0
        /\ \A i \in 1..(p - 1 + 1) : SubSeq(s, 1, p)[i] = s[1 + i - 1]
    BY <1>2, <2>1, SubSeqProperties
  <2> QED
    BY <1>2, <2>2
<1>6. b \in Seq(E) /\ Len(b) = n - p /\ \A i \in 1..(n - p) : b[i] = s[p + i]
  <2>1. \A i \in (p + 1)..n : s[i] \in E
    BY <1>0, <1>2
  <2>2. /\ SubSeq(s, p + 1, n) \in Seq(E)
        /\ Len(SubSeq(s, p + 1, n)) = IF p + 1 <= n THEN n - (p + 1) + 1 ELSE 0
        /\ \A i \in 1..(n - (p + 1) + 1) : SubSeq(s, p + 1, n)[i] = s[(p + 1) + i - 1]
    BY <1>0, <1>2, <2>1, SubSeqProperties
  <2> QED
    BY <1>0, <1>2, <2>2
<1> HIDE DEF a, b
<1>7. <<e>> \in Seq(E) /\ Len(<<e>>) = 1 /\ <<e>>[1] = e
  OBVIOUS
<1> DEFINE c == a \o <<e>>
<1>8. /\ c \in Seq(E) /\ Len(c) = p + 1
      /\ \A i \in 1..(p + 1) : c[i] = IF i <= p THEN s[i] ELSE e
  <2>1. /\ a \o <<e>> \in Seq(E) /\ Len(a \o <<e>>) = Len(a) + Len(<<e>>)
        /\ \A i \in 1..(Len(a) + Len(<<e>>)) :
               (a \o <<e>>)[i] = IF i <= Len(a) THEN a[i] ELSE <<e>>[i - Len(a)]
    BY <1>5, <1>7, ConcatProperties
  <2> QED
    BY <1>2, <1>5, <1>7, <2>1
<1> HIDE DEF c
<1>9. /\ t \in Seq(E) /\ Len(t) = n + 1
      /\ \A i \in 1..(n + 1) : t[i] = IF i <= p THEN s[i] ELSE IF i = p + 1 THEN e ELSE s[i - 1]
  <2>1. /\ c \o b \in Seq(E) /\ Len(c \o b) = Len(c) + Len(b)
        /\ \A i \in 1..(Len(c) + Len(b)) :
               (c \o b)[i] = IF i <= Len(c) THEN c[i] ELSE b[i - Len(c)]
    BY <1>6, <1>8, ConcatProperties
  <2>2. t = c \o b
    BY <1>4 DEF c
  <2>3. Len(t) = n + 1
    BY <1>0, <1>2, <1>6, <1>8, <2>1, <2>2
  <2>4. ASSUME NEW i \in 1..(n + 1)
        PROVE  t[i] = IF i <= p THEN s[i] ELSE IF i = p + 1 THEN e ELSE s[i - 1]
    <3>1. t[i] = IF i <= p + 1 THEN c[i] ELSE b[i - (p + 1)]
      BY <1>0, <1>2, <1>6, <1>8, <2>1, <2>2
    <3>2. CASE i <= p + 1
      BY <1>2, <1>8, <3>1, <3>2
    <3>3. CASE ~(i <= p + 1)
      <4>1. i - (p + 1) \in 1..(n - p) /\ p + (i - (p + 1)) = i - 1
        BY <1>0, <1>2, <3>3
      <4> QED
        BY <1>2, <1>6, <3>1, <3>3, <4>1
    <3> QED
      BY <3>2, <3>3
  <2> QED
    BY <2>1, <2>2, <2>3, <2>4
<1>10. Range(t) = Range(s) \cup {e}
  <2>1. DOMAIN t = 1..(n + 1) /\ DOMAIN s = 1..n
    BY <1>9, LenProperties
  <2>2. ASSUME NEW x \in Range(t) PROVE x \in Range(s) \cup {e}
    <3>1. PICK i \in 1..(n + 1) : x = t[i]
      BY <2>1 DEF Range
    <3>2. x = e \/ (i \in 1..n /\ x = s[i]) \/ (i - 1 \in 1..n /\ x = s[i - 1])
      <4>1. CASE i <= p
        BY <1>0, <1>2, <1>9, <3>1, <4>1
      <4>2. CASE i > p + 1
        <5>1. i - 1 \in 1..n /\ ~(i <= p) /\ i # p + 1
          BY <1>0, <1>2, <4>2
        <5> QED
          BY <1>9, <3>1, <5>1
      <4>3. CASE i = p + 1
        BY <1>0, <1>2, <1>9, <3>1, <4>3
      <4> QED
        BY <1>2, <4>1, <4>2, <4>3
    <3> QED
      BY <2>1, <3>2 DEF Range
  <2>3. e \in Range(t)
    <3>1. p + 1 \in 1..(n + 1) /\ ~(p + 1 <= p)
      BY <1>0, <1>2
    <3>2. t[p + 1] = e
      BY <1>9, <3>1
    <3> QED
      BY <2>1, <3>1, <3>2 DEF Range
  <2>4. ASSUME NEW x \in Range(s) PROVE x \in Range(t)
    <3>1. PICK i \in 1..n : x = s[i]
      BY <2>1 DEF Range
    <3>2. CASE i <= p
      <4>1. i \in 1..(n + 1) /\ t[i] = s[i]
        BY <1>0, <1>9, <3>2
      <4> QED
        BY <2>1, <3>1, <4>1 DEF Range
    <3>3. CASE ~(i <= p)
      <4>1. i + 1 \in 1..(n + 1) /\ ~(i + 1 <= p) /\ i + 1 # p + 1 /\ (i + 1) - 1 = i
        BY <1>0, <1>2, <3>3
      <4>2. t[i + 1] = s[i]
        BY <1>9, <4>1
      <4> QED
        BY <2>1, <3>1, <4>1, <4>2 DEF Range
    <3> QED
      BY <3>2, <3>3
  <2> QED
    BY <2>2, <2>3, <2>4
<1>11. ASSUME InOrder(s) PROVE InOrder(t)
  <2>1. Separates(s, e.name, p, p + 1)
    BY <1>1, <1>11 DEF Belongs
  <2>2. \A i, j \in 1..n : i <= j => Compare(s[i].name, s[j].name) <= 0
    BY <1>11 DEF InOrder
  <2>3. Compare(e.name, e.name) <= 0
    <3>1. \A k : ~Differ(e.name, e.name, k)
      BY DEF Differ
    <3>2. Compare(e.name, e.name) = Len(e.name) - Len(e.name)
      BY <1>0, <3>1, CompareCases
    <3>3. Len(e.name) \in Nat
      BY <1>0, LenProperties DEF Names
    <3> QED
      BY <3>2, <3>3
  <2>4. ASSUME NEW i \in 1..(n + 1), NEW j \in 1..(n + 1), i <= j
        PROVE  Compare(t[i].name, t[j].name) <= 0
    <3>1. CASE i <= p /\ j <= p
      <4>1. i \in 1..n /\ j \in 1..n /\ t[i] = s[i] /\ t[j] = s[j]
        BY <1>0, <1>2, <1>9, <3>1
      <4> QED
        BY <2>2, <2>4, <4>1
    <3>2. CASE i <= p /\ j = p + 1
      <4>1. i \in 1..p /\ t[i] = s[i] /\ t[j] = e
        BY <1>0, <1>2, <1>9, <3>2
      <4> QED
        BY <2>1, <4>1 DEF Separates
    <3>3. CASE i <= p /\ j > p + 1
      <4>1. i \in 1..n /\ j - 1 \in 1..n /\ i <= j - 1 /\ t[i] = s[i] /\ t[j] = s[j - 1]
        BY <1>0, <1>2, <1>9, <3>3
      <4> QED
        BY <2>2, <4>1
    <3>4. CASE i = p + 1 /\ j = p + 1
      <4>1. t[i] = e /\ t[j] = e
        BY <1>0, <1>2, <1>9, <3>4
      <4> QED
        BY <2>3, <4>1
    <3>5. CASE i = p + 1 /\ j > p + 1
      <4>1. j - 1 \in (p + 1)..n /\ t[i] = e /\ t[j] = s[j - 1]
        BY <1>0, <1>2, <1>9, <3>5
      <4> QED
        BY <2>1, <4>1 DEF Separates
    <3>6. CASE i > p + 1 /\ j > p + 1
      <4>1. i - 1 \in 1..n /\ j - 1 \in 1..n /\ i - 1 <= j - 1 /\ t[i] = s[i - 1] /\ t[j] = s[j - 1]
        BY <1>0, <1>2, <1>9, <2>4, <3>6
      <4> QED
        BY <2>2, <4>1
    <3> QED
      BY <1>0, <1>2, <2>4, <3>1, <3>2, <3>3, <3>4, <3>5, <3>6
  <2> QED
    BY <1>9, <2>4 DEF InOrder
<1> QED
  BY <1>9, <1>10, <1>11 DEF t

-----------------------------------------------------------------------------
(* The array of an archive *)

\* parseZipArchive() builds a sorted array that holds every entry of the
\* central directory and nothing else, whatever their order was.
THEOREM ArraySorted ==
    ASSUME NEW dir, IsSeq(dir), IsEntries(Range(dir))
    PROVE  /\ Sorted(dir) \in Seq(Range(dir)) /\ Len(Sorted(dir)) = Len(dir)
           /\ Range(Sorted(dir)) = Range(dir)
           /\ InOrder(Sorted(dir))
<1> DEFINE E == Range(dir)
           N == Len(dir)
           D == (0..N) \X Seq(E)
           step(r) == <<r[1] + 1, Insert(r[2], dir[r[1] + 1])>>
           Def(f) == [r \in D |-> IF r[1] = N THEN r[2] ELSE f[step(r)]]
           Read == CHOOSE f : f = Def(f)
<1>0. N \in Nat /\ DOMAIN dir = 1..N /\ \A i \in 1..N : dir[i] \in E
  BY LenProperties, ElementOfSeq DEF IsSeq
<1>1. Sorted(dir) = Read[<<0, <<>>>>]
  BY DEF Sorted
<1>2. IsEntries(E)
  OBVIOUS
<1> HIDE DEF E
<1>3. ASSUME NEW r \in D, r[1] # N
      PROVE  /\ step(r) \in D /\ step(r)[1] = r[1] + 1 /\ step(r)[2] = Insert(r[2], dir[r[1] + 1])
             /\ r[1] \in Nat /\ r[1] + 1 \in 1..N /\ r[2] \in Seq(E) /\ dir[r[1] + 1] \in E
  <2>1. r[1] \in 0..N /\ r[2] \in Seq(E)
    OBVIOUS
  <2>2. r[1] \in Nat /\ r[1] + 1 \in 1..N /\ r[1] + 1 \in 0..N
    BY <1>0, <1>3, <2>1
  <2>3. dir[r[1] + 1] \in E
    BY <1>0, <2>2
  <2>4. Insert(r[2], dir[r[1] + 1]) \in Seq(E)
    BY <1>2, <2>1, <2>3, InsertOrdered
  <2> QED
    BY <2>1, <2>2, <2>3, <2>4
<1>4. \E f : f = Def(f)
  <2> DEFINE Stop == {r \in D : r[1] = N}
             val == [r \in D |-> r[2]]
             nxt == [r \in D |-> IF r[1] = N THEN r ELSE step(r)]
             mu == [r \in D |-> N - r[1]]
             V == Seq(E)
  <2> HIDE DEF step
  <2>1. mu \in [D -> 0..N]
    BY <1>0
  <2>2. val \in [D -> V]
    OBVIOUS
  <2>3. nxt \in [D -> D]
    BY <1>3
  <2>4. Falls(mu, D, Stop, nxt)
    <3> SUFFICES ASSUME NEW r \in D, r[1] # N PROVE mu[nxt[r]] < mu[r]
      BY DEF Falls
    <3>1. nxt[r] = step(r) /\ step(r) \in D /\ step(r)[1] = r[1] + 1 /\ r[1] \in Nat
      BY <1>3
    <3>2. mu[r] = N - r[1] /\ mu[step(r)] = N - (r[1] + 1)
      BY <3>1
    <3> QED
      BY <1>0, <3>1, <3>2
  <2>5. \A r \in D : r \in Stop <=> r[1] = N
    OBVIOUS
  <2> HIDE DEF Stop, val, nxt, mu, D, V, N
  <2>6. PICK f \in [D -> V] : Follows(f, D, Stop, val, nxt)
    BY <1>0, <2>1, <2>2, <2>3, <2>4, TailRecursion
  <2>7. ASSUME NEW r \in D PROVE f[r] = IF r[1] = N THEN r[2] ELSE f[step(r)]
    BY <2>5, <2>6 DEF Follows, val, nxt
  <2>8. f = Def(f)
    BY <2>7
  <2> HIDE DEF Def
  <2> QED
    BY <2>8
<1>5. Read = Def(Read)
  <2> HIDE DEF Def
  <2> QED
    BY <1>4
<1> HIDE DEF step
<1>6. ASSUME NEW r \in D PROVE Read[r] = IF r[1] = N THEN r[2] ELSE Read[step(r)]
  <2> HIDE DEF Read
  <2> QED
    BY <1>5
<1> HIDE DEF Read
<1> DEFINE First(k) == {dir[i] : i \in 1..k}
           Good(s, k) == s \in Seq(E) /\ InOrder(s) /\ Len(s) = k /\ Range(s) = First(k)
           T == {k \in Nat : \A r \in D : N - r[1] = k /\ Good(r[2], r[1]) => Good(Read[r], N)}
<1>7. 0 \in T
  <2> SUFFICES ASSUME NEW r \in D, N - r[1] = 0, Good(r[2], r[1]) PROVE Good(Read[r], N)
    <3> HIDE DEF Good, D
    <3> QED
      OBVIOUS
  <2>1. r[1] = N
    BY <1>0
  <2> QED
    BY <1>6, <2>1
<1>8. ASSUME NEW k \in Nat, k \in T PROVE k + 1 \in T
  <2> SUFFICES ASSUME NEW r \in D, N - r[1] = k + 1, Good(r[2], r[1]) PROVE Good(Read[r], N)
    <3>1. k + 1 \in Nat
      OBVIOUS
    <3> HIDE DEF Good, D
    <3> QED
      BY <3>1
  <2>1. r[1] # N /\ r[1] \in Nat
    BY <1>0
  <2> DEFINE q == step(r)
  <2>2. /\ q \in D /\ q[1] = r[1] + 1 /\ q[2] = Insert(r[2], dir[r[1] + 1])
        /\ r[1] + 1 \in 1..N /\ r[2] \in Seq(E) /\ dir[r[1] + 1] \in E
    BY <1>3, <2>1
  <2>3. Read[r] = Read[q]
    BY <1>6, <2>1
  <2> HIDE DEF q, D
  <2>4. N - q[1] = k
    <3> HIDE DEF Good, First
    <3> QED
      BY <1>0, <2>1, <2>2
  <2>5. /\ q[2] \in Seq(E) /\ Len(q[2]) = Len(r[2]) + 1 /\ InOrder(q[2])
        /\ Range(q[2]) = Range(r[2]) \cup {dir[r[1] + 1]}
    <3>1. InOrder(r[2])
      OBVIOUS
    <3> DEFINE s == r[2]
               e == dir[r[1] + 1]
    <3>2. s \in Seq(E) /\ e \in E /\ q[2] = Insert(s, e) /\ InOrder(s)
      BY <2>2, <3>1
    <3> HIDE DEF s, e
    <3>3. /\ Insert(s, e) \in Seq(E) /\ Len(Insert(s, e)) = Len(s) + 1 /\ InOrder(Insert(s, e))
          /\ Range(Insert(s, e)) = Range(s) \cup {e}
      BY <1>2, <3>2, InsertOrdered
    <3> QED
      BY <3>2, <3>3 DEF s, e
  <2>6. First(r[1] + 1) = First(r[1]) \cup {dir[r[1] + 1]}
    BY <2>1
  <2>7. Good(q[2], q[1])
    BY <2>2, <2>5, <2>6
  <2> HIDE DEF Good
  <2> QED
    BY <1>8, <2>2, <2>3, <2>4, <2>7
<1> HIDE DEF T
<1>9. N \in T
  BY <1>0, <1>7, <1>8, NatSets
<1> DEFINE b == <<0, <<>>>>
<1>10. b \in D /\ b[1] = 0 /\ b[2] = <<>>
  <2>1. <<>> \in Seq(E) /\ 0 \in 0..N
    BY <1>0, EmptySeq
  <2> QED
    BY <2>1, Zenon
<1>11. Good(b[2], b[1])
  <2>1. First(0) = {} /\ Range(<<>>) = {} /\ Len(<<>>) = 0
    BY DEF Range
  <2>2. InOrder(<<>>)
    BY <2>1 DEF InOrder
  <2>3. <<>> \in Seq(E)
    BY EmptySeq
  <2> HIDE DEF First, b
  <2> QED
    BY <1>10, <2>1, <2>2, <2>3
<1>12. Good(Read[b], N)
  <2>1. N - b[1] = N
    BY <1>0, <1>10
  <2> HIDE DEF Good, b, D
  <2> QED
    BY <1>9, <1>10, <1>11, <2>1 DEF T
<1>13. First(N) = E
  BY <1>0 DEF E, Range
<1> QED
  BY <1>1, <1>12, <1>13 DEF E
=============================================================================
