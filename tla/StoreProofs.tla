----------------------------- MODULE StoreProofs ------------------------------
(***************************************************************************)
(* Theorems about the store, for leaves of any degree, any number of them, *)
(* and any keys: what its leaves hold, the order along the chain, and that *)
(* it is the dictionary of KVStore.                                        *)
(***************************************************************************)
EXTENDS Store, LeafChainProofs, BasicLemmas

\* A map from keys to values, as the entries of a leaf are.
IsMap(f) ==
  /\ f = [k \in DOMAIN f |-> f[k]]
  /\ DOMAIN f \subseteq Keys /\ IsFiniteSet(DOMAIN f)
  /\ \A k \in DOMAIN f : f[k] \in Values
-----------------------------------------------------------------------------
\* A map with one entry more, or changed.
LEMMA WithEntryIsMap ==
  ASSUME NEW f, IsMap(f), NEW k \in Keys, NEW v \in Values
  PROVE  /\ IsMap(WithEntry(f, k, v)) /\ WithEntry(f, k, v) # <<>>
         /\ DOMAIN WithEntry(f, k, v) = DOMAIN f \cup {k}
         /\ WithEntry(f, k, v)[k] = v
         /\ \A j \in DOMAIN f : j # k => WithEntry(f, k, v)[j] = f[j]
<1> DEFINE g == WithEntry(f, k, v)
<1>1. g = [j \in DOMAIN f \cup {k} |-> IF j = k THEN v ELSE f[j]]
  BY DEF WithEntry
<1> HIDE DEF g
<1>2. DOMAIN g = DOMAIN f \cup {k} /\ g[k] = v /\ \A j \in DOMAIN f : j # k => g[j] = f[j]
  BY <1>1
<1>3. IsFiniteSet(DOMAIN f \cup {k})
  BY FS_AddElement DEF IsMap
<1>4. IsMap(g)
  BY <1>1, <1>2, <1>3 DEF IsMap
<1>5. g # <<>>
  BY <1>2
<1> QED BY <1>2, <1>4, <1>5 DEF g

\* A part of a map.
LEMMA PartIsMap ==
  ASSUME NEW f, IsMap(f), NEW S, S \subseteq DOMAIN f
  PROVE  /\ IsMap(PartOf(f, S)) /\ DOMAIN PartOf(f, S) = S
         /\ \A j \in S : PartOf(f, S)[j] = f[j]
         /\ S = {} => PartOf(f, S) = <<>>
         /\ S # {} => PartOf(f, S) # <<>>
<1> DEFINE g == PartOf(f, S)
<1>1. g = [j \in S |-> f[j]]
  BY DEF PartOf
<1> HIDE DEF g
<1>2. DOMAIN g = S /\ (\A j \in S : g[j] = f[j]) /\ IsFiniteSet(S)
  BY <1>1, FS_Subset DEF IsMap
<1>3. IsMap(g)
  BY <1>1, <1>2 DEF IsMap
<1>4. S = {} => g = <<>>
  BY <1>1
<1>5. S # {} => g # <<>>
  BY <1>2
<1> QED BY <1>2, <1>3, <1>4, <1>5 DEF g

\* insert into a leaf that has room, and into one that has to be split: two
\* parts that are not empty, the new entry in one of them, in order.
LEMMA InsertStaysResult ==
  ASSUME NEW f, NEW k, NEW v, LeafInsert(f, k, v).new = <<>>
  PROVE  LeafInsert(f, k, v).node.kv = WithEntry(f, k, v)
BY DEF LeafInsert, Leaf

LEMMA InsertSplitResult ==
  ASSUME NEW f, IsMap(f), NEW k \in Keys, NEW v \in Values,
         LeafInsert(f, k, v).new # <<>>
  PROVE  \E g, h :
           /\ LeafInsert(f, k, v).node.kv = g
           /\ LeafInsert(f, k, v).new[1].node.kv = h
           /\ IsMap(g) /\ IsMap(h) /\ g # <<>> /\ h # <<>>
           /\ DOMAIN g \cup DOMAIN h = DOMAIN f \cup {k}
           /\ \A a \in DOMAIN g, b \in DOMAIN h : a < b
           /\ \A a \in DOMAIN g : g[a] = WithEntry(f, k, v)[a]
           /\ \A b \in DOMAIN h : h[b] = WithEntry(f, k, v)[b]
<1> DEFINE n == Cardinality(DOMAIN f)
           low == Smallest(DOMAIN f, n - n \div 2)
           left == PartOf(f, low)
           right == PartOf(f, DOMAIN f \ low)
           key == MinKey(Leaf(right))
           r == LeafInsert(f, k, v)
<1>1. /\ k \notin DOMAIN f /\ LeafFull(n)
      /\ k < key => /\ r.node.kv = WithEntry(left, k, v)
                    /\ r.new[1].node.kv = right
      /\ ~(k < key) => /\ r.node.kv = left
                       /\ r.new[1].node.kv = WithEntry(right, k, v)
  BY DEF LeafInsert, Leaf
<1>2. n \in Nat /\ n >= 3 /\ n - n \div 2 \in Nat \ {0} /\ n - n \div 2 < n
  <2>1. n \in Nat /\ LeafDegree \in Nat /\ LeafDegree >= 2
    BY FS_CardinalityType, DegreeAssumption DEF IsMap, DegreeAssumption
  <2>2. n >= 3
    BY <1>1, <2>1 DEF LeafFull
  <2> QED BY <2>1, <2>2
<1>3. /\ low \subseteq DOMAIN f /\ low # {} /\ DOMAIN f \ low # {}
      /\ \A x \in low, y \in DOMAIN f \ low : x < y
  <2>1. DOMAIN f \subseteq Nat
    BY StoreAssumption DEF IsMap, StoreAssumption
  <2>2. low = Least(DOMAIN f, n - n \div 2)
    BY DEF Smallest, Least
  <2> HIDE DEF low
  <2> QED BY <1>2, <2>1, <2>2, LeastParts DEF IsMap
<1> HIDE DEF n, low
<1>4. /\ IsMap(left) /\ DOMAIN left = low /\ left # <<>>
      /\ \A j \in low : left[j] = f[j]
  BY <1>3, PartIsMap
<1>5. /\ IsMap(right) /\ DOMAIN right = DOMAIN f \ low /\ right # <<>>
      /\ \A j \in DOMAIN f \ low : right[j] = f[j]
  BY <1>3, PartIsMap
<1>6. key \in DOMAIN f \ low /\ \A y \in DOMAIN f \ low : key <= y
  <2>1. key = CHOOSE x \in DOMAIN right : \A y \in DOMAIN right : x <= y
    BY DEF MinKey, Leaf
  <2>2. \E x \in DOMAIN right : \A y \in DOMAIN right : x <= y
    <3>1. DOMAIN right \subseteq Nat /\ DOMAIN right # {}
      BY <1>3, <1>5, StoreAssumption DEF IsMap, StoreAssumption
    <3> QED BY <3>1, MinIsLeast
  <2> QED BY <1>5, <2>1, <2>2
<1> HIDE DEF left, right, key, r
<1>7. /\ DOMAIN WithEntry(f, k, v) = DOMAIN f \cup {k}
      /\ WithEntry(f, k, v)[k] = v
      /\ \A j \in DOMAIN f : WithEntry(f, k, v)[j] = f[j]
  <2>1. \A j \in DOMAIN f : j # k
    BY <1>1
  <2>2. /\ IsMap(WithEntry(f, k, v)) /\ WithEntry(f, k, v) # <<>>
        /\ DOMAIN WithEntry(f, k, v) = DOMAIN f \cup {k}
        /\ WithEntry(f, k, v)[k] = v
        /\ \A j \in DOMAIN f : j # k => WithEntry(f, k, v)[j] = f[j]
    BY WithEntryIsMap
  <2> QED BY <2>1, <2>2
<1>8. k \in Nat /\ key \in Nat /\ \A j \in DOMAIN f : j \in Nat
  BY <1>6, StoreAssumption DEF IsMap, StoreAssumption
<1>9. CASE k < key
  <2> DEFINE g == WithEntry(left, k, v)
  <2>1. /\ IsMap(g) /\ g # <<>> /\ DOMAIN g = low \cup {k}
        /\ g[k] = v /\ \A j \in low : j # k => g[j] = f[j]
    BY <1>4, WithEntryIsMap
  <2> HIDE DEF g
  <2>2. \A a \in DOMAIN g, b \in DOMAIN right : a < b
    <3>1. \A b \in DOMAIN right : k < b
      BY <1>5, <1>6, <1>8, <1>9
    <3> QED BY <1>3, <1>5, <2>1, <3>1
  <2>3. DOMAIN g \cup DOMAIN right = DOMAIN f \cup {k}
    BY <1>3, <1>5, <2>1
  <2>4. \A a \in DOMAIN g : g[a] = WithEntry(f, k, v)[a]
    BY <1>3, <1>7, <2>1
  <2>5. \A b \in DOMAIN right : right[b] = WithEntry(f, k, v)[b]
    BY <1>5, <1>7
  <2>6. r.node.kv = g /\ r.new[1].node.kv = right
    BY <1>1, <1>9 DEF g
  <2> QED BY <1>5, <2>1, <2>2, <2>3, <2>4, <2>5, <2>6 DEF r
<1>10. CASE ~(k < key)
  <2> DEFINE h == WithEntry(right, k, v)
  <2>1. /\ IsMap(h) /\ h # <<>> /\ DOMAIN h = (DOMAIN f \ low) \cup {k}
        /\ h[k] = v /\ \A j \in DOMAIN f \ low : j # k => h[j] = f[j]
    <3>1. /\ IsMap(h) /\ h # <<>> /\ DOMAIN h = DOMAIN right \cup {k}
          /\ h[k] = v /\ \A j \in DOMAIN right : j # k => h[j] = right[j]
      BY <1>5, WithEntryIsMap
    <3> HIDE DEF h
    <3> QED BY <1>5, <3>1
  <2> HIDE DEF h
  <2>2. \A a \in DOMAIN left, b \in DOMAIN h : a < b
    <3>1. \A a \in DOMAIN left : a < k
      BY <1>3, <1>4, <1>6, <1>8, <1>10
    <3> QED BY <1>3, <1>4, <2>1, <3>1
  <2>3. DOMAIN left \cup DOMAIN h = DOMAIN f \cup {k}
    BY <1>3, <1>4, <2>1
  <2>4. \A b \in DOMAIN h : h[b] = WithEntry(f, k, v)[b]
    BY <1>3, <1>7, <2>1
  <2>5. \A a \in DOMAIN left : left[a] = WithEntry(f, k, v)[a]
    BY <1>3, <1>4, <1>7
  <2>6. r.node.kv = left /\ r.new[1].node.kv = h
    BY <1>1, <1>10 DEF h
  <2> QED BY <1>4, <2>1, <2>2, <2>3, <2>4, <2>5, <2>6 DEF r
<1> QED BY <1>9, <1>10
-----------------------------------------------------------------------------
\* No leaf along s is without an entry, and they are in key order.
Ascends(f, s) ==
  /\ \A i \in 1 .. Len(s) : f[s[i]] # <<>>
  /\ \A i, j \in 1 .. Len(s) :
       i < j => \A a \in DOMAIN f[s[i]], b \in DOMAIN f[s[j]] : a < b

\* Whatever happened, every leaf has a map for its entries, an empty one if it
\* is free.
EntriesInv ==
  /\ kv = [p \in Leaves |-> kv[p]]
  /\ \A p \in Leaves : IsMap(kv[p])
  /\ FreeLeavesEmpty

StoreInv == ChainInv /\ EntriesInv /\ (~unsafe => Ascends(kv, Chain))

\* What the steps below need of the leaves of an open tree.
LEMMA OpenBasics ==
  ASSUME StoreInv, mode = "open", fault = "none"
  PROVE  /\ leaves \in Seq(Leaves) /\ Len(leaves) \in Nat
         /\ Chain = leaves
         /\ \A i \in 1 .. Len(leaves) :
              /\ leaves[i] \in Leaves /\ leaves[i] \in used
              /\ IsMap(kv[leaves[i]]) /\ DOMAIN kv[leaves[i]] \subseteq Nat
         /\ \A i, j \in 1 .. Len(leaves) : leaves[i] = leaves[j] => i = j
<1>1. leaves \in Seq(Leaves) /\ Len(leaves) \in Nat
      /\ \A i \in 1 .. Len(leaves) : leaves[i] \in Leaves
  BY Basics DEF StoreInv, ChainInv
<1>2. OwnedBy(leaves)
  BY DEF StoreInv, ChainInv, OwnInv
<1>3. \A p \in Leaves : IsMap(kv[p]) /\ DOMAIN kv[p] \subseteq Nat
  BY StoreAssumption DEF StoreInv, EntriesInv, IsMap, StoreAssumption
<1> QED BY <1>1, <1>2, <1>3 DEF OwnedBy, Chain

\* A key that is routed to the i-th leaf fits between the others.
LEMMA FitsBetween ==
  ASSUME leaves \in Seq(Leaves), NEW k, NEW i \in Routes(k)
  PROVE  /\ i \in 1 .. Len(leaves)
         /\ \A j \in 1 .. Len(leaves) : \A a \in DOMAIN kv[leaves[j]] :
              (j < i => a < k) /\ (i < j => k < a)
<1>1. i \in 1 .. Len(leaves) /\ Fits(k, i) /\ Len(leaves) \in Nat
  BY DEF Routes
<1>2. ASSUME NEW j \in 1 .. Len(leaves), NEW a \in DOMAIN kv[leaves[j]], j < i
      PROVE  a < k
  <2>1. j \in 1 .. i - 1
    BY <1>1, <1>2
  <2>2. a \in KeysIn(leaves, 1 .. i - 1)
    BY <2>1 DEF KeysIn
  <2> QED BY <1>1, <2>2 DEF Fits
<1>3. ASSUME NEW j \in 1 .. Len(leaves), NEW a \in DOMAIN kv[leaves[j]], i < j
      PROVE  k < a
  <2>1. j \in i + 1 .. Len(leaves)
    BY <1>1, <1>3
  <2>2. a \in KeysIn(leaves, i + 1 .. Len(leaves))
    BY <2>1 DEF KeysIn
  <2> QED BY <1>1, <2>2 DEF Fits
<1> QED BY <1>1, <1>2, <1>3

\* The entries of one leaf change, by the key routed to it at most.
LEMMA OneLeafChanges ==
  ASSUME StoreInv, mode = "open", fault = "none", UNCHANGED vars,
         NEW k, NEW i \in Routes(k),
         NEW f, IsMap(f), ~unsafe => f # <<>>,
         DOMAIN f \subseteq DOMAIN kv[leaves[i]] \cup {k},
         kv' = [kv EXCEPT ![leaves[i]] = f]
  PROVE  StoreInv'
<1> DEFINE s == leaves
<1>1. /\ s \in Seq(Leaves) /\ Len(s) \in Nat /\ Chain = s
      /\ \A j \in 1 .. Len(s) : s[j] \in Leaves /\ s[j] \in used
      /\ \A j, l \in 1 .. Len(s) : s[j] = s[l] => j = l
  BY OpenBasics
<1>2. /\ i \in 1 .. Len(s)
      /\ \A j \in 1 .. Len(s) : \A a \in DOMAIN kv[s[j]] :
           (j < i => a < k) /\ (i < j => k < a)
  BY <1>1, FitsBetween
<1>3. ChainInv'
  BY ChainStutter DEF StoreInv
<1>4. used' = used /\ Chain' = Chain /\ unsafe' = unsafe
  BY DEF vars, chainVars, allocVars, Chain
<1>5. /\ kv = [p \in Leaves |-> kv[p]]
      /\ \A p \in Leaves : IsMap(kv[p])
      /\ \A p \in Leaves \ used : kv[p] = <<>>
  BY DEF StoreInv, EntriesInv, FreeLeavesEmpty
<1>6. /\ kv' = [p \in Leaves |-> kv'[p]]
      /\ kv'[s[i]] = f
      /\ \A p \in Leaves : p # s[i] => kv'[p] = kv[p]
  BY <1>1, <1>2, <1>5
<1>7. EntriesInv'
  <2>1. \A p \in Leaves : IsMap(kv'[p])
    BY <1>5, <1>6
  <2>2. \A p \in Leaves \ used : kv'[p] = <<>>
    BY <1>1, <1>2, <1>5, <1>6
  <2> QED BY <1>4, <1>6, <2>1, <2>2 DEF EntriesInv, FreeLeavesEmpty
<1>8. ASSUME ~unsafe PROVE Ascends(kv', s)
  <2>1. Ascends(kv, s)
    BY <1>1, <1>8 DEF StoreInv
  <2>2. \A j \in 1 .. Len(s) : j # i => kv'[s[j]] = kv[s[j]]
    BY <1>1, <1>2, <1>6
  <2>3. \A j \in 1 .. Len(s) : kv'[s[j]] # <<>>
    BY <1>6, <1>8, <2>1, <2>2 DEF Ascends
  <2>4. ASSUME NEW j \in 1 .. Len(s), NEW l \in 1 .. Len(s), j < l,
               NEW a \in DOMAIN kv'[s[j]], NEW b \in DOMAIN kv'[s[l]]
        PROVE  a < b
    <3>1. CASE j = i
      <4>1. l # i /\ b \in DOMAIN kv[s[l]] /\ (a \in DOMAIN kv[s[i]] \/ a = k)
        BY <1>2, <1>6, <2>2, <2>4, <3>1
      <4>2. CASE a = k
        BY <1>2, <2>4, <3>1, <4>1, <4>2
      <4>3. CASE a \in DOMAIN kv[s[i]]
        BY <2>1, <2>4, <3>1, <4>1, <4>3 DEF Ascends
      <4> QED BY <4>1, <4>2, <4>3
    <3>2. CASE l = i
      <4>1. j # i /\ a \in DOMAIN kv[s[j]] /\ (b \in DOMAIN kv[s[i]] \/ b = k)
        BY <1>2, <1>6, <2>2, <2>4, <3>2
      <4>2. CASE b = k
        BY <1>2, <2>4, <3>2, <4>1, <4>2
      <4>3. CASE b \in DOMAIN kv[s[i]]
        BY <2>1, <2>4, <3>2, <4>1, <4>3 DEF Ascends
      <4> QED BY <4>1, <4>2, <4>3
    <3>3. CASE j # i /\ l # i
      BY <2>1, <2>2, <2>4, <3>3 DEF Ascends
    <3> QED BY <3>1, <3>2, <3>3
  <2> QED BY <2>3, <2>4 DEF Ascends
<1> QED BY <1>1, <1>3, <1>4, <1>7, <1>8 DEF StoreInv

LEMMA UpdateKeeps ==
  ASSUME StoreInv, NEW k \in Keys, NEW v \in Values, UpdateKey(k, v)
  PROVE  StoreInv'
<1>1. PICK i \in Routes(k) :
        /\ mode = "open" /\ fault = "none" /\ UNCHANGED vars
        /\ kv' = [kv EXCEPT ![leaves[i]] = LeafUpdate(kv[leaves[i]], k, v).node.kv]
  BY DEF UpdateKey, Ready
<1> DEFINE e == kv[leaves[i]]
           f == LeafUpdate(e, k, v).node.kv
<1>2. IsMap(e) /\ i \in 1 .. Len(leaves) /\ Chain = leaves
  BY <1>1, OpenBasics, FitsBetween
<1>3. f = IF k \in DOMAIN e THEN [e EXCEPT ![k] = v] ELSE e
  BY DEF LeafUpdate, Leaf
<1>4. ~unsafe => e # <<>>
  BY <1>2 DEF StoreInv, Ascends
<1> HIDE DEF e, f
<1>5. IsMap(f) /\ DOMAIN f = DOMAIN e /\ (e # <<>> => f # <<>>)
  <2>1. CASE k \in DOMAIN e
    <3>1. f = [j \in DOMAIN e |-> IF j = k THEN v ELSE e[j]]
      BY <1>2, <1>3, <2>1 DEF IsMap
    <3>2. DOMAIN f = DOMAIN e /\ \A j \in DOMAIN e : f[j] \in Values
      BY <1>2, <3>1 DEF IsMap
    <3>3. IsMap(f)
      BY <1>2, <3>1, <3>2 DEF IsMap
    <3>4. f # <<>>
      BY <2>1, <3>2
    <3> QED BY <3>2, <3>3, <3>4
  <2>2. CASE k \notin DOMAIN e
    BY <1>2, <1>3, <2>2
  <2> QED BY <2>1, <2>2
<1>6. ~unsafe => f # <<>>
  BY <1>4, <1>5
<1>7. DOMAIN f \subseteq DOMAIN kv[leaves[i]] \cup {k}
  BY <1>5 DEF e
<1>8. kv' = [kv EXCEPT ![leaves[i]] = f]
  BY <1>1 DEF f, e
<1> QED BY <1>1, <1>5, <1>6, <1>7, <1>8, OneLeafChanges

LEMMA InsertStaysKeeps ==
  ASSUME StoreInv, NEW k \in Keys, NEW v \in Values, InsertStays(k, v)
  PROVE  StoreInv'
<1>1. PICK i \in Routes(k) :
        /\ mode = "open" /\ fault = "none" /\ UNCHANGED vars
        /\ LeafInsert(kv[leaves[i]], k, v).new = <<>>
        /\ kv' = [kv EXCEPT ![leaves[i]] = LeafInsert(kv[leaves[i]], k, v).node.kv]
  BY DEF InsertStays, Ready
<1> DEFINE f == WithEntry(kv[leaves[i]], k, v)
<1>2. IsMap(kv[leaves[i]])
  BY <1>1, OpenBasics, FitsBetween
<1>3. kv' = [kv EXCEPT ![leaves[i]] = f]
  BY <1>1, InsertStaysResult
<1>4. IsMap(f) /\ f # <<>> /\ DOMAIN f = DOMAIN kv[leaves[i]] \cup {k}
  BY <1>2, WithEntryIsMap
<1> HIDE DEF f
<1>5. DOMAIN f \subseteq DOMAIN kv[leaves[i]] \cup {k}
  BY <1>4
<1> QED BY <1>1, <1>3, <1>4, <1>5, OneLeafChanges

LEMMA RemoveStaysKeeps ==
  ASSUME StoreInv, NEW k \in Keys, RemoveStays(k)
  PROVE  StoreInv'
<1>1. PICK i \in Routes(k) :
        /\ mode = "open" /\ fault = "none" /\ UNCHANGED vars
        /\ ~LeafRemove(kv[leaves[i]], k).gone
        /\ kv' = [kv EXCEPT ![leaves[i]] = LeafRemove(kv[leaves[i]], k).node.kv]
  BY DEF RemoveStays, Ready
<1> DEFINE e == kv[leaves[i]]
           f == PartOf(e, DOMAIN e \ {k})
<1>2. IsMap(e) /\ i \in 1 .. Len(leaves) /\ Chain = leaves
  BY <1>1, OpenBasics, FitsBetween
<1>3. DOMAIN e # {k} /\ kv' = [kv EXCEPT ![leaves[i]] = f]
  BY <1>1 DEF LeafRemove, Leaf
<1>4. ~unsafe => e # <<>>
  BY <1>2 DEF StoreInv, Ascends
<1>5. /\ IsMap(f) /\ DOMAIN f = DOMAIN e \ {k}
      /\ DOMAIN e \ {k} # {} => f # <<>>
  BY <1>2, PartIsMap
<1>6. ~unsafe => DOMAIN e \ {k} # {}
  <2>1. e = [j \in DOMAIN e |-> e[j]]
    BY <1>2 DEF IsMap
  <2> HIDE DEF e
  <2>2. e # <<>> => DOMAIN e # {}
    BY <2>1
  <2> QED BY <1>3, <1>4, <2>2
<1>7. DOMAIN f \subseteq DOMAIN kv[leaves[i]] \cup {k}
  BY <1>5
<1> HIDE DEF e, f
<1> QED BY <1>1, <1>3, <1>5, <1>6, <1>7, OneLeafChanges

\* The first leaf of a tree: what its slots hold is not looked at, and it is
\* nothing.
LEMMA InsertFirstKeeps ==
  ASSUME StoreInv, ChainInv', NEW k \in Keys, NEW v \in Values, InsertFirst(k, v)
  PROVE  StoreInv'
<1>1. PICK p \in Leaves : /\ FirstInsert(p)
                          /\ kv' = [kv EXCEPT ![p] = WithEntry(kv[p], k, v)]
  BY DEF InsertFirst
<1>2. /\ leaves' = <<p>> /\ Len(leaves') = 1 /\ leaves'[1] = p
      /\ mode' = "open" /\ Chain' = <<p>>
      /\ used' = used \cup {p}
  BY <1>1, GetLeafEffect DEF FirstInsert, Chain
<1> DEFINE f == WithEntry(kv[p], k, v)
<1>3. IsMap(f) /\ f # <<>>
  BY WithEntryIsMap DEF StoreInv, EntriesInv
<1> HIDE DEF f
<1>4. /\ kv' = [q \in Leaves |-> kv'[q]] /\ kv'[p] = f
      /\ \A q \in Leaves : q # p => kv'[q] = kv[q]
  BY <1>1 DEF StoreInv, EntriesInv, f
<1>5. EntriesInv'
  <2>1. \A q \in Leaves : IsMap(kv'[q])
    BY <1>3, <1>4 DEF StoreInv, EntriesInv
  <2>2. \A q \in Leaves \ used' : kv'[q] = <<>>
    BY <1>2, <1>4 DEF StoreInv, EntriesInv, FreeLeavesEmpty
  <2> QED BY <1>4, <2>1, <2>2 DEF EntriesInv, FreeLeavesEmpty
<1>6. Ascends(kv', leaves')
  <2>1. \A i \in 1 .. Len(leaves') : i = 1
    BY <1>2
  <2> QED BY <1>2, <1>3, <1>4, <2>1 DEF Ascends
<1> QED BY <1>2, <1>5, <1>6 DEF StoreInv

\* Where the leaves are when one has been put after the i-th.
LEMMA PlacesAfterSplit ==
  ASSUME NEW s \in Seq(Leaves), NEW i \in 1 .. Len(s), NEW q \in Leaves,
         leaves' = InsertAt(s, i + 1, q)
  PROVE  /\ Len(leaves') = Len(s) + 1
         /\ \A j \in 1 .. i : leaves'[j] = s[j]
         /\ leaves'[i + 1] = q
         /\ \A j \in (i + 2) .. (Len(s) + 1) : leaves'[j] = s[j - 1]
<1>1. /\ Len(InsertAt(s, i + 1, q)) = Len(s) + 1
      /\ \A j \in 1 .. i : InsertAt(s, i + 1, q)[j] = s[j]
      /\ InsertAt(s, i + 1, q)[i + 1] = q
      /\ \A j \in (i + 2) .. (Len(s) + 1) : InsertAt(s, i + 1, q)[j] = s[j - 1]
  BY InsertAtProperties
<1> QED BY <1>1

\* The halves of a split, next to each other.
LEMMA InsertSplitKeeps ==
  ASSUME StoreInv, ChainInv', NEW k \in Keys, NEW v \in Values, InsertSplit(k, v)
  PROVE  StoreInv'
<1>1. PICK i \in Routes(k), q \in Leaves :
        /\ LeafInsert(kv[leaves[i]], k, v).new # <<>>
        /\ SplitLeaf(i, q)
        /\ kv' = [kv EXCEPT ![leaves[i]] = LeafInsert(kv[leaves[i]], k, v).node.kv,
                            ![q] = LeafInsert(kv[leaves[i]], k, v).new[1].node.kv]
  BY DEF InsertSplit
<1> DEFINE s == leaves
           e == kv[leaves[i]]
           n == Len(leaves)
<1>2. mode = "open" /\ fault = "none" /\ mode' = "open" /\ unsafe' = unsafe
      /\ q \notin used /\ used' = used \cup {q} /\ leaves' = InsertAt(leaves, i + 1, q)
  BY <1>1, GetLeafEffect, GetLeafSound DEF SplitLeaf, StoreInv, ChainInv, AllocInv
<1>3. /\ s \in Seq(Leaves) /\ n \in Nat /\ Chain = s /\ Chain' = leaves'
      /\ \A j \in 1 .. n : s[j] \in Leaves /\ s[j] \in used
      /\ \A j, l \in 1 .. n : s[j] = s[l] => j = l
      /\ i \in 1 .. n /\ IsMap(e)
      /\ \A j \in 1 .. n : \A a \in DOMAIN kv[s[j]] :
           (j < i => a < k) /\ (i < j => k < a)
  BY <1>2, OpenBasics, FitsBetween DEF Chain
<1>4. /\ Len(leaves') = n + 1
      /\ \A j \in 1 .. i : leaves'[j] = s[j]
      /\ leaves'[i + 1] = q
      /\ \A j \in (i + 2) .. (n + 1) : leaves'[j] = s[j - 1]
  BY <1>2, <1>3, PlacesAfterSplit
<1>5. PICK g, h :
           /\ LeafInsert(e, k, v).node.kv = g
           /\ LeafInsert(e, k, v).new[1].node.kv = h
           /\ IsMap(g) /\ IsMap(h) /\ g # <<>> /\ h # <<>>
           /\ DOMAIN g \cup DOMAIN h = DOMAIN e \cup {k}
           /\ \A a \in DOMAIN g, b \in DOMAIN h : a < b
  <2>1. LeafInsert(e, k, v).new # <<>> /\ IsMap(e)
    BY <1>1, <1>3
  <2> HIDE DEF e
  <2> QED BY <2>1, InsertSplitResult
<1>6. kv' = [kv EXCEPT ![s[i]] = g, ![q] = h]
  BY <1>1, <1>5
<1>7. /\ kv = [p \in Leaves |-> kv[p]]
      /\ \A p \in Leaves : IsMap(kv[p])
      /\ \A p \in Leaves \ used : kv[p] = <<>>
  BY DEF StoreInv, EntriesInv, FreeLeavesEmpty
<1>8. /\ kv' = [p \in Leaves |-> kv'[p]]
      /\ kv'[s[i]] = g /\ kv'[q] = h
      /\ \A p \in Leaves : p # s[i] /\ p # q => kv'[p] = kv[p]
  BY <1>2, <1>3, <1>6, <1>7
<1>9. EntriesInv'
  <2>1. \A p \in Leaves : IsMap(kv'[p])
    BY <1>5, <1>7, <1>8
  <2>2. \A p \in Leaves \ used' : kv'[p] = <<>>
    BY <1>2, <1>3, <1>7, <1>8
  <2> QED BY <1>8, <2>1, <2>2 DEF EntriesInv, FreeLeavesEmpty
<1>10. ASSUME ~unsafe PROVE Ascends(kv', leaves')
  <2>1. Ascends(kv, s) /\ n = Len(s)
    BY <1>3, <1>10 DEF StoreInv
  <2> HIDE DEF s, n
  \* A leaf of the new chain has a place in the old one, and entries of it.
  <2> DEFINE Was(j) == IF j <= i THEN j ELSE j - 1
  <2>2. ASSUME NEW j \in 1 .. n + 1
        PROVE  /\ Was(j) \in 1 .. n
               /\ kv'[leaves'[j]] = IF j = i THEN g ELSE IF j = i + 1 THEN h
                                    ELSE kv[s[Was(j)]]
               /\ j # i /\ j # i + 1 => Was(j) # i
    <3>1. CASE j = i
      BY <1>3, <1>4, <1>8, <3>1
    <3>2. CASE j = i + 1
      BY <1>3, <1>4, <1>8, <3>2
    <3>3. CASE j < i
      <4>1. leaves'[j] = s[j] /\ j \in 1 .. n /\ s[j] # s[i] /\ s[j] # q /\ s[j] \in Leaves
        BY <1>2, <1>3, <1>4, <3>3
      <4> QED BY <1>3, <1>8, <3>3, <4>1
    <3>4. CASE j > i + 1
      <4>1. j - 1 \in 1 .. n /\ j - 1 # i /\ j \in (i + 2) .. (n + 1)
        BY <1>3, <3>4
      <4>2. leaves'[j] = s[j - 1] /\ s[j - 1] # s[i] /\ s[j - 1] # q /\ s[j - 1] \in Leaves
        BY <1>2, <1>3, <1>4, <4>1
      <4> QED BY <1>3, <1>8, <3>4, <4>1, <4>2
    <3> QED BY <1>3, <3>1, <3>2, <3>3, <3>4
  <2>3. \A j \in 1 .. n + 1 : kv'[leaves'[j]] # <<>>
    <3> TAKE j \in 1 .. n + 1
    <3> HIDE DEF Was
    <3>1. kv[s[Was(j)]] # <<>>
      BY <2>1, <2>2 DEF Ascends
    <3> QED BY <1>5, <2>2, <3>1
  <2>4. ASSUME NEW j \in 1 .. n + 1, NEW l \in 1 .. n + 1, j < l,
               NEW a \in DOMAIN kv'[leaves'[j]], NEW b \in DOMAIN kv'[leaves'[l]]
        PROVE  a < b
    <3> HIDE DEF Was
    <3>1. /\ j \in {i, i + 1} => a \in DOMAIN e \cup {k} /\ Was(j) = i
          /\ l \in {i, i + 1} => b \in DOMAIN e \cup {k} /\ Was(l) = i
          /\ j \notin {i, i + 1} => a \in DOMAIN kv[s[Was(j)]] /\ Was(j) # i
          /\ l \notin {i, i + 1} => b \in DOMAIN kv[s[Was(l)]] /\ Was(l) # i
      <4>1. Was(i) = i /\ Was(i + 1) = i
        BY <1>3 DEF Was
      <4> QED BY <1>5, <2>2, <4>1
    <3>2. Was(j) \in 1 .. n /\ Was(l) \in 1 .. n
      BY <2>2
    <3>3. Was(j) < Was(l) \/ Was(j) = Was(l)
      BY <1>3, <2>4 DEF Was
    <3>4. Was(j) = Was(l) => j = i /\ l = i + 1
      BY <1>3, <2>4 DEF Was
    <3>5. CASE j = i /\ l = i + 1
      BY <1>3, <1>5, <2>2, <2>4, <3>5
    <3>6. CASE Was(j) < Was(l)
      <4>1. CASE a \in DOMAIN kv[s[Was(j)]] /\ b \in DOMAIN kv[s[Was(l)]]
        BY <2>1, <3>2, <3>6, <4>1 DEF Ascends
      <4>2. CASE a = k /\ Was(j) = i
        BY <1>3, <3>1, <3>2, <3>6, <4>2
      <4>3. CASE b = k /\ Was(l) = i
        BY <1>3, <3>1, <3>2, <3>6, <4>3
      <4> QED BY <3>1, <4>1, <4>2, <4>3 DEF s
    <3> QED BY <3>3, <3>4, <3>5, <3>6
  <2> QED BY <1>4, <2>3, <2>4 DEF Ascends
<1> QED BY <1>2, <1>3, <1>9, <1>10 DEF StoreInv

\* The leaf that has lost its last entry goes, and is free.
LEMMA RemoveLastKeeps ==
  ASSUME StoreInv, ChainInv', NEW k \in Keys, RemoveLast(k)
  PROVE  StoreInv'
<1>1. PICK i \in Routes(k) :
        /\ LeafRemove(kv[leaves[i]], k).gone
        /\ EmptyLeaf(i)
        /\ IF fault' = "none"
           THEN kv' = [kv EXCEPT ![leaves[i]] = LeafRemove(kv[leaves[i]], k).node.kv]
           ELSE kv' = kv
  BY DEF RemoveLast
<1> DEFINE s == leaves
           n == Len(leaves)
           p == leaves[i]
           f == PartOf(kv[p], DOMAIN kv[p] \ {k})
<1>2. mode = "open" /\ fault = "none" /\ mode' = "open"
  BY <1>1 DEF EmptyLeaf
<1>3. /\ s \in Seq(Leaves) /\ n \in Nat /\ Chain = s /\ Chain' = leaves'
      /\ \A j \in 1 .. n : s[j] \in Leaves /\ s[j] \in used
      /\ \A j, l \in 1 .. n : s[j] = s[l] => j = l
      /\ i \in 1 .. n /\ IsMap(kv[p]) /\ p \in Leaves
  BY <1>2, OpenBasics, FitsBetween DEF Chain
<1>4. /\ kv = [q \in Leaves |-> kv[q]]
      /\ \A q \in Leaves : IsMap(kv[q])
      /\ \A q \in Leaves \ used : kv[q] = <<>>
  BY DEF StoreInv, EntriesInv, FreeLeavesEmpty
<1>5. CASE fault' # "none"
  <2>1. used' = used /\ fault' = "dangling" /\ kv' = kv
    BY <1>1, <1>2, <1>5 DEF EmptyLeaf, allocVars
  <2>2. unsafe'
    BY <2>1 DEF ChainInv, SafeInv
  <2>3. EntriesInv'
    BY <1>4, <2>1 DEF EntriesInv, FreeLeavesEmpty
  <2> QED BY <2>2, <2>3 DEF StoreInv
<1>6. CASE fault' = "none"
  <2>1. used' = used \ {p} /\ leaves' = RemoveAt(s, i) /\ (unsafe => unsafe')
    BY <1>1, <1>2, <1>6 DEF EmptyLeaf, ReleaseLeaf, MarkUnsafe
  <2>2. f = <<>> /\ IsMap(f) /\ kv' = [kv EXCEPT ![p] = f]
    <3>1. DOMAIN kv[p] \ {k} = {} /\ kv' = [kv EXCEPT ![p] = f]
      BY <1>1, <1>6 DEF LeafRemove, Leaf
    <3> QED BY <1>3, <3>1, PartIsMap
  <2> HIDE DEF f
  <2>3. /\ kv' = [q \in Leaves |-> kv'[q]] /\ kv'[p] = f
        /\ \A q \in Leaves : q # p => kv'[q] = kv[q]
    BY <1>3, <1>4, <2>2
  <2>4. EntriesInv'
    <3>1. \A q \in Leaves : IsMap(kv'[q])
      BY <1>4, <2>2, <2>3
    <3>2. \A q \in Leaves \ used' : kv'[q] = <<>>
      BY <1>4, <2>1, <2>2, <2>3
    <3> QED BY <2>3, <3>1, <3>2 DEF EntriesInv, FreeLeavesEmpty
  <2>5. ASSUME ~unsafe' PROVE Ascends(kv', leaves')
    <3>1. Ascends(kv, s)
      BY <1>3, <2>1, <2>5 DEF StoreInv
    <3> DEFINE Was(j) == IF j < i THEN j ELSE j + 1
    <3>2. Len(leaves') = n - 1 /\ \A j \in 1 .. n - 1 : leaves'[j] = s[Was(j)]
      <4>1. /\ Len(leaves') = n - 1
            /\ \A j \in 1 .. (i - 1) : leaves'[j] = s[j]
            /\ \A j \in i .. (n - 1) : leaves'[j] = s[j + 1]
        <5>1. s \in Seq(Leaves) /\ i \in 1 .. Len(s)
          BY <1>3
        <5> HIDE DEF s
        <5>2. /\ Len(RemoveAt(s, i)) = Len(s) - 1
              /\ \A j \in 1 .. (i - 1) : RemoveAt(s, i)[j] = s[j]
              /\ \A j \in i .. (Len(s) - 1) : RemoveAt(s, i)[j] = s[j + 1]
          BY <5>1, RemoveAtProperties
        <5> QED BY <2>1, <5>2 DEF s
      <4>2. ASSUME NEW j \in 1 .. n - 1 PROVE leaves'[j] = s[Was(j)]
        <5>1. j \in 1 .. (i - 1) \/ j \in i .. (n - 1)
          BY <1>3
        <5> QED BY <1>3, <4>1, <5>1
      <4> QED BY <4>1, <4>2
    <3>3. \A j \in 1 .. n - 1 : Was(j) \in 1 .. n /\ Was(j) # i
      BY <1>3
    <3>4. \A j \in 1 .. n - 1 : kv'[leaves'[j]] = kv[s[Was(j)]]
      <4> TAKE j \in 1 .. n - 1
      <4>1. leaves'[j] = s[Was(j)] /\ Was(j) \in 1 .. n /\ Was(j) # i
        BY <3>2, <3>3
      <4> HIDE DEF Was
      <4>2. s[Was(j)] \in Leaves /\ s[Was(j)] # p
        BY <1>3, <4>1
      <4> QED BY <2>3, <4>1, <4>2
    <3>5. \A j, l \in 1 .. n - 1 : j < l => Was(j) < Was(l)
      BY <1>3
    <3> HIDE DEF Was
    <3>6. \A j \in 1 .. n - 1 : kv'[leaves'[j]] # <<>>
      BY <3>1, <3>3, <3>4 DEF Ascends
    <3>7. \A j, l \in 1 .. n - 1 : j < l =>
            \A a \in DOMAIN kv'[leaves'[j]], b \in DOMAIN kv'[leaves'[l]] : a < b
      <4> TAKE j, l \in 1 .. n - 1
      <4>1. Was(j) \in 1 .. n /\ Was(l) \in 1 .. n /\ (j < l => Was(j) < Was(l))
        BY <3>3, <3>5
      <4> QED BY <3>1, <3>4, <4>1 DEF Ascends
    <3> QED BY <3>2, <3>6, <3>7 DEF Ascends
  <2> QED BY <1>3, <2>4, <2>5 DEF StoreInv
<1> QED BY <1>5, <1>6
-----------------------------------------------------------------------------
\* Closing, restarting and loading move the chain from the tree to the files
\* and back, and touch no entry; an insert that fails and a search change
\* nothing that matters here.
LEMMA CarriedOver ==
  ASSUME StoreInv, ChainInv', kv' = kv, used' = used,
         ~unsafe' => ~unsafe /\ Chain' = Chain
  PROVE  StoreInv'
<1>1. EntriesInv'
  BY DEF StoreInv, EntriesInv, FreeLeavesEmpty
<1>2. ASSUME ~unsafe' PROVE Ascends(kv', Chain')
  <2>1. Ascends(kv, Chain) /\ kv' = kv /\ Chain' = Chain
    BY <1>2 DEF StoreInv
  <2> QED BY <2>1
<1> QED BY <1>1, <1>2 DEF StoreInv

LEMMA ChainOfLoad ==
  ASSUME StoreInv, [ChainNext]_vars,
         Close \/ Restart \/ LoadFirst \/ LoadNext \/ OpenEmpty \/ LoadDone
  PROVE  used' = used /\ (~unsafe' => ~unsafe /\ Chain' = Chain)
<1>1. CASE Close
  BY <1>1 DEF Close, allocVars, Chain
<1>2. CASE Restart
  BY <1>2 DEF Restart, RestartAllocator, chainVars, Chain
<1>3. CASE LoadFirst
  BY <1>3 DEF LoadFirst, allocVars, Chain
<1>4. CASE LoadNext
  BY <1>4 DEF LoadNext, allocVars, Chain
<1>5. CASE OpenEmpty \/ LoadDone
  <2>1. mode # "open" /\ mode' = "open" /\ used' = used /\ unsafe' = unsafe
    BY <1>5 DEF OpenEmpty, LoadDone, allocVars
  <2>2. ~unsafe => leaves' = saved
    BY <2>1, LoadsExactly DEF StoreInv
  <2> QED BY <2>1, <2>2 DEF Chain
<1> QED BY <1>1, <1>2, <1>3, <1>4, <1>5

\* Every operation of the store is one of the chain, or leaves it alone.
LEMMA StoreStepsChain == ASSUME [StoreNext]_storeVars PROVE [ChainNext]_vars
<1>1. ASSUME NEW k, NEW v, InsertFirst(k, v) PROVE ChainNext
  BY <1>1 DEF InsertFirst, ChainNext
<1>2. ASSUME NEW k, NEW v, InsertSplit(k, v) PROVE ChainNext
  BY <1>2 DEF InsertSplit, Routes, ChainNext
<1>3. ASSUME NEW k, RemoveLast(k) PROVE ChainNext
  BY <1>3 DEF RemoveLast, Routes, ChainNext
<1>4. ASSUME NEW k, NEW v, InsertStays(k, v) \/ UpdateKey(k, v) PROVE UNCHANGED vars
  BY <1>4 DEF InsertStays, UpdateKey
<1>5. ASSUME NEW k, RemoveStays(k) \/ FindKey(k) \/ NothingThere(k) PROVE UNCHANGED vars
  BY <1>5 DEF RemoveStays, FindKey, NothingThere
<1>6. ASSUME InsertFails \/ Load \/ Opened PROVE ChainNext
  BY <1>6 DEF InsertFails, Load, Opened, ChainNext
<1>7. CASE UNCHANGED storeVars
  BY <1>7 DEF storeVars
<1> QED BY <1>1, <1>2, <1>3, <1>4, <1>5, <1>6, <1>7 DEF StoreNext

LEMMA StoreInitSound == StoreInit => StoreInv
<1> SUFFICES ASSUME StoreInit PROVE StoreInv
  OBVIOUS
<1>1. ChainInv
  BY ChainInitSound DEF StoreInit
<1>2. IsMap(<<>>)
  BY FS_EmptySet DEF IsMap
<1>3. EntriesInv
  BY <1>2 DEF StoreInit, EntriesInv, FreeLeavesEmpty, ChainInit, AllocInit
<1>4. Chain = <<>> /\ Len(Chain) = 0
  BY DEF StoreInit, ChainInit, Chain
<1>5. Ascends(kv, Chain)
  <2>1. 1 .. Len(Chain) = {}
    BY <1>4
  <2> QED BY <2>1 DEF Ascends
<1> QED BY <1>1, <1>3, <1>5 DEF StoreInv

LEMMA StoreStepSound == StoreInv /\ [StoreNext]_storeVars => StoreInv'
<1> SUFFICES ASSUME StoreInv, [StoreNext]_storeVars PROVE StoreInv'
  OBVIOUS
<1>1. [ChainNext]_vars
  BY StoreStepsChain
<1>2. ChainInv'
  BY <1>1, ChainStepSound DEF StoreInv
<1>3. ASSUME UNCHANGED vars, kv' = kv PROVE StoreInv'
  <2>1. used' = used /\ unsafe' = unsafe /\ Chain' = Chain
    BY <1>3 DEF vars, allocVars, chainVars, Chain
  <2> QED BY <1>2, <1>3, <2>1, CarriedOver
<1>4. ASSUME NEW k \in Keys, NEW v \in Values, InsertFirst(k, v) PROVE StoreInv'
  BY <1>2, <1>4, InsertFirstKeeps
<1>5. ASSUME NEW k \in Keys, NEW v \in Values, InsertStays(k, v) PROVE StoreInv'
  BY <1>5, InsertStaysKeeps
<1>6. ASSUME NEW k \in Keys, NEW v \in Values, InsertSplit(k, v) PROVE StoreInv'
  BY <1>2, <1>6, InsertSplitKeeps
<1>7. ASSUME NEW k \in Keys, NEW v \in Values, UpdateKey(k, v) PROVE StoreInv'
  BY <1>7, UpdateKeeps
<1>8. ASSUME NEW k \in Keys, RemoveStays(k) PROVE StoreInv'
  BY <1>8, RemoveStaysKeeps
<1>9. ASSUME NEW k \in Keys, RemoveLast(k) PROVE StoreInv'
  BY <1>2, <1>9, RemoveLastKeeps
<1>10. ASSUME NEW k \in Keys, FindKey(k) \/ NothingThere(k) PROVE StoreInv'
  BY <1>3, <1>10 DEF FindKey, NothingThere
<1>11. CASE InsertFails
  <2>1. kv' = kv /\ used' = used /\ unsafe' = unsafe /\ Chain' = Chain
    BY <1>11 DEF InsertFails, AllocationFails, allocVars, Chain
  <2> QED BY <1>2, <2>1, CarriedOver
<1>12. CASE Load \/ Opened
  <2>1. used' = used /\ (~unsafe' => ~unsafe /\ Chain' = Chain) /\ kv' = kv
    BY <1>1, <1>12, ChainOfLoad DEF Load, Opened
  <2> QED BY <1>2, <2>1, CarriedOver
<1>13. CASE UNCHANGED storeVars
  BY <1>3, <1>13 DEF storeVars
<1> QED BY <1>4, <1>5, <1>6, <1>7, <1>8, <1>9, <1>10, <1>11, <1>12, <1>13 DEF StoreNext

\* The inductive invariant of the store.
THEOREM StoreSound == StoreSpec => []StoreInv
<1> QED BY StoreInitSound, StoreStepSound, PTL DEF StoreSpec

\* No order of splits, removals and restarts leaves an entry in a leaf that is
\* free.
THEOREM FreeLeavesAlwaysEmpty == StoreSpec => []FreeLeavesEmpty
<1>1. StoreInv => FreeLeavesEmpty
  BY DEF StoreInv, EntriesInv
<1> QED BY <1>1, StoreSound, PTL

\* What bulkLoading builds its separators from is in key order, and no leaf of
\* it is without a least key.
THEOREM ChainAlwaysAscends == StoreSpec => []ChainAscends
<1>1. StoreInv => ChainAscends
  <2> SUFFICES ASSUME StoreInv, ~unsafe, NEW i \in 1 .. Len(Chain)
               PROVE  /\ kv[Chain[i]] # <<>>
                      /\ \A j \in KeysIn(Chain, 1 .. i - 1), k \in DOMAIN kv[Chain[i]] : j < k
    BY DEF ChainAscends
  <2>1. Ascends(kv, Chain) /\ Len(Chain) \in Nat
    BY Basics DEF StoreInv, ChainInv, ChainTypeOK, Chain
  <2>2. ASSUME NEW j \in KeysIn(Chain, 1 .. i - 1), NEW k \in DOMAIN kv[Chain[i]]
        PROVE  j < k
    <3>1. PICK l \in 1 .. i - 1 : j \in DOMAIN kv[Chain[l]]
      BY DEF KeysIn
    <3>2. l \in 1 .. Len(Chain) /\ l < i
      BY <2>1
    <3> QED BY <2>1, <3>1, <3>2 DEF Ascends
  <2> QED BY <2>1, <2>2 DEF Ascends
<1> QED BY <1>1, StoreSound, PTL
-----------------------------------------------------------------------------
\* What the leaves along s hold, all together.
MergedOf(f, s) ==
  [k \in UNION {DOMAIN f[s[i]] : i \in DOMAIN s} |->
     f[CHOOSE p \in ToSet(s) : k \in DOMAIN f[p]][k]]

LEMMA MergedIsMergedOf ==
  /\ Merged = MergedOf(kv, Chain)
  /\ Merged' = MergedOf(kv', Chain')
<1>1. Merged = MergedOf(kv, Chain)
  BY DEF Merged, MergedOf, KeysIn
<1>2. Merged' = MergedOf(kv', Chain')
  BY DEF Merged, MergedOf, KeysIn
<1> QED BY <1>1, <1>2

\* In an ascending chain a key is in one leaf, and so has one value.
LEMMA MergedOfAscending ==
  ASSUME NEW f, NEW s \in Seq(Leaves), Ascends(f, s),
         \A i \in 1 .. Len(s) : DOMAIN f[s[i]] \subseteq Nat
  PROVE  /\ \A x : x \in DOMAIN MergedOf(f, s)
                     <=> \E i \in 1 .. Len(s) : x \in DOMAIN f[s[i]]
         /\ \A i \in 1 .. Len(s) : \A x \in DOMAIN f[s[i]] :
              MergedOf(f, s)[x] = f[s[i]][x]
<1>1. DOMAIN s = 1 .. Len(s) /\ Len(s) \in Nat
  OBVIOUS
<1>2. \A x : x \in DOMAIN MergedOf(f, s)
               <=> \E i \in 1 .. Len(s) : x \in DOMAIN f[s[i]]
  BY <1>1 DEF MergedOf
<1>3. ASSUME NEW i \in 1 .. Len(s), NEW x \in DOMAIN f[s[i]]
      PROVE  MergedOf(f, s)[x] = f[s[i]][x]
  <2> DEFINE p == CHOOSE q \in ToSet(s) : x \in DOMAIN f[q]
  <2>1. MergedOf(f, s)[x] = f[p][x]
    BY <1>1 DEF MergedOf
  <2>2. s[i] \in ToSet(s)
    BY <1>1 DEF ToSet
  <2>3. p \in ToSet(s) /\ x \in DOMAIN f[p]
    BY <1>3, <2>2
  <2> HIDE DEF p
  <2>4. PICK j \in 1 .. Len(s) : p = s[j]
    BY <1>1, <2>3 DEF ToSet
  <2>5. x \in Nat /\ ~(x < x)
    BY <1>3
  <2>6. ~(i < j) /\ ~(j < i)
    BY <1>3, <2>3, <2>4, <2>5 DEF Ascends
  <2>7. i = j
    BY <1>1, <2>6
  <2> QED BY <2>1, <2>4, <2>7
<1> QED BY <1>2, <1>3

\* To recognise it.
LEMMA MergedOfIs ==
  ASSUME NEW f, NEW s \in Seq(Leaves), Ascends(f, s),
         \A i \in 1 .. Len(s) : DOMAIN f[s[i]] \subseteq Nat,
         NEW g, g = [x \in DOMAIN g |-> g[x]],
         \A x : x \in DOMAIN g <=> \E i \in 1 .. Len(s) : x \in DOMAIN f[s[i]],
         \A i \in 1 .. Len(s) : \A x \in DOMAIN f[s[i]] : g[x] = f[s[i]][x]
  PROVE  MergedOf(f, s) = g
<1> DEFINE m == MergedOf(f, s)
<1>1. m = [x \in DOMAIN m |-> m[x]]
  BY DEF MergedOf
<1>2. /\ \A x : x \in DOMAIN m <=> \E i \in 1 .. Len(s) : x \in DOMAIN f[s[i]]
      /\ \A i \in 1 .. Len(s) : \A x \in DOMAIN f[s[i]] : m[x] = f[s[i]][x]
  BY MergedOfAscending
<1> HIDE DEF m
<1>3. DOMAIN m = DOMAIN g
  BY <1>2
<1>4. \A x \in DOMAIN m : m[x] = g[x]
  BY <1>2
<1>5. m = g
  BY <1>1, <1>3, <1>4
<1> QED BY <1>5 DEF m

\* What the steps below know of a tree that nothing made unsafe: the chain, and
\* that what the store holds is what its leaves do.
LEMMA SafeBasics ==
  ASSUME StoreInv, ~unsafe
  PROVE  /\ Chain \in Seq(Leaves) /\ Len(Chain) \in Nat /\ Ascends(kv, Chain)
         /\ \A i \in 1 .. Len(Chain) : Chain[i] \in Leaves
         /\ \A i \in 1 .. Len(Chain) :
              IsMap(kv[Chain[i]]) /\ DOMAIN kv[Chain[i]] \subseteq Nat
         /\ Merged = [x \in DOMAIN Merged |-> Merged[x]]
         /\ \A x : x \in DOMAIN Merged
                     <=> \E i \in 1 .. Len(Chain) : x \in DOMAIN kv[Chain[i]]
         /\ \A i \in 1 .. Len(Chain) : \A x \in DOMAIN kv[Chain[i]] :
              Merged[x] = kv[Chain[i]][x]
<1>1. Chain \in Seq(Leaves)
  BY DEF StoreInv, ChainInv, ChainTypeOK, Chain
<1>2. Ascends(kv, Chain)
  BY DEF StoreInv
<1>3. Len(Chain) \in Nat /\ \A i \in 1 .. Len(Chain) : Chain[i] \in Leaves
  BY <1>1
<1>4. \A i \in 1 .. Len(Chain) :
        IsMap(kv[Chain[i]]) /\ DOMAIN kv[Chain[i]] \subseteq Nat
  BY <1>3, StoreAssumption DEF StoreInv, EntriesInv, IsMap, StoreAssumption
<1>5. Merged = [x \in DOMAIN Merged |-> Merged[x]]
  BY DEF Merged
<1>6. Merged = MergedOf(kv, Chain)
  BY MergedIsMergedOf
<1>7. /\ \A x : x \in DOMAIN MergedOf(kv, Chain)
                  <=> \E i \in 1 .. Len(Chain) : x \in DOMAIN kv[Chain[i]]
      /\ \A i \in 1 .. Len(Chain) : \A x \in DOMAIN kv[Chain[i]] :
           MergedOf(kv, Chain)[x] = kv[Chain[i]][x]
  BY <1>1, <1>2, <1>4, MergedOfAscending
<1> QED BY <1>1, <1>2, <1>3, <1>4, <1>5, <1>6, <1>7

\* The store after a step that left it safe.
LEMMA MergedAfter ==
  ASSUME StoreInv', ~unsafe',
         NEW g, g = [x \in DOMAIN g |-> g[x]],
         \A x : x \in DOMAIN g <=> \E i \in 1 .. Len(Chain') : x \in DOMAIN kv'[Chain'[i]],
         \A i \in 1 .. Len(Chain') : \A x \in DOMAIN kv'[Chain'[i]] :
           g[x] = kv'[Chain'[i]][x]
  PROVE  Merged' = g
<1> DEFINE f == kv'
           s == Chain'
<1>1. s \in Seq(Leaves)
  BY DEF StoreInv, ChainInv, ChainTypeOK, Chain, AllocTypeOK
<1>2. Ascends(f, s)
  BY DEF StoreInv
<1>3. \A i \in 1 .. Len(s) : DOMAIN f[s[i]] \subseteq Nat
  BY <1>1, StoreAssumption DEF StoreInv, EntriesInv, IsMap, StoreAssumption
<1>4. Merged' = MergedOf(f, s)
  BY MergedIsMergedOf
<1> HIDE DEF f, s
<1>5. MergedOf(f, s) = g
  BY <1>1, <1>2, <1>3, MergedOfIs DEF f, s
<1> QED BY <1>4, <1>5

\* A key is looked for in the one leaf that can hold it.
LEMMA KeyIsRouted ==
  ASSUME StoreInv, ~unsafe, mode = "open", fault = "none",
         NEW k \in Keys, NEW i \in Routes(k)
  PROVE  /\ i \in 1 .. Len(leaves)
         /\ \A j \in 1 .. Len(leaves) : j # i => k \notin DOMAIN kv[leaves[j]]
         /\ k \in DOMAIN Merged <=> k \in DOMAIN kv[leaves[i]]
         /\ k \in DOMAIN Merged => Merged[k] = kv[leaves[i]][k]
<1>1. /\ leaves \in Seq(Leaves) /\ Len(leaves) \in Nat /\ Chain = leaves
  BY OpenBasics
<1>2. /\ i \in 1 .. Len(leaves)
      /\ \A j \in 1 .. Len(leaves) : \A a \in DOMAIN kv[leaves[j]] :
           (j < i => a < k) /\ (i < j => k < a)
  BY <1>1, FitsBetween
<1>3. /\ \A x : x \in DOMAIN Merged
                  <=> \E j \in 1 .. Len(leaves) : x \in DOMAIN kv[leaves[j]]
      /\ \A j \in 1 .. Len(leaves) : \A x \in DOMAIN kv[leaves[j]] :
           Merged[x] = kv[leaves[j]][x]
  BY <1>1, SafeBasics
<1>4. k \in Nat
  BY StoreAssumption DEF StoreAssumption
<1>5. ASSUME NEW j \in 1 .. Len(leaves), j # i PROVE k \notin DOMAIN kv[leaves[j]]
  <2>1. j < i \/ i < j
    BY <1>2, <1>5
  <2>2. ~(k < k)
    BY <1>4
  <2> QED BY <1>2, <2>1, <2>2
<1> QED BY <1>2, <1>3, <1>5

\* g is made of m as f is made of e, by a change at k alone.
SameChange(k, e, f, m, g) ==
  /\ \A x : x # k => (x \in DOMAIN f <=> x \in DOMAIN e)
  /\ \A x \in DOMAIN f : x # k => f[x] = e[x]
  /\ \A x : x # k => (x \in DOMAIN g <=> x \in DOMAIN m)
  /\ \A x \in DOMAIN g : x # k => g[x] = m[x]
  /\ k \in DOMAIN g <=> k \in DOMAIN f
  /\ k \in DOMAIN g => g[k] = f[k]

\* One leaf's entries change for the one key: the store does.
LEMMA OneLeafMerged ==
  ASSUME StoreInv, StoreInv', ~unsafe, mode = "open", fault = "none", UNCHANGED vars,
         NEW k \in Keys, NEW i \in Routes(k),
         NEW f, kv' = [kv EXCEPT ![leaves[i]] = f],
         NEW g, g = [x \in DOMAIN g |-> g[x]],
         SameChange(k, kv[leaves[i]], f, Merged, g)
  PROVE  Merged' = g
<1> DEFINE s == leaves
<1>1. /\ s \in Seq(Leaves) /\ Len(s) \in Nat /\ Chain = s
      /\ \A j \in 1 .. Len(s) : s[j] \in Leaves
      /\ \A j, l \in 1 .. Len(s) : s[j] = s[l] => j = l
  BY OpenBasics
<1>2. /\ i \in 1 .. Len(s)
      /\ \A j \in 1 .. Len(s) : j # i => k \notin DOMAIN kv[s[j]]
  BY KeyIsRouted
<1>3. Chain' = s /\ ~unsafe'
  BY <1>1 DEF vars, chainVars, Chain
<1>4. /\ kv'[s[i]] = f
      /\ \A j \in 1 .. Len(s) : j # i => kv'[s[j]] = kv[s[j]]
  <2>1. kv = [p \in Leaves |-> kv[p]]
    BY DEF StoreInv, EntriesInv
  <2> QED BY <1>1, <1>2, <2>1
<1>5. /\ \A x : x \in DOMAIN Merged <=> \E j \in 1 .. Len(s) : x \in DOMAIN kv[s[j]]
      /\ \A j \in 1 .. Len(s) : \A x \in DOMAIN kv[s[j]] : Merged[x] = kv[s[j]][x]
  BY <1>1, SafeBasics
<1> HIDE DEF s
<1>6. /\ \A x : x # k => (x \in DOMAIN f <=> x \in DOMAIN kv[s[i]])
      /\ \A x \in DOMAIN f : x # k => f[x] = kv[s[i]][x]
      /\ \A x : x # k => (x \in DOMAIN g <=> x \in DOMAIN Merged)
      /\ \A x \in DOMAIN g : x # k => g[x] = Merged[x]
      /\ (k \in DOMAIN g <=> k \in DOMAIN f) /\ (k \in DOMAIN g => g[k] = f[k])
  BY DEF SameChange, s
<1>7. ASSUME NEW x PROVE x \in DOMAIN g <=> \E j \in 1 .. Len(s) : x \in DOMAIN kv'[s[j]]
  <2>1. CASE x = k
    BY <1>2, <1>4, <1>6, <2>1
  <2>2. CASE x # k
    <3>1. x \in DOMAIN g <=> \E j \in 1 .. Len(s) : x \in DOMAIN kv[s[j]]
      BY <1>5, <1>6, <2>2
    <3>2. \A j \in 1 .. Len(s) : x \in DOMAIN kv'[s[j]] <=> x \in DOMAIN kv[s[j]]
      <4> TAKE j \in 1 .. Len(s)
      <4>1. CASE j = i
        BY <1>4, <1>6, <2>2, <4>1
      <4>2. CASE j # i
        BY <1>4, <4>2
      <4> QED BY <4>1, <4>2
    <3> QED BY <3>1, <3>2
  <2> QED BY <2>1, <2>2
<1>8. ASSUME NEW j \in 1 .. Len(s), NEW x \in DOMAIN kv'[s[j]]
      PROVE  g[x] = kv'[s[j]][x]
  <2>1. x \in DOMAIN g
    BY <1>7
  <2>2. CASE x = k
    <3>1. j = i
      BY <1>2, <1>4, <1>8, <2>2
    <3> QED BY <1>4, <1>6, <2>1, <2>2, <3>1
  <2>3. CASE x # k
    <3>1. g[x] = Merged[x]
      BY <1>6, <2>1, <2>3
    <3>2. CASE j = i
      <4>1. x \in DOMAIN f /\ x \in DOMAIN kv[s[i]] /\ f[x] = kv[s[i]][x]
        BY <1>4, <1>8, <1>6, <2>3, <3>2
      <4> QED BY <1>2, <1>4, <1>5, <3>1, <3>2, <4>1
    <3>3. CASE j # i
      BY <1>4, <1>5, <1>8, <3>1, <3>3
    <3> QED BY <3>2, <3>3
  <2> QED BY <2>2, <2>3
<1> QED BY <1>3, <1>7, <1>8, MergedAfter
-----------------------------------------------------------------------------
\* Every operation on a safe store is the dictionary's.
LEMMA InsertStaysImplements ==
  ASSUME StoreInv, StoreInv', ~unsafe, NEW k \in Keys, NEW v \in Values, InsertStays(k, v)
  PROVE  Dictionary!Insert(k, v)
<1>1. PICK i \in Routes(k) :
        /\ mode = "open" /\ fault = "none" /\ UNCHANGED vars
        /\ LeafInsert(kv[leaves[i]], k, v).new = <<>>
        /\ kv' = [kv EXCEPT ![leaves[i]] = LeafInsert(kv[leaves[i]], k, v).node.kv]
        /\ Returns("insert", k, NoValue)
  BY DEF InsertStays, Ready
<1> DEFINE f == WithEntry(kv[leaves[i]], k, v)
           g == WithEntry(Merged, k, v)
<1>2. kv' = [kv EXCEPT ![leaves[i]] = f]
  BY <1>1, InsertStaysResult
<1>3. /\ DOMAIN f = DOMAIN kv[leaves[i]] \cup {k} /\ f[k] = v
      /\ \A x \in DOMAIN kv[leaves[i]] : x # k => f[x] = kv[leaves[i]][x]
  BY DEF WithEntry
<1>4. /\ g = [x \in DOMAIN g |-> g[x]]
      /\ DOMAIN g = DOMAIN Merged \cup {k} /\ g[k] = v
      /\ \A x \in DOMAIN Merged : x # k => g[x] = Merged[x]
  BY DEF WithEntry
<1> HIDE DEF f, g
<1>5. Merged' = g
  <2>1. SameChange(k, kv[leaves[i]], f, Merged, g)
    BY <1>3, <1>4 DEF SameChange
  <2> QED BY <1>1, <1>2, <1>4, <2>1, OneLeafMerged
<1> QED BY <1>1, <1>5 DEF g, WithEntry, Returns, Dictionary!Insert, Dictionary!WithEntry,
                         Dictionary!Returns

LEMMA UpdateImplements ==
  ASSUME StoreInv, StoreInv', ~unsafe, NEW k \in Keys, NEW v \in Values, UpdateKey(k, v)
  PROVE  Dictionary!Update(k, v)
<1>1. PICK i \in Routes(k) :
        /\ mode = "open" /\ fault = "none" /\ UNCHANGED vars
        /\ kv' = [kv EXCEPT ![leaves[i]] = LeafUpdate(kv[leaves[i]], k, v).node.kv]
        /\ Returns("update", k, LeafUpdate(kv[leaves[i]], k, v).found)
  BY DEF UpdateKey, Ready
<1> DEFINE e == kv[leaves[i]]
           f == IF k \in DOMAIN e THEN [e EXCEPT ![k] = v] ELSE e
           g == IF k \in DOMAIN Merged THEN [Merged EXCEPT ![k] = v] ELSE Merged
<1>2. /\ kv' = [kv EXCEPT ![leaves[i]] = f]
      /\ Returns("update", k, k \in DOMAIN e)
  BY <1>1 DEF LeafUpdate, Leaf
<1>3. k \in DOMAIN Merged <=> k \in DOMAIN e
  BY <1>1, KeyIsRouted
<1>4. DOMAIN f = DOMAIN e /\ (k \in DOMAIN e => f[k] = v)
      /\ \A x \in DOMAIN e : x # k => f[x] = e[x]
  <2> HIDE DEF e
  <2> QED OBVIOUS
<1>5. Merged = [x \in DOMAIN Merged |-> Merged[x]]
  BY SafeBasics
<1>6. /\ g = [x \in DOMAIN g |-> g[x]]
      /\ DOMAIN g = DOMAIN Merged /\ (k \in DOMAIN Merged => g[k] = v)
      /\ \A x \in DOMAIN Merged : x # k => g[x] = Merged[x]
  BY <1>5
<1> HIDE DEF f, g
<1>7. Merged' = g
  <2>1. SameChange(k, kv[leaves[i]], f, Merged, g)
    BY <1>3, <1>4, <1>6 DEF SameChange
  <2> QED BY <1>1, <1>2, <1>6, <2>1, OneLeafMerged
<1> DEFINE found == k \in DOMAIN Merged
<1>8. /\ found \in BOOLEAN
      /\ Dictionary!Returns("update", k, found)
  <2>1. (k \in DOMAIN e) = found
    BY <1>3
  <2>2. Returns("update", k, found)
    BY <1>2, <2>1
  <2> QED BY <2>2 DEF Returns, Dictionary!Returns
<1>9. Merged' = IF found THEN [Merged EXCEPT ![k] = v] ELSE Merged
  BY <1>7 DEF g
<1> QED BY <1>8, <1>9 DEF Dictionary!Update

LEMMA RemoveStaysImplements ==
  ASSUME StoreInv, StoreInv', ~unsafe, NEW k \in Keys, RemoveStays(k)
  PROVE  Dictionary!Remove(k)
<1>1. PICK i \in Routes(k) :
        /\ mode = "open" /\ fault = "none" /\ UNCHANGED vars
        /\ kv' = [kv EXCEPT ![leaves[i]] = LeafRemove(kv[leaves[i]], k).node.kv]
        /\ Returns("remove", k, LeafRemove(kv[leaves[i]], k).removed)
  BY DEF RemoveStays, Ready
<1> DEFINE e == kv[leaves[i]]
           f == PartOf(e, DOMAIN e \ {k})
           g == [x \in DOMAIN Merged \ {k} |-> Merged[x]]
<1>2. /\ kv' = [kv EXCEPT ![leaves[i]] = f]
      /\ Returns("remove", k, k \in DOMAIN e)
  BY <1>1 DEF LeafRemove, Leaf
<1>3. k \in DOMAIN Merged <=> k \in DOMAIN e
  BY <1>1, KeyIsRouted
<1>4. DOMAIN f = DOMAIN e \ {k} /\ \A x \in DOMAIN e \ {k} : f[x] = e[x]
  <2> HIDE DEF e
  <2> QED BY DEF PartOf
<1>5. /\ g = [x \in DOMAIN g |-> g[x]]
      /\ DOMAIN g = DOMAIN Merged \ {k}
      /\ \A x \in DOMAIN Merged : x # k => g[x] = Merged[x]
  OBVIOUS
<1> HIDE DEF f, g
<1>6. Merged' = g
  <2>1. SameChange(k, kv[leaves[i]], f, Merged, g)
    BY <1>4, <1>5 DEF SameChange
  <2> QED BY <1>1, <1>2, <1>5, <2>1, OneLeafMerged
<1> DEFINE found == k \in DOMAIN Merged
<1>7. /\ found \in BOOLEAN
      /\ Dictionary!Returns("remove", k, found)
  <2>1. (k \in DOMAIN e) = found
    BY <1>3
  <2>2. Returns("remove", k, found)
    BY <1>2, <2>1
  <2> QED BY <2>2 DEF Returns, Dictionary!Returns
<1>8. Merged' = [x \in DOMAIN Merged \ {k} |-> Merged[x]]
  BY <1>6 DEF g
<1> QED BY <1>7, <1>8 DEF Dictionary!Remove

LEMMA FindImplements ==
  ASSUME StoreInv, ~unsafe, NEW k \in Keys, FindKey(k)
  PROVE  Dictionary!Find(k)
<1>1. PICK i \in Routes(k) :
        /\ mode = "open" /\ fault = "none" /\ UNCHANGED <<vars, kv>>
        /\ Returns("find", k, LeafFind(kv[leaves[i]], k))
  BY DEF FindKey, Ready
<1> DEFINE out == IF k \in DOMAIN Merged THEN Merged[k] ELSE NoValue
<1>2. /\ i \in 1 .. Len(leaves)
      /\ k \in DOMAIN Merged <=> k \in DOMAIN kv[leaves[i]]
      /\ k \in DOMAIN Merged => Merged[k] = kv[leaves[i]][k]
  BY <1>1, KeyIsRouted
<1>3. IsMap(kv[leaves[i]])
  BY <1>1, <1>2, OpenBasics
<1>4. out \in Values \cup {NoValue} /\ LeafFind(kv[leaves[i]], k) = out
  BY <1>2, <1>3 DEF IsMap, LeafFind
<1>5. Dictionary!Returns("find", k, out)
  <2>1. Returns("find", k, out)
    BY <1>1, <1>4
  <2> QED BY <2>1 DEF Returns, Dictionary!Returns
<1>6. Merged' = Merged
  BY <1>1 DEF vars, chainVars, Merged, Chain, KeysIn
<1> QED BY <1>4, <1>5, <1>6 DEF Dictionary!Find

LEMMA NothingThereImplements ==
  ASSUME StoreInv, ~unsafe, NEW k \in Keys, NothingThere(k)
  PROVE  \/ Dictionary!Remove(k) \/ Dictionary!Find(k)
         \/ \A v \in Values : Dictionary!Update(k, v)
<1>1. mode = "open" /\ fault = "none" /\ leaves = <<>> /\ UNCHANGED <<vars, kv>>
  BY DEF NothingThere, Ready
<1>2. Len(Chain) = 0
  BY <1>1 DEF Chain
<1>3. DOMAIN Merged = {} /\ k \notin DOMAIN Merged
  <2>1. \A x : x \in DOMAIN Merged <=> \E i \in 1 .. Len(Chain) : x \in DOMAIN kv[Chain[i]]
    BY SafeBasics
  <2>2. 1 .. Len(Chain) = {}
    BY <1>2
  <2> QED BY <2>1, <2>2
<1>4. Merged' = Merged
  BY <1>1 DEF vars, chainVars, Merged, Chain, KeysIn
<1>5. CASE Returns("remove", k, FALSE)
  <2>1. Merged = [x \in DOMAIN Merged |-> Merged[x]]
    BY DEF Merged
  <2>2. DOMAIN Merged \ {k} = DOMAIN Merged
    BY <1>3
  <2>3. Merged' = [x \in DOMAIN Merged \ {k} |-> Merged[x]]
    BY <1>4, <2>1, <2>2
  <2>4. FALSE = (k \in DOMAIN Merged) /\ Dictionary!Returns("remove", k, FALSE)
    BY <1>3, <1>5 DEF Returns, Dictionary!Returns
  <2>5. Dictionary!Remove(k)
    BY <2>3, <2>4 DEF Dictionary!Remove
  <2> QED BY <2>5
<1>6. CASE Returns("update", k, FALSE)
  <2>1. FALSE = (k \in DOMAIN Merged) /\ Dictionary!Returns("update", k, FALSE)
    BY <1>3, <1>6 DEF Returns, Dictionary!Returns
  <2>2. ASSUME NEW v \in Values PROVE Dictionary!Update(k, v)
    BY <1>4, <2>1 DEF Dictionary!Update
  <2> QED BY <2>2
<1>7. CASE Returns("find", k, NoValue)
  <2>1. Dictionary!Find(k)
    BY <1>3, <1>4, <1>7 DEF Returns, Dictionary!Returns, Dictionary!Find
  <2> QED BY <2>1
<1> QED BY <1>5, <1>6, <1>7 DEF NothingThere

LEMMA InsertFirstImplements ==
  ASSUME StoreInv, StoreInv', ~unsafe, ~unsafe',
         NEW k \in Keys, NEW v \in Values, InsertFirst(k, v)
  PROVE  Dictionary!Insert(k, v)
<1>1. PICK p \in Leaves : /\ FirstInsert(p)
                          /\ kv' = [kv EXCEPT ![p] = WithEntry(kv[p], k, v)]
                          /\ Returns("insert", k, NoValue)
  BY DEF InsertFirst
<1>2. /\ mode = "open" /\ mode' = "open" /\ leaves = <<>> /\ Len(Chain) = 0
      /\ Chain' = <<p>> /\ Len(Chain') = 1 /\ Chain'[1] = p /\ GetLeaf(p)
  BY <1>1 DEF FirstInsert, Chain
<1>3. kv[p] = <<>>
  <2>1. p \notin used
    BY <1>2, GetLeafSound DEF StoreInv, ChainInv, AllocInv
  <2> QED BY <2>1 DEF StoreInv, EntriesInv, FreeLeavesEmpty
<1> DEFINE g == WithEntry(Merged, k, v)
<1>4. DOMAIN Merged = {}
  <2>1. \A x : x \in DOMAIN Merged <=> \E i \in 1 .. Len(Chain) : x \in DOMAIN kv[Chain[i]]
    BY SafeBasics
  <2>2. 1 .. Len(Chain) = {}
    BY <1>2
  <2> QED BY <2>1, <2>2
<1>5. /\ g = [x \in DOMAIN g |-> g[x]]
      /\ DOMAIN g = {k} /\ g[k] = v
  BY <1>4 DEF WithEntry
<1>6. DOMAIN kv'[p] = {k} /\ kv'[p][k] = v
  <2>1. kv'[p] = WithEntry(<<>>, k, v)
    BY <1>1, <1>3 DEF StoreInv, EntriesInv
  <2>2. DOMAIN <<>> = {}
    OBVIOUS
  <2> QED BY <2>1, <2>2 DEF WithEntry
<1> HIDE DEF g
<1>7. Merged' = g
  <2>1. \A i \in 1 .. Len(Chain') : i = 1
    BY <1>2
  <2>2. \A x : x \in DOMAIN g <=> \E i \in 1 .. Len(Chain') : x \in DOMAIN kv'[Chain'[i]]
    BY <1>2, <1>5, <1>6, <2>1
  <2>3. \A i \in 1 .. Len(Chain') : \A x \in DOMAIN kv'[Chain'[i]] :
          g[x] = kv'[Chain'[i]][x]
    BY <1>2, <1>5, <1>6, <2>1
  <2> QED BY <1>5, <2>2, <2>3, MergedAfter
<1> QED BY <1>1, <1>7 DEF g, WithEntry, Returns, Dictionary!Insert, Dictionary!WithEntry,
                         Dictionary!Returns

\* The halves and the new entry hold what the leaf did, and it.
LEMMA InsertSplitImplements ==
  ASSUME StoreInv, StoreInv', ~unsafe, NEW k \in Keys, NEW v \in Values, InsertSplit(k, v)
  PROVE  Dictionary!Insert(k, v)
<1>1. PICK i \in Routes(k), q \in Leaves :
        /\ LeafInsert(kv[leaves[i]], k, v).new # <<>>
        /\ SplitLeaf(i, q)
        /\ kv' = [kv EXCEPT ![leaves[i]] = LeafInsert(kv[leaves[i]], k, v).node.kv,
                            ![q] = LeafInsert(kv[leaves[i]], k, v).new[1].node.kv]
        /\ Returns("insert", k, NoValue)
  BY DEF InsertSplit
<1> DEFINE s == leaves
           e == kv[leaves[i]]
           n == Len(leaves)
           g == WithEntry(Merged, k, v)
<1>2. mode = "open" /\ fault = "none" /\ mode' = "open" /\ ~unsafe'
      /\ q \notin used /\ leaves' = InsertAt(leaves, i + 1, q)
  BY <1>1, GetLeafSound DEF SplitLeaf, StoreInv, ChainInv, AllocInv
<1>3. /\ s \in Seq(Leaves) /\ n \in Nat /\ Chain = s /\ Chain' = leaves'
      /\ \A j \in 1 .. n : s[j] \in Leaves /\ s[j] \in used
      /\ \A j, l \in 1 .. n : s[j] = s[l] => j = l
      /\ i \in 1 .. n /\ IsMap(e)
      /\ \A j \in 1 .. n : j # i => k \notin DOMAIN kv[s[j]]
  BY <1>2, OpenBasics, KeyIsRouted DEF Chain
<1>4. /\ Len(leaves') = n + 1
      /\ \A j \in 1 .. i : leaves'[j] = s[j]
      /\ leaves'[i + 1] = q
      /\ \A j \in (i + 2) .. (n + 1) : leaves'[j] = s[j - 1]
  BY <1>2, <1>3, PlacesAfterSplit
<1>5. PICK lo, hi :
           /\ LeafInsert(e, k, v).node.kv = lo
           /\ LeafInsert(e, k, v).new[1].node.kv = hi
           /\ DOMAIN lo \cup DOMAIN hi = DOMAIN e \cup {k}
           /\ \A a \in DOMAIN lo : lo[a] = WithEntry(e, k, v)[a]
           /\ \A b \in DOMAIN hi : hi[b] = WithEntry(e, k, v)[b]
  <2>1. LeafInsert(e, k, v).new # <<>> /\ IsMap(e)
    BY <1>1, <1>3
  <2> HIDE DEF e
  <2> QED BY <2>1, InsertSplitResult
<1>6. kv' = [kv EXCEPT ![s[i]] = lo, ![q] = hi]
  BY <1>1, <1>5
<1>7. kv = [p \in Leaves |-> kv[p]]
  BY DEF StoreInv, EntriesInv
<1>8. /\ kv'[s[i]] = lo /\ kv'[q] = hi
      /\ \A p \in Leaves : p # s[i] /\ p # q => kv'[p] = kv[p]
  BY <1>2, <1>3, <1>6, <1>7
<1>9. /\ \A x : x \in DOMAIN Merged <=> \E j \in 1 .. n : x \in DOMAIN kv[s[j]]
      /\ \A j \in 1 .. n : \A x \in DOMAIN kv[s[j]] : Merged[x] = kv[s[j]][x]
  BY <1>3, SafeBasics
<1>10. /\ g = [x \in DOMAIN g |-> g[x]]
       /\ DOMAIN g = DOMAIN Merged \cup {k} /\ g[k] = v
       /\ \A x \in DOMAIN Merged : x # k => g[x] = Merged[x]
  BY DEF WithEntry
<1>11. /\ WithEntry(e, k, v)[k] = v
       /\ \A x \in DOMAIN e : x # k => WithEntry(e, k, v)[x] = e[x]
  BY DEF WithEntry
<1> HIDE DEF s, e, n, g
\* Which leaf of the new chain holds what.
<1>12. /\ leaves'[i] = s[i] /\ leaves'[i + 1] = q /\ i \in 1 .. n + 1 /\ i + 1 \in 1 .. n + 1
       /\ \A j \in 1 .. n : j # i => \E l \in 1 .. n + 1 :
            leaves'[l] = s[j] /\ kv'[leaves'[l]] = kv[s[j]]
       /\ \A l \in 1 .. n + 1 : l # i /\ l # i + 1 => \E j \in 1 .. n :
            j # i /\ kv'[leaves'[l]] = kv[s[j]]
  <2>1. \A j \in 1 .. n : j # i => kv'[s[j]] = kv[s[j]]
    <3> TAKE j \in 1 .. n
    <3> QED BY <1>2, <1>3, <1>8
  <2>2. ASSUME NEW j \in 1 .. n, j # i
        PROVE  \E l \in 1 .. n + 1 : leaves'[l] = s[j] /\ kv'[leaves'[l]] = kv[s[j]]
    <3>1. CASE j < i
      <4>1. j \in 1 .. n + 1 /\ leaves'[j] = s[j]
        BY <1>3, <1>4, <3>1
      <4> QED BY <2>1, <2>2, <4>1
    <3>2. CASE i < j
      <4>1. j + 1 \in 1 .. n + 1 /\ leaves'[j + 1] = s[j]
        BY <1>3, <1>4, <3>2
      <4> QED BY <2>1, <2>2, <4>1
    <3> QED BY <1>3, <2>2, <3>1, <3>2
  <2>3. ASSUME NEW l \in 1 .. n + 1, l # i, l # i + 1
        PROVE  \E j \in 1 .. n : j # i /\ kv'[leaves'[l]] = kv[s[j]]
    <3>1. CASE l < i
      <4>1. l \in 1 .. n /\ leaves'[l] = s[l]
        BY <1>3, <1>4, <3>1
      <4> QED BY <2>1, <2>3, <4>1
    <3>2. CASE i + 1 < l
      <4>1. l - 1 \in 1 .. n /\ l - 1 # i /\ leaves'[l] = s[l - 1]
        BY <1>3, <1>4, <3>2
      <4> QED BY <2>1, <4>1
    <3> QED BY <1>3, <2>3, <3>1, <3>2
  <2> QED BY <1>3, <1>4, <2>2, <2>3
<1>13. ASSUME NEW x, x \in DOMAIN g
       PROVE  \E l \in 1 .. n + 1 : x \in DOMAIN kv'[leaves'[l]]
  <2>1. CASE x \in DOMAIN e \cup {k}
    <3>1. x \in DOMAIN lo \/ x \in DOMAIN hi
      BY <1>5, <2>1
    <3> QED BY <1>8, <1>12, <3>1
  <2>2. CASE x \notin DOMAIN e \cup {k}
    <3>1. PICK j \in 1 .. n : x \in DOMAIN kv[s[j]]
      BY <1>9, <1>10, <1>13, <2>2
    <3>2. j # i
      BY <2>2, <3>1 DEF e, s
    <3> QED BY <1>12, <3>1, <3>2
  <2> QED BY <2>1, <2>2
<1>14. ASSUME NEW l \in 1 .. n + 1, NEW x \in DOMAIN kv'[leaves'[l]]
       PROVE  x \in DOMAIN g /\ g[x] = kv'[leaves'[l]][x]
  <2>1. CASE l = i \/ l = i + 1
    <3>1. x \in DOMAIN e \cup {k} /\ kv'[leaves'[l]][x] = WithEntry(e, k, v)[x]
      BY <1>5, <1>8, <1>12, <1>14, <2>1
    <3>2. CASE x = k
      BY <1>10, <1>11, <3>1, <3>2
    <3>3. CASE x # k
      <4>1. x \in DOMAIN kv[s[i]] /\ kv'[leaves'[l]][x] = kv[s[i]][x]
        BY <1>11, <3>1, <3>3 DEF e, s
      <4> QED BY <1>3, <1>9, <1>10, <3>3, <4>1
    <3> QED BY <3>2, <3>3
  <2>2. CASE l # i /\ l # i + 1
    <3>1. PICK j \in 1 .. n : j # i /\ kv'[leaves'[l]] = kv[s[j]]
      BY <1>12, <2>2
    <3>2. x \in DOMAIN kv[s[j]] /\ x # k
      BY <1>3, <1>14, <3>1
    <3> QED BY <1>9, <1>10, <3>1, <3>2
  <2> QED BY <2>1, <2>2
<1>15. Merged' = g
  <2>1. Len(Chain') = n + 1 /\ Chain' = leaves'
    BY <1>3, <1>4
  <2>2. \A x : x \in DOMAIN g <=> \E l \in 1 .. Len(Chain') : x \in DOMAIN kv'[Chain'[l]]
    BY <1>13, <1>14, <2>1
  <2>3. \A l \in 1 .. Len(Chain') : \A x \in DOMAIN kv'[Chain'[l]] :
          g[x] = kv'[Chain'[l]][x]
    BY <1>14, <2>1
  <2> QED BY <1>2, <1>10, <2>2, <2>3, MergedAfter
<1> QED BY <1>1, <1>15 DEF g, WithEntry, Returns, Dictionary!Insert, Dictionary!WithEntry,
                          Dictionary!Returns

\* What is taken out of the store with a leaf is its last entry.
LEMMA RemoveLastImplements ==
  ASSUME StoreInv, StoreInv', ~unsafe, ~unsafe', NEW k \in Keys, RemoveLast(k)
  PROVE  Dictionary!Remove(k)
<1>1. PICK i \in Routes(k) :
        /\ LeafRemove(kv[leaves[i]], k).gone
        /\ EmptyLeaf(i)
        /\ IF fault' = "none"
           THEN /\ kv' = [kv EXCEPT ![leaves[i]] = LeafRemove(kv[leaves[i]], k).node.kv]
                /\ Returns("remove", k, TRUE)
           ELSE UNCHANGED <<kv, ret>>
  BY DEF RemoveLast
<1> DEFINE s == leaves
           n == Len(leaves)
           p == leaves[i]
           g == [x \in DOMAIN Merged \ {k} |-> Merged[x]]
<1>2. /\ mode = "open" /\ fault = "none" /\ mode' = "open"
      /\ fault' = "none" /\ leaves' = RemoveAt(s, i)
  <2>1. mode = "open" /\ fault = "none" /\ mode' = "open"
    BY <1>1 DEF EmptyLeaf
  <2>2. fault' # "dangling"
    BY DEF StoreInv, ChainInv, SafeInv
  <2> QED BY <1>1, <2>1, <2>2 DEF EmptyLeaf
<1>3. /\ s \in Seq(Leaves) /\ n \in Nat /\ Chain = s /\ Chain' = leaves'
      /\ \A j \in 1 .. n : s[j] \in Leaves
      /\ \A j, l \in 1 .. n : s[j] = s[l] => j = l
      /\ i \in 1 .. n /\ DOMAIN kv[p] = {k}
      /\ \A j \in 1 .. n : j # i => k \notin DOMAIN kv[s[j]]
  <2>1. DOMAIN kv[p] = {k}
    BY <1>1 DEF LeafRemove
  <2> QED BY <1>2, <2>1, OpenBasics, KeyIsRouted DEF Chain
<1>4. \A q \in Leaves : q # p => kv'[q] = kv[q]
  BY <1>1, <1>2 DEF StoreInv, EntriesInv
<1>5. /\ \A x : x \in DOMAIN Merged <=> \E j \in 1 .. n : x \in DOMAIN kv[s[j]]
      /\ \A j \in 1 .. n : \A x \in DOMAIN kv[s[j]] : Merged[x] = kv[s[j]][x]
  BY <1>3, SafeBasics
<1>6. /\ g = [x \in DOMAIN g |-> g[x]]
      /\ DOMAIN g = DOMAIN Merged \ {k}
      /\ \A x \in DOMAIN Merged : x # k => g[x] = Merged[x]
  OBVIOUS
<1> HIDE DEF g
<1>7. /\ Len(leaves') = n - 1
      /\ \A j \in 1 .. (i - 1) : leaves'[j] = s[j]
      /\ \A j \in i .. (n - 1) : leaves'[j] = s[j + 1]
  <2>1. s \in Seq(Leaves) /\ i \in 1 .. Len(s)
    BY <1>3
  <2> HIDE DEF s
  <2>2. /\ Len(RemoveAt(s, i)) = Len(s) - 1
        /\ \A j \in 1 .. (i - 1) : RemoveAt(s, i)[j] = s[j]
        /\ \A j \in i .. (Len(s) - 1) : RemoveAt(s, i)[j] = s[j + 1]
    BY <2>1, RemoveAtProperties
  <2> QED BY <1>2, <2>2 DEF s
<1>8. \A j \in 1 .. n : j # i => kv'[s[j]] = kv[s[j]]
  <2> TAKE j \in 1 .. n
  <2> QED BY <1>3, <1>4
<1> HIDE DEF s, n, p
\* The leaves that are left, with the entries they had.
<1>9. ASSUME NEW j \in 1 .. n, j # i
      PROVE  \E l \in 1 .. n - 1 : kv'[leaves'[l]] = kv[s[j]]
  <2>1. CASE j < i
    <3>1. j \in 1 .. n - 1 /\ leaves'[j] = s[j]
      BY <1>3, <1>7, <2>1
    <3> QED BY <1>8, <1>9, <3>1
  <2>2. CASE i < j
    <3>1. j - 1 \in 1 .. n - 1 /\ leaves'[j - 1] = s[j]
      BY <1>3, <1>7, <2>2
    <3> QED BY <1>8, <1>9, <3>1
  <2> QED BY <1>3, <1>9, <2>1, <2>2
<1>10. ASSUME NEW l \in 1 .. n - 1
       PROVE  \E j \in 1 .. n : j # i /\ kv'[leaves'[l]] = kv[s[j]]
  <2>1. CASE l < i
    <3>1. l \in 1 .. n /\ l # i /\ leaves'[l] = s[l]
      BY <1>3, <1>7, <2>1
    <3> QED BY <1>8, <3>1
  <2>2. CASE i <= l
    <3>1. l + 1 \in 1 .. n /\ l + 1 # i /\ leaves'[l] = s[l + 1]
      BY <1>3, <1>7, <2>2
    <3> QED BY <1>8, <3>1
  <2> QED BY <1>3, <2>1, <2>2
<1>11. ASSUME NEW x, x \in DOMAIN g PROVE \E l \in 1 .. n - 1 : x \in DOMAIN kv'[leaves'[l]]
  <2>1. PICK j \in 1 .. n : x \in DOMAIN kv[s[j]]
    BY <1>5, <1>6, <1>11
  <2>2. j # i
    BY <1>3, <1>6, <1>11, <2>1 DEF p, s
  <2>3. PICK l \in 1 .. n - 1 : kv'[leaves'[l]] = kv[s[j]]
    BY <1>9, <2>2
  <2> QED BY <2>1, <2>3
<1>12. ASSUME NEW l \in 1 .. n - 1, NEW x \in DOMAIN kv'[leaves'[l]]
       PROVE  x \in DOMAIN g /\ g[x] = kv'[leaves'[l]][x]
  <2>1. PICK j \in 1 .. n : j # i /\ kv'[leaves'[l]] = kv[s[j]]
    BY <1>10
  <2>2. x \in DOMAIN kv[s[j]] /\ x # k
    BY <1>3, <1>12, <2>1
  <2> QED BY <1>5, <1>6, <2>1, <2>2
<1>13. Merged' = g
  <2>1. Len(Chain') = n - 1 /\ Chain' = leaves'
    BY <1>3, <1>7
  <2>2. \A x : x \in DOMAIN g <=> \E l \in 1 .. Len(Chain') : x \in DOMAIN kv'[Chain'[l]]
    BY <1>11, <1>12, <2>1
  <2>3. \A l \in 1 .. Len(Chain') : \A x \in DOMAIN kv'[Chain'[l]] :
          g[x] = kv'[Chain'[l]][x]
    BY <1>12, <2>1
  <2> QED BY <1>6, <2>2, <2>3, MergedAfter
<1>14. Dictionary!Returns("remove", k, TRUE)
  BY <1>1, <1>2 DEF Returns, Dictionary!Returns
<1>15. TRUE = (k \in DOMAIN Merged)
  BY <1>3, <1>5 DEF p, s
<1> QED BY <1>13, <1>14, <1>15 DEF g, Dictionary!Remove

\* The entries are along the same leaves: the store has not changed.
LEMMA MergedCarriedOver ==
  ASSUME kv' = kv, Chain' = Chain
  PROVE  Merged' = Merged
<1>1. Merged = MergedOf(kv, Chain) /\ Merged' = MergedOf(kv', Chain')
  BY MergedIsMergedOf
<1> QED BY <1>1

\* Nothing makes a store safe again.
LEMMA UnsafeStays == ASSUME [ChainNext]_vars, unsafe PROVE unsafe'
BY DEF ChainNext, vars, chainVars, FirstInsert, SplitLeaf, AllocationFails, EmptyLeaf,
       MarkUnsafe, Close, Restart, OpenEmpty, LoadFirst, LoadNext, LoadDone

LEMMA StoreStepImplements ==
  ASSUME StoreInv, StoreInv', [StoreNext]_storeVars, ~unsafe'
  PROVE  [Dictionary!Next]_<<Merged, ret>>
<1>1. [ChainNext]_vars /\ ~unsafe
  BY StoreStepsChain, UnsafeStays
<1>2. ASSUME NEW k \in Keys, NEW v \in Values,
             InsertFirst(k, v) \/ InsertStays(k, v) \/ InsertSplit(k, v)
      PROVE  Dictionary!Next
  <2>1. Dictionary!Insert(k, v)
    BY <1>1, <1>2, InsertFirstImplements, InsertStaysImplements, InsertSplitImplements
  <2> QED BY <2>1 DEF Dictionary!Next
<1>3. ASSUME NEW k \in Keys, NEW v \in Values, UpdateKey(k, v) PROVE Dictionary!Next
  <2>1. Dictionary!Update(k, v)
    BY <1>1, <1>3, UpdateImplements
  <2> QED BY <2>1 DEF Dictionary!Next
<1>4. ASSUME NEW k \in Keys, RemoveStays(k) \/ RemoveLast(k) PROVE Dictionary!Next
  <2>1. Dictionary!Remove(k)
    BY <1>1, <1>4, RemoveStaysImplements, RemoveLastImplements
  <2> QED BY <2>1 DEF Dictionary!Next
<1>5. ASSUME NEW k \in Keys, FindKey(k) PROVE Dictionary!Next
  <2>1. Dictionary!Find(k)
    BY <1>1, <1>5, FindImplements
  <2> QED BY <2>1 DEF Dictionary!Next
<1>6. ASSUME NEW k \in Keys, NothingThere(k) PROVE Dictionary!Next
  <2>1. \/ Dictionary!Remove(k) \/ Dictionary!Find(k)
        \/ \A v \in Values : Dictionary!Update(k, v)
    BY <1>1, <1>6, NothingThereImplements
  <2>2. PICK v \in Values : TRUE
    BY StoreAssumption DEF StoreAssumption
  <2> QED BY <2>1, <2>2 DEF Dictionary!Next
<1>7. CASE InsertFails
  <2>1. kv' = kv /\ ret' = ret /\ Chain' = Chain
    BY <1>7 DEF InsertFails, AllocationFails, Chain
  <2> QED BY <2>1, MergedCarriedOver
<1>8. CASE Load
  <2>1. kv' = kv /\ ret' = ret /\ Chain' = Chain
    BY <1>1, <1>8, ChainOfLoad DEF Load
  <2> QED BY <2>1, MergedCarriedOver
<1>9. CASE Opened
  <2>1. kv' = kv /\ Chain' = Chain /\ Returns("open", NoValue, NoValue)
    BY <1>1, <1>9, ChainOfLoad DEF Opened
  <2>2. Dictionary!Reopen
    BY <2>1, MergedCarriedOver DEF Dictionary!Reopen, Dictionary!Returns, Returns
  <2> QED BY <2>2 DEF Dictionary!Next
<1>10. CASE UNCHANGED storeVars
  <2>1. kv' = kv /\ ret' = ret /\ Chain' = Chain
    BY <1>10 DEF storeVars, vars, chainVars, Chain
  <2> QED BY <2>1, MergedCarriedOver
<1> QED BY <1>2, <1>3, <1>4, <1>5, <1>6, <1>7, <1>8, <1>9, <1>10 DEF StoreNext

\* Across splits, emptied leaves that are used again, processes that end and
\* allocators that forget, the leaves along the chain are the dictionary that
\* the callers were promised, up to the first unsafe step.
THEOREM StoreIsDictionary == StoreSpec => KeepsDictionary
<1>1. StoreInit => Dictionary!Init
  <2> SUFFICES ASSUME StoreInit PROVE Dictionary!Init
    OBVIOUS
  <2>1. Chain = <<>> /\ DOMAIN Chain = {}
    BY DEF StoreInit, ChainInit, Chain
  <2>2. DOMAIN Merged = {}
    BY <2>1 DEF Merged, KeysIn
  <2>3. Merged = [x \in DOMAIN Merged |-> Merged[x]]
    BY DEF Merged
  <2>4. {} \in SUBSET Keys /\ Merged \in [{} -> Values]
    BY <2>2, <2>3
  <2> QED BY <2>4 DEF StoreInit, Dictionary!Init
<1>2. StoreInv /\ StoreInv' /\ [StoreNext]_storeVars
        => [Dictionary!Next \/ unsafe']_<<Merged, ret>>
  BY StoreStepImplements
<1> QED BY <1>1, <1>2, StoreSound, PTL DEF StoreSpec, KeepsDictionary
=============================================================================
