---------------------------- MODULE LeafNodeProofs ----------------------------
(***************************************************************************)
(* Theorems about the slots of a leaf, for leaves of any degree, any keys, *)
(* values and fingerprints, and any order findSplitKey may leave.          *)
(***************************************************************************)
EXTENDS LeafNode, BasicLemmas

Entry == [key : Keys \cup {0}, val : Values \cup {0}]

\* A leaf between two calls: its count is right, its entries are sound, and a
\* slot is free.
SlotInv(l) ==
  /\ l \in Leafs
  /\ l.n = Cardinality(l.bits)
  /\ l.n <= 2 * LeafDegree - 1
  /\ \A s \in l.bits :
       /\ l.kv[s].key \in Keys /\ l.fp[s] = Hash[l.kv[s].key]
       /\ \A t \in l.bits : l.kv[t].key = l.kv[s].key => t = s

\* A leaf that was freed has no entry left, so that none comes back with it.
LeafInv ==
  /\ live \in BOOLEAN
  /\ \A l \in Leaves : SlotInv(l)
  /\ ~live => leaf.bits = {} /\ new = <<>>

Lacks(l, k) == \A s \in l.bits : l.kv[s].key # k
-----------------------------------------------------------------------------
\* The fields of a leaf, with their types.
LEMMA LeafFields ==
  ASSUME NEW l \in Leafs
  PROVE  /\ l.bits \subseteq Slots /\ l.n \in Nat
         /\ l.kv \in [Slots -> Entry] /\ l.fp \in [Slots -> {0} \cup {Hash[k] : k \in Keys}]
         /\ l = [bits |-> l.bits, kv |-> l.kv, fp |-> l.fp, n |-> l.n]
         /\ IsFiniteSet(l.bits) /\ Cardinality(l.bits) \in Nat
<1>1. LeafDegree \in Nat /\ 2 * LeafDegree \in Nat
  BY LeafAssumption DEF LeafAssumption
<1>2. l.n \in 0 .. 2 * LeafDegree
  BY DEF Leafs
<1>3. l.n \in Nat
  BY <1>1, <1>2
<1>4. /\ l.bits \subseteq Slots
      /\ l.kv \in [Slots -> Entry] /\ l.fp \in [Slots -> {0} \cup {Hash[k] : k \in Keys}]
      /\ l = [bits |-> l.bits, kv |-> l.kv, fp |-> l.fp, n |-> l.n]
  BY DEF Leafs, Entry
<1>5. IsFiniteSet(Slots)
  <2>1. 2 * LeafDegree - 1 \in Int /\ 0 \in Int
    BY <1>1
  <2> QED BY <2>1, FS_Interval DEF Slots
<1>6. IsFiniteSet(l.bits) /\ Cardinality(l.bits) \in Nat
  BY <1>4, <1>5, FS_Subset, FS_CardinalityType
<1> QED BY <1>3, <1>4, <1>6

\* findFirstZero finds a slot: the count leaves one.
LEMMA ZeroFound ==
  ASSUME NEW l, SlotInv(l)
  PROVE  l.bits # Slots /\ FirstZero(l) \in Slots \ l.bits
<1>1. LeafDegree \in Nat \ {0}
  BY LeafAssumption DEF LeafAssumption
<1>2. Cardinality(Slots) = 2 * LeafDegree
  <2>1. /\ 2 * LeafDegree - 1 \in Int /\ 0 \in Int
        /\ (IF 0 > 2 * LeafDegree - 1 THEN 0 ELSE (2 * LeafDegree - 1) - 0 + 1) = 2 * LeafDegree
    BY <1>1
  <2>2. Cardinality(Slots)
          = IF 0 > 2 * LeafDegree - 1 THEN 0 ELSE (2 * LeafDegree - 1) - 0 + 1
    BY <2>1, FS_Interval DEF Slots
  <2> QED BY <2>1, <2>2
<1>3. l.bits # Slots /\ l.bits \subseteq Slots
  <2>1. l.n = Cardinality(l.bits) /\ l.n <= 2 * LeafDegree - 1 /\ l.n \in Nat
    BY LeafFields DEF SlotInv
  <2>2. l.n # 2 * LeafDegree
    BY <1>1, <2>1
  <2> QED BY <1>2, <2>1, <2>2, LeafFields DEF SlotInv
<1>4. Slots \ l.bits \subseteq Nat /\ Slots \ l.bits # {}
  <2>1. 2 * LeafDegree - 1 \in Int /\ Slots \subseteq Nat
    BY <1>1 DEF Slots
  <2> QED BY <1>3, <2>1
<1> QED BY <1>3, <1>4, MinIsLeast DEF FirstZero

\* findIndex tells a key by its fingerprint and itself.
LEMMA IndexFound ==
  ASSUME NEW l, SlotInv(l), NEW k
  PROVE  /\ ~Has(l, k) => Lacks(l, k)
         /\ Has(l, k) => IndexOf(l, k) \in l.bits /\ l.kv[IndexOf(l, k)].key = k
<1>1. ASSUME ~Has(l, k) PROVE Lacks(l, k)
  BY <1>1 DEF Has, Matches, Lacks, SlotInv
<1>2. ASSUME Has(l, k) PROVE IndexOf(l, k) \in l.bits /\ l.kv[IndexOf(l, k)].key = k
  <2>1. Matches(l, k) \subseteq Nat /\ Matches(l, k) # {}
    <3>1. l.bits \subseteq Slots /\ Slots \subseteq Nat
      BY LeafFields, LeafAssumption DEF SlotInv, Slots, LeafAssumption
    <3> QED BY <1>2, <3>1 DEF Has, Matches
  <2>2. IndexOf(l, k) \in Matches(l, k)
    BY <2>1, MinIsLeast DEF IndexOf
  <2> QED BY <2>2 DEF Matches
<1> QED BY <1>1, <1>2
-----------------------------------------------------------------------------
\* The operations keep a leaf sound.
LEMMA PutSound ==
  ASSUME NEW l, SlotInv(l), NEW k \in Keys, NEW v \in Values, Lacks(l, k),
         l.n < 2 * LeafDegree - 1
  PROVE  SlotInv(Put(l, k, v))
<1> DEFINE pos == FirstZero(l)
           p == Put(l, k, v)
<1>1. /\ pos \in Slots /\ pos \notin l.bits
      /\ l.bits \subseteq Slots /\ l.n \in Nat
      /\ l.kv \in [Slots -> Entry] /\ l.fp \in [Slots -> {0} \cup {Hash[j] : j \in Keys}]
      /\ IsFiniteSet(l.bits) /\ l.n = Cardinality(l.bits)
      /\ LeafDegree \in Nat
  BY ZeroFound, LeafFields, LeafAssumption DEF SlotInv, LeafAssumption
<1>2. /\ p.bits = l.bits \cup {pos} /\ p.n = l.n + 1
      /\ p.kv = [l.kv EXCEPT ![pos] = [key |-> k, val |-> v]]
      /\ p.fp = [l.fp EXCEPT ![pos] = Hash[k]]
      /\ p = [bits |-> p.bits, kv |-> p.kv, fp |-> p.fp, n |-> p.n]
  BY DEF Put
<1>3. p \in Leafs
  <2>1. p.kv \in [Slots -> Entry]
    BY <1>1, <1>2 DEF Entry
  <2>2. p.fp \in [Slots -> {0} \cup {Hash[j] : j \in Keys}]
    BY <1>1, <1>2
  <2>3. p.n \in 0 .. 2 * LeafDegree
    BY <1>1, <1>2
  <2>4. p.bits \in SUBSET Slots
    BY <1>1, <1>2
  <2> HIDE DEF p
  <2> QED BY <1>2, <2>1, <2>2, <2>3, <2>4 DEF Leafs, Entry
<1>4. p.n = Cardinality(p.bits) /\ p.n <= 2 * LeafDegree - 1
  <2>1. Cardinality(l.bits \cup {pos}) = Cardinality(l.bits) + 1
    BY <1>1, FS_AddElement
  <2> QED BY <1>1, <1>2, <2>1
<1>5. ASSUME NEW s \in p.bits
      PROVE  /\ p.kv[s].key \in Keys /\ p.fp[s] = Hash[p.kv[s].key]
             /\ \A t \in p.bits : p.kv[t].key = p.kv[s].key => t = s
  <2>1. \A t \in p.bits : \/ t = pos /\ p.kv[t].key = k /\ p.fp[t] = Hash[k]
                          \/ /\ t \in l.bits /\ t # pos
                             /\ p.kv[t] = l.kv[t] /\ p.fp[t] = l.fp[t]
    BY <1>1, <1>2
  <2> HIDE DEF p, pos
  <2> QED BY <1>5, <2>1 DEF SlotInv, Lacks
<1> QED BY <1>3, <1>4, <1>5 DEF SlotInv

\* Clearing bits, and counting those that stay, keeps a leaf sound: remove,
\* the halves of a split, a leaf that is loaded or used again.
LEMMA FewerSound ==
  ASSUME NEW l, SlotInv(l), NEW B, B \subseteq l.bits,
         NEW p, p = [bits |-> B, kv |-> l.kv, fp |-> l.fp, n |-> Cardinality(B)]
  PROVE  /\ SlotInv(p)
         /\ \A k : Lacks(l, k) => Lacks(p, k)
<1>1. /\ l.bits \subseteq Slots /\ l.n \in Nat /\ l.n = Cardinality(l.bits)
      /\ l.n <= 2 * LeafDegree - 1
      /\ l.kv \in [Slots -> Entry] /\ l.fp \in [Slots -> {0} \cup {Hash[j] : j \in Keys}]
      /\ IsFiniteSet(l.bits) /\ LeafDegree \in Nat
  BY LeafFields, LeafAssumption DEF SlotInv, LeafAssumption
<1>2. Cardinality(B) \in Nat /\ Cardinality(B) <= l.n
  BY <1>1, FS_Subset, FS_CardinalityType
<1>3. p \in Leafs
  <2>1. Cardinality(B) \in 0 .. 2 * LeafDegree /\ B \in SUBSET Slots
    BY <1>1, <1>2
  <2> QED BY <1>1, <2>1 DEF Leafs, Entry
<1>4. p.bits = B /\ p.kv = l.kv /\ p.fp = l.fp /\ p.n = Cardinality(B)
  OBVIOUS
<1>5. SlotInv(p)
  <2>1. p.n <= 2 * LeafDegree - 1
    BY <1>1, <1>2, <1>4
  <2> QED BY <1>3, <1>4, <2>1 DEF SlotInv
<1> QED BY <1>4, <1>5 DEF Lacks

\* update writes a value and no key.
LEMMA SetValueSound ==
  ASSUME NEW l, SlotInv(l), NEW k \in Keys, NEW v \in Values, Has(l, k)
  PROVE  SlotInv(SetValue(l, k, v))
<1> DEFINE pos == IndexOf(l, k)
           p == SetValue(l, k, v)
<1>1. /\ pos \in Slots /\ l.bits \subseteq Slots
      /\ l.kv \in [Slots -> Entry] /\ l.fp \in [Slots -> {0} \cup {Hash[j] : j \in Keys}]
      /\ l = [bits |-> l.bits, kv |-> l.kv, fp |-> l.fp, n |-> l.n]
      /\ l.n \in 0 .. 2 * LeafDegree
  BY IndexFound, LeafFields DEF SlotInv, Leafs
<1>2. /\ p.bits = l.bits /\ p.fp = l.fp /\ p.n = l.n
      /\ p.kv = [l.kv EXCEPT ![pos].val = v]
      /\ p = [bits |-> p.bits, kv |-> p.kv, fp |-> p.fp, n |-> p.n]
  <2> HIDE DEF pos
  <2>1. p = [l EXCEPT !.kv[pos].val = v]
    BY DEF SetValue, pos
  <2> HIDE DEF p
  <2> QED BY <1>1, <2>1
<1> HIDE DEF p, pos
<1>3. p.kv \in [Slots -> Entry] /\ \A s \in Slots : p.kv[s].key = l.kv[s].key
  <2>1. \A s \in Slots : l.kv[s] \in Entry
    BY <1>1
  <2>2. [l.kv[pos] EXCEPT !.val = v] \in Entry
    BY <1>1, <2>1 DEF Entry
  <2>3. [l.kv[pos] EXCEPT !.val = v].key = l.kv[pos].key
    BY <1>1, <2>1 DEF Entry
  <2>4. p.kv = [l.kv EXCEPT ![pos] = [l.kv[pos] EXCEPT !.val = v]]
    BY <1>1, <1>2
  <2> QED BY <1>1, <2>2, <2>3, <2>4
<1>4. p \in Leafs
  BY <1>1, <1>2, <1>3 DEF Leafs, Entry
<1>5. SlotInv(p)
  <2>1. \A s \in l.bits : p.kv[s].key = l.kv[s].key
    BY <1>1, <1>3
  <2> QED BY <1>2, <1>4, <2>1 DEF SlotInv
<1> QED BY <1>5 DEF p

\* remove leaves the other entries, and of a last entry none.
LEMMA DropSound ==
  ASSUME NEW l, SlotInv(l), NEW k \in Keys, Has(l, k)
  PROVE  /\ SlotInv(Drop(l, k))
         /\ l.n = 1 => Drop(l, k).bits = {}
<1> DEFINE pos == IndexOf(l, k)
           B == l.bits \ {pos}
<1>1. /\ pos \in l.bits /\ IsFiniteSet(l.bits)
      /\ l.n \in Nat /\ l.n = Cardinality(l.bits)
      /\ l = [bits |-> l.bits, kv |-> l.kv, fp |-> l.fp, n |-> l.n]
  BY IndexFound, LeafFields DEF SlotInv
<1>2. Cardinality(B) = l.n - 1 /\ IsFiniteSet(B)
  BY <1>1, FS_RemoveElement
<1>3. Drop(l, k) = [bits |-> B, kv |-> l.kv, fp |-> l.fp, n |-> Cardinality(B)]
  <2>1. Drop(l, k) = [l EXCEPT !.bits = B, !.n = l.n - 1]
    BY DEF Drop
  <2> HIDE DEF B, pos
  <2> QED BY <1>1, <1>2, <2>1, WithBits
<1>4. SlotInv(Drop(l, k))
  BY <1>3, FewerSound
<1>5. ASSUME l.n = 1 PROVE B = {}
  BY <1>2, <1>5, FS_EmptySet
<1> QED BY <1>3, <1>4, <1>5

\* findSplitKey moves the entries into the first slots, in whatever order, and
\* keeps a leaf sound.
LEMMA ArrangedSound ==
  ASSUME NEW l, SlotInv(l), NEW order \in Orders(l)
  PROVE  /\ SlotInv(Arranged(l, order))
         /\ Arranged(l, order).bits = 0 .. l.n - 1 /\ Arranged(l, order).n = l.n
         /\ \A k : Lacks(l, k) => Lacks(Arranged(l, order), k)
<1> DEFINE a == Arranged(l, order)
<1>1. /\ l.bits \subseteq Slots /\ l.n \in Nat /\ l.n = Cardinality(l.bits)
      /\ l.n <= 2 * LeafDegree - 1
      /\ l.kv \in [Slots -> Entry] /\ l.fp \in [Slots -> {0} \cup {Hash[j] : j \in Keys}]
      /\ l = [bits |-> l.bits, kv |-> l.kv, fp |-> l.fp, n |-> l.n]
      /\ LeafDegree \in Nat
  BY LeafFields, LeafAssumption DEF SlotInv, LeafAssumption
<1>2. /\ order \in [0 .. l.n - 1 -> l.bits]
      /\ \A i, j \in 0 .. l.n - 1 : order[i] = order[j] => i = j
  <2>1. order \in Bijection(0 .. l.n - 1, l.bits)
    BY DEF Orders
  <2> QED BY <2>1 DEF Bijection, Injection, IsInjective
<1>3. /\ a.bits = 0 .. l.n - 1 /\ a.n = l.n
      /\ a.kv = [s \in Slots |-> IF s < l.n THEN l.kv[order[s]] ELSE l.kv[s]]
      /\ a.fp = [s \in Slots |-> IF s < l.n THEN l.fp[order[s]] ELSE l.fp[s]]
      /\ a = [bits |-> a.bits, kv |-> a.kv, fp |-> a.fp, n |-> a.n]
  <2> DEFINE newKv == [s \in Slots |-> IF s < l.n THEN l.kv[order[s]] ELSE l.kv[s]]
             newFp == [s \in Slots |-> IF s < l.n THEN l.fp[order[s]] ELSE l.fp[s]]
             first == 0 .. l.n - 1
  <2>1. a = [l EXCEPT !.bits = first, !.kv = newKv, !.fp = newFp]
    BY DEF Arranged
  <2> HIDE DEF newKv, newFp, first, a
  <2>2. a = [bits |-> first, kv |-> newKv, fp |-> newFp, n |-> l.n]
    BY <1>1, <2>1
  <2>3. a.bits = first /\ a.kv = newKv /\ a.fp = newFp /\ a.n = l.n
    BY <2>2
  <2> QED BY <2>2, <2>3 DEF newKv, newFp, first
<1> HIDE DEF a
<1>4. 0 .. l.n - 1 \subseteq Slots
  BY <1>1 DEF Slots
<1>5. \A s \in Slots : s < l.n => s \in 0 .. l.n - 1
  BY <1>1 DEF Slots
<1>6. a \in Leafs
  <2> DEFINE Prints == {0} \cup {Hash[j] : j \in Keys}
  <2>1. a.kv \in [Slots -> Entry]
    <3>1. \A s \in Slots : s < l.n => order[s] \in Slots
      BY <1>1, <1>2, <1>5
    <3>2. \A s \in Slots : (IF s < l.n THEN l.kv[order[s]] ELSE l.kv[s]) \in Entry
      BY <1>1, <3>1
    <3> QED BY <1>3, <3>2
  <2>2. a.fp \in [Slots -> Prints]
    <3>1. \A s \in Slots : s < l.n => order[s] \in Slots
      BY <1>1, <1>2, <1>5
    <3> HIDE DEF Prints
    <3>2. l.fp \in [Slots -> Prints]
      BY <1>1 DEF Prints
    <3>3. \A s \in Slots : (IF s < l.n THEN l.fp[order[s]] ELSE l.fp[s]) \in Prints
      BY <3>1, <3>2
    <3> QED BY <1>3, <3>3
  <2>3. a.n \in 0 .. 2 * LeafDegree
    BY <1>1, <1>3
  <2> QED BY <1>3, <1>4, <2>1, <2>2, <2>3 DEF Leafs, Entry
<1>7. a.n = Cardinality(a.bits)
  <2>1. 0 \in Int /\ l.n - 1 \in Int
    BY <1>1
  <2>2. Cardinality(0 .. l.n - 1) = IF 0 > l.n - 1 THEN 0 ELSE (l.n - 1) - 0 + 1
    BY <2>1, FS_Interval
  <2> QED BY <1>1, <1>3, <2>2
<1>8. \A s \in a.bits : order[s] \in l.bits /\ a.kv[s] = l.kv[order[s]] /\ a.fp[s] = l.fp[order[s]]
  <2> SUFFICES ASSUME NEW s \in 0 .. l.n - 1
               PROVE  /\ order[s] \in l.bits
                      /\ a.kv[s] = l.kv[order[s]] /\ a.fp[s] = l.fp[order[s]]
    BY <1>3
  <2>1. s < l.n /\ s \in Slots /\ order[s] \in l.bits
    BY <1>1, <1>2, <1>4
  <2> QED BY <1>3, <2>1
<1>9. SlotInv(a)
  <2>1. ASSUME NEW s \in a.bits
        PROVE  a.kv[s].key \in Keys /\ a.fp[s] = Hash[a.kv[s].key]
    BY <1>8 DEF SlotInv
  <2>2. ASSUME NEW s \in a.bits, NEW t \in a.bits, a.kv[t].key = a.kv[s].key
        PROVE  t = s
    <3>1. l.kv[order[t]].key = l.kv[order[s]].key /\ order[s] \in l.bits /\ order[t] \in l.bits
      BY <1>8, <2>2
    <3>2. order[t] = order[s]
      BY <3>1 DEF SlotInv
    <3> QED BY <1>2, <1>3, <3>2
  <2>3. a.n <= 2 * LeafDegree - 1
    BY <1>1, <1>3
  <2> QED BY <1>6, <1>7, <2>1, <2>2, <2>3 DEF SlotInv
<1>10. \A k : Lacks(l, k) => Lacks(a, k)
  BY <1>8 DEF Lacks
<1> QED BY <1>3, <1>9, <1>10 DEF a

\* Each half of a full leaf is sound, and not full.
LEMMA HalvesSound ==
  ASSUME NEW l, SlotInv(l), l.bits = 0 .. l.n - 1, l.n = 2 * LeafDegree - 1
  PROVE  /\ SlotInv(LowHalf(l)) /\ LowHalf(l).n < 2 * LeafDegree - 1
         /\ SlotInv(HighHalf(l)) /\ HighHalf(l).n < 2 * LeafDegree - 1
         /\ \A k : Lacks(l, k) => Lacks(LowHalf(l), k) /\ Lacks(HighHalf(l), k)
<1> DEFINE lo == 0 .. LeafDegree - 1
           hi == LeafDegree .. 2 * LeafDegree - 2
<1>1. /\ LeafDegree \in Nat \ {0, 1} /\ l.n \in Nat
      /\ l = [bits |-> l.bits, kv |-> l.kv, fp |-> l.fp, n |-> l.n]
  BY LeafFields, LeafAssumption DEF SlotInv, LeafAssumption
<1>2. Half(l.n) = LeafDegree
  BY <1>1 DEF Half
<1>3. /\ {s \in l.bits : s < LeafDegree} = lo /\ lo \subseteq l.bits
      /\ {s \in l.bits : s >= LeafDegree} = hi /\ hi \subseteq l.bits
  BY <1>1
<1>4. Cardinality(lo) = LeafDegree /\ Cardinality(hi) = LeafDegree - 1
  <2>1. /\ 0 \in Int /\ LeafDegree - 1 \in Int
        /\ LeafDegree \in Int /\ 2 * LeafDegree - 2 \in Int
    BY <1>1
  <2>2. Cardinality(lo) = IF 0 > LeafDegree - 1 THEN 0 ELSE (LeafDegree - 1) - 0 + 1
    BY <2>1, FS_Interval
  <2>3. Cardinality(hi)
          = IF LeafDegree > 2 * LeafDegree - 2 THEN 0 ELSE (2 * LeafDegree - 2) - LeafDegree + 1
    BY <2>1, FS_Interval
  <2> QED BY <1>1, <2>2, <2>3
<1>5. l.n - Half(l.n) = LeafDegree - 1
  BY <1>1, <1>2
<1> HIDE DEF lo, hi
<1>6. LowHalf(l) = [bits |-> lo, kv |-> l.kv, fp |-> l.fp, n |-> Cardinality(lo)]
  <2>1. LowHalf(l) = [l EXCEPT !.bits = lo, !.n = LeafDegree]
    BY <1>2, <1>3 DEF LowHalf
  <2> QED BY <1>1, <1>4, <2>1
<1>7. HighHalf(l) = [bits |-> hi, kv |-> l.kv, fp |-> l.fp, n |-> Cardinality(hi)]
  <2>1. HighHalf(l) = [l EXCEPT !.bits = hi, !.n = LeafDegree - 1]
    BY <1>1, <1>2, <1>3, <1>5 DEF HighHalf
  <2> QED BY <1>1, <1>4, <2>1
<1>8. SlotInv(LowHalf(l)) /\ \A k : Lacks(l, k) => Lacks(LowHalf(l), k)
  BY <1>3, <1>6, FewerSound
<1>9. SlotInv(HighHalf(l)) /\ \A k : Lacks(l, k) => Lacks(HighHalf(l), k)
  BY <1>3, <1>7, FewerSound
<1>10. LowHalf(l).n < 2 * LeafDegree - 1 /\ HighHalf(l).n < 2 * LeafDegree - 1
  BY <1>1, <1>4, <1>6, <1>7
<1> QED BY <1>8, <1>9, <1>10
-----------------------------------------------------------------------------
\* What every call keeps: the invariant is inductive.
LEMMA LeafInvInit == LeafInit => LeafInv
<1> SUFFICES ASSUME LeafInit PROVE LeafInv
  OBVIOUS
<1>1. LeafDegree \in Nat \ {0, 1}
  BY LeafAssumption DEF LeafAssumption
<1>2. Zeroed \in Leafs /\ Zeroed.bits = {} /\ Zeroed.n = 0
  <2>1. 0 \in 0 .. 2 * LeafDegree
    BY <1>1
  <2> QED BY <2>1 DEF Zeroed, Leafs
<1>3. SlotInv(Zeroed)
  <2>1. 0 <= 2 * LeafDegree - 1
    BY <1>1
  <2> QED BY <1>2, <2>1, FS_EmptySet DEF SlotInv
<1> QED BY <1>2, <1>3 DEF LeafInit, LeafInv, Leaves

LEMMA LeafInvStep == LeafInv /\ [LeafNext]_leafVars => LeafInv'
<1> SUFFICES ASSUME LeafInv, [LeafNext]_leafVars PROVE LeafInv'
  OBVIOUS
<1>1. /\ live \in BOOLEAN /\ SlotInv(leaf)
      /\ new # <<>> => SlotInv(new[1].leaf)
      /\ ~live => leaf.bits = {} /\ new = <<>>
  BY DEF LeafInv, Leaves
<1>2. SUFFICES /\ live' \in BOOLEAN /\ SlotInv(leaf')
               /\ new' # <<>> => SlotInv(new'[1].leaf)
               /\ ~live' => leaf'.bits = {} /\ new' = <<>>
  <2>1. \A l \in Leaves' : l = leaf' \/ (new' # <<>> /\ l = new'[1].leaf)
    BY DEF Leaves
  <2>2. ASSUME NEW l \in Leaves' PROVE SlotInv(l)
    BY <1>2, <2>1
  <2>3. ASSUME NEW l \in Leaves' PROVE SlotInv(l)'
    BY <2>2 DEF SlotInv, Leafs, Slots
  <2> QED BY <1>2, <2>3 DEF LeafInv
<1> USE <1>1
<1>3. CASE Create
  <2>1. leaf = [bits |-> {}, kv |-> leaf.kv, fp |-> leaf.fp, n |-> leaf.n]
    BY <1>3, LeafFields DEF Create, SlotInv
  <2>2. leaf' = [bits |-> {}, kv |-> leaf.kv, fp |-> leaf.fp, n |-> Cardinality({})]
    BY <1>3, <2>1, FS_EmptySet DEF Create
  <2>3. SlotInv(leaf')
    BY <2>2, FewerSound
  <2> QED BY <1>3, <2>3 DEF Create
<1>4. CASE Reload
  <2>1. leaf' = leaf
    <3>1. leaf = [bits |-> leaf.bits, kv |-> leaf.kv, fp |-> leaf.fp, n |-> Cardinality(leaf.bits)]
      BY LeafFields DEF SlotInv
    <3> QED BY <1>4, <3>1 DEF Reload, Reloaded
  <2> QED BY <1>4, <2>1 DEF Reload
<1>5. CASE Visit
  BY <1>5 DEF Visit
<1>6. CASE LeastKey
  BY <1>6 DEF LeastKey
<1>7. ASSUME NEW k \in Keys, NEW v \in Values, InsertPresent(k, v) \/ Update(k, v)
      PROVE  SlotInv(leaf') /\ new' = <<>> /\ live /\ live'
  BY <1>7, SetValueSound DEF InsertPresent, Update
<1>8. ASSUME NEW k \in Keys, NEW v \in Values, InsertNonFull(k, v)
      PROVE  SlotInv(leaf') /\ new' = <<>> /\ live /\ live'
  BY <1>8, IndexFound, PutSound DEF InsertNonFull
<1>9. ASSUME NEW k \in Keys, NEW v \in Values, InsertSplit(k, v)
      PROVE  SlotInv(leaf') /\ SlotInv(new'[1].leaf) /\ live /\ live'
  <2>1. Lacks(leaf, k) /\ leaf.n = 2 * LeafDegree - 1
    <3>1. /\ leaf.n >= 2 * LeafDegree - 1 /\ leaf.n <= 2 * LeafDegree - 1
          /\ leaf.n \in Nat /\ LeafDegree \in Nat
      BY <1>9, LeafFields, LeafAssumption DEF InsertSplit, SlotInv, LeafAssumption
    <3>2. leaf.n = 2 * LeafDegree - 1
      BY <3>1
    <3> QED BY <1>9, <3>2, IndexFound DEF InsertSplit
  <2>2. PICK order \in Orders(leaf) :
          LET l    == Arranged(leaf, order)
              low  == IF k < SplitKey(l) THEN Put(LowHalf(l), k, v) ELSE LowHalf(l)
              high == IF k < SplitKey(l) THEN HighHalf(l) ELSE Put(HighHalf(l), k, v)
          IN leaf' = low /\ new' = <<[key |-> SplitKey(l), leaf |-> high]>>
    BY <1>9 DEF InsertSplit
  <2> DEFINE l == Arranged(leaf, order)
             low == LowHalf(l)
             high == HighHalf(l)
  <2>3. /\ leaf' = IF k < SplitKey(l) THEN Put(low, k, v) ELSE low
        /\ new'[1].leaf = IF k < SplitKey(l) THEN high ELSE Put(high, k, v)
    BY <2>2
  <2>4. /\ SlotInv(l) /\ l.bits = 0 .. l.n - 1
        /\ l.n = 2 * LeafDegree - 1 /\ Lacks(l, k)
    BY <2>1, ArrangedSound
  <2> HIDE DEF l
  <2>5. /\ SlotInv(low) /\ low.n < 2 * LeafDegree - 1 /\ Lacks(low, k)
        /\ SlotInv(high) /\ high.n < 2 * LeafDegree - 1 /\ Lacks(high, k)
    BY <2>4, HalvesSound
  <2> HIDE DEF low, high
  <2>6. SlotInv(Put(low, k, v)) /\ SlotInv(Put(high, k, v))
    BY <2>5, PutSound
  <2> QED BY <1>9, <2>3, <2>5, <2>6 DEF InsertSplit
<1>10. ASSUME NEW k \in Keys, Delete(k)
       PROVE  /\ live' \in BOOLEAN /\ SlotInv(leaf') /\ new' = <<>>
              /\ ~live' => leaf'.bits = {}
  BY <1>10, DropSound DEF Delete
<1>11. ASSUME NEW k \in Keys, Find(k)
       PROVE  leaf' = leaf /\ new' = <<>> /\ live' = live
  BY <1>11 DEF Find
<1>12. CASE UNCHANGED leafVars
  BY <1>12 DEF leafVars
<1> QED
  BY <1>3, <1>4, <1>5, <1>6, <1>7, <1>8, <1>9, <1>10, <1>11, <1>12 DEF LeafNext

LEMMA LeafInvHolds == LeafSpec => []LeafInv
<1> QED BY LeafInvInit, LeafInvStep, PTL DEF LeafSpec
-----------------------------------------------------------------------------
\* The state of a leaf keeps its types, for leaves of any degree.
THEOREM LeafTypes == LeafSpec => []LeafTypeOK
<1>1. LeafInv => LeafTypeOK
  BY DEF LeafInv, LeafTypeOK, SlotInv
<1> QED BY <1>1, LeafInvHolds, PTL

\* The volatile count of a leaf is the number of its bits, through splits, reuse
\* of the leaf and reloads: the assertion of bulkLoading and split never fails.
THEOREM CountAlwaysExact == LeafSpec => []CountExact
<1>1. LeafInv => CountExact
  BY DEF LeafInv, CountExact, SlotInv
<1> QED BY <1>1, LeafInvHolds, PTL

\* Every entry of a leaf can be found by its fingerprint, and only one has its
\* key, whatever order findSplitKey leaves the entries in.
THEOREM SlotsAlwaysSound == LeafSpec => []SlotsSound
<1>1. LeafInv => SlotsSound
  BY DEF LeafInv, SlotsSound, SlotInv
<1> QED BY <1>1, LeafInvHolds, PTL

\* findFirstZero never finds a leaf full.
THEOREM AlwaysASlotToSpare == LeafSpec => []SlotToSpare
<1>1. LeafInv => SlotToSpare
  BY ZeroFound DEF LeafInv, SlotToSpare
<1> QED BY <1>1, LeafInvHolds, PTL
-----------------------------------------------------------------------------
\* What follows shows that the slots implement the map of LeafStore.

Held(l) == {l.kv[s].key : s \in l.bits}

\* The entries of a sound leaf: its map has one for each bit that is set.
LEMMA EntriesOf ==
  ASSUME NEW l, SlotInv(l)
  PROVE  /\ Entries(l) = [k \in Held(l) |-> Entries(l)[k]]
         /\ DOMAIN Entries(l) = Held(l) /\ Held(l) \subseteq Keys
         /\ \A s \in l.bits : Entries(l)[l.kv[s].key] = l.kv[s].val
         /\ \A k : Has(l, k) <=> k \in Held(l)
         /\ \A k : Has(l, k) => ValueOf(l, k) = Entries(l)[k]
         /\ IsFiniteSet(Held(l)) /\ Cardinality(Held(l)) = l.n
<1>1. Entries(l) = [k \in Held(l) |-> ValueOf(l, k)]
  BY DEF Entries, Held
<1>2. Held(l) \subseteq Keys
  BY DEF Held, SlotInv
<1>3. ASSUME NEW k PROVE Has(l, k) <=> k \in Held(l)
  BY DEF Has, Matches, Held, SlotInv
<1>4. ASSUME NEW s \in l.bits PROVE ValueOf(l, l.kv[s].key) = l.kv[s].val
  <2>1. Has(l, l.kv[s].key)
    BY <1>3 DEF Held
  <2>2. /\ IndexOf(l, l.kv[s].key) \in l.bits
        /\ l.kv[IndexOf(l, l.kv[s].key)].key = l.kv[s].key
    BY <2>1, IndexFound
  <2>3. IndexOf(l, l.kv[s].key) = s
    BY <2>2 DEF SlotInv
  <2> QED BY <2>3 DEF ValueOf
<1>5. IsFiniteSet(Held(l)) /\ Cardinality(Held(l)) = l.n
  <2> DEFINE f == [s \in l.bits |-> l.kv[s].key]
  <2>1. f \in Bijection(l.bits, Held(l))
    BY DEF Bijection, Injection, IsInjective, Surjection, Held, SlotInv
  <2>2. ExistsBijection(l.bits, Held(l)) /\ IsFiniteSet(l.bits)
    BY <2>1, LeafFields DEF ExistsBijection, SlotInv
  <2> QED BY <2>2, FS_Bijection DEF SlotInv
<1>6. \A s \in l.bits : l.kv[s].key \in Held(l)
  BY DEF Held
<1>7. \A s \in l.bits : Entries(l)[l.kv[s].key] = l.kv[s].val
  BY <1>1, <1>4, <1>6
<1>8. \A k : Has(l, k) => ValueOf(l, k) = Entries(l)[k]
  BY <1>1, <1>3
<1>9. Entries(l) = [k \in Held(l) |-> Entries(l)[k]] /\ DOMAIN Entries(l) = Held(l)
  BY <1>1
<1> HIDE DEF Held
<1> QED BY <1>2, <1>3, <1>5, <1>7, <1>8, <1>9

\* A leaf's map is known from what its set bits hold.
LEMMA EntriesAre ==
  ASSUME NEW l, SlotInv(l), NEW f, f = [k \in Held(l) |-> f[k]],
         \A s \in l.bits : f[l.kv[s].key] = l.kv[s].val
  PROVE  Entries(l) = f
<1>1. /\ Entries(l) = [k \in Held(l) |-> Entries(l)[k]]
      /\ \A s \in l.bits : Entries(l)[l.kv[s].key] = l.kv[s].val
  BY EntriesOf
<1>2. ASSUME NEW k \in Held(l) PROVE Entries(l)[k] = f[k]
  <2>1. PICK s \in l.bits : k = l.kv[s].key
    BY DEF Held
  <2> QED BY <1>1, <2>1
<1> QED BY <1>1, <1>2

\* insertNonFull adds an entry to the map, update changes one, remove takes one
\* out.
LEMMA PutEntries ==
  ASSUME NEW l, SlotInv(l), NEW k \in Keys, NEW v \in Values, ~Has(l, k),
         l.n < 2 * LeafDegree - 1
  PROVE  /\ SlotInv(Put(l, k, v))
         /\ Entries(Put(l, k, v)) = Store!WithEntry(Entries(l), k, v)
<1> DEFINE pos == FirstZero(l)
           p == Put(l, k, v)
           f == Store!WithEntry(Entries(l), k, v)
<1>1. /\ pos \in Slots \ l.bits /\ l.bits \subseteq Slots
      /\ l.kv \in [Slots -> Entry]
      /\ SlotInv(p) /\ Lacks(l, k)
  BY ZeroFound, LeafFields, IndexFound, PutSound DEF SlotInv
<1>2. p.bits = l.bits \cup {pos} /\ p.kv = [l.kv EXCEPT ![pos] = [key |-> k, val |-> v]]
  BY DEF Put
<1>3. f = [j \in Held(l) \cup {k} |-> IF j = k THEN v ELSE Entries(l)[j]]
  BY EntriesOf DEF Store!WithEntry
<1> HIDE DEF p, pos, f
<1>4. p.kv[pos] = [key |-> k, val |-> v] /\ \A s \in l.bits : p.kv[s] = l.kv[s]
  BY <1>1, <1>2
<1>5. Held(p) = Held(l) \cup {k}
  BY <1>2, <1>4 DEF Held
<1>6. ASSUME NEW s \in p.bits PROVE f[p.kv[s].key] = p.kv[s].val
  <2>1. CASE s = pos
    BY <1>3, <1>4, <2>1
  <2>2. CASE s \in l.bits
    <3>1. l.kv[s].key \in Held(l) /\ l.kv[s].key # k
      BY <1>1, <2>2 DEF Held, Lacks
    <3>2. f[l.kv[s].key] = l.kv[s].val
      BY <1>3, <2>2, <3>1, EntriesOf
    <3> QED BY <1>4, <2>2, <3>2
  <2> QED BY <1>2, <2>1, <2>2
<1>7. f = [j \in Held(p) |-> f[j]]
  BY <1>3, <1>5
<1>8. Entries(p) = f
  BY <1>1, <1>6, <1>7, EntriesAre
<1> QED BY <1>1, <1>8 DEF p, f

LEMMA SetValueEntries ==
  ASSUME NEW l, SlotInv(l), NEW k \in Keys, NEW v \in Values, Has(l, k)
  PROVE  /\ Entries(SetValue(l, k, v)) = Store!WithEntry(Entries(l), k, v)
         /\ Entries(SetValue(l, k, v)) = [Entries(l) EXCEPT ![k] = v]
<1> DEFINE pos == IndexOf(l, k)
           p == SetValue(l, k, v)
           f == Store!WithEntry(Entries(l), k, v)
           e == Entries(l)
<1>1. /\ pos \in l.bits /\ l.kv[pos].key = k /\ l.bits \subseteq Slots
      /\ l.kv \in [Slots -> Entry] /\ SlotInv(p)
      /\ l = [bits |-> l.bits, kv |-> l.kv, fp |-> l.fp, n |-> l.n]
  BY IndexFound, LeafFields, SetValueSound DEF SlotInv
<1>2. p.bits = l.bits /\ p.kv = [l.kv EXCEPT ![pos].val = v]
  <2> HIDE DEF pos
  <2>1. p = [l EXCEPT !.kv[pos].val = v]
    BY DEF SetValue, pos
  <2> HIDE DEF p
  <2> QED BY <1>1, <2>1
<1>3. f = [j \in Held(l) \cup {k} |-> IF j = k THEN v ELSE e[j]]
  BY EntriesOf DEF Store!WithEntry
<1>4. k \in Held(l) /\ e = [j \in Held(l) |-> e[j]]
  BY EntriesOf
<1> HIDE DEF p, pos, f, e
<1>5. /\ p.kv[pos].key = k /\ p.kv[pos].val = v
      /\ \A s \in l.bits : s # pos => p.kv[s] = l.kv[s]
  <2>1. l.kv[pos] \in Entry /\ pos \in Slots
    BY <1>1
  <2> QED BY <1>1, <1>2, <2>1 DEF Entry
<1>6. Held(p) = Held(l)
  BY <1>1, <1>2, <1>5 DEF Held
<1>7. ASSUME NEW s \in p.bits PROVE f[p.kv[s].key] = p.kv[s].val
  <2>1. CASE s = pos
    BY <1>3, <1>5, <2>1
  <2>2. CASE s # pos
    <3>1. s \in l.bits /\ l.kv[s].key \in Held(l) /\ l.kv[s].key # k
      BY <1>1, <1>2, <2>2 DEF Held, SlotInv
    <3>2. f[l.kv[s].key] = l.kv[s].val
      BY <1>3, <3>1, EntriesOf DEF e
    <3> QED BY <1>5, <2>2, <3>1, <3>2
  <2> QED BY <2>1, <2>2
<1>8. f = [j \in Held(p) |-> f[j]]
  BY <1>3, <1>4, <1>6
<1>9. Entries(p) = f
  BY <1>1, <1>7, <1>8, EntriesAre
<1>10. f = [e EXCEPT ![k] = v]
  BY <1>3, <1>4
<1> QED BY <1>9, <1>10 DEF p, f, e

\* Clearing bits takes entries out of the map.
LEMMA FewerEntries ==
  ASSUME NEW l, SlotInv(l), NEW B, B \subseteq l.bits,
         NEW p, SlotInv(p), p.bits = B, p.kv = l.kv,
         NEW D, D = {l.kv[s].key : s \in B}
  PROVE  Entries(p) = Store!PartOf(Entries(l), D)
<1> DEFINE f == Store!PartOf(Entries(l), D)
<1>1. f = [k \in D |-> Entries(l)[k]]
  BY DEF Store!PartOf
<1> HIDE DEF f
<1>2. D = Held(p) /\ \A s \in B : l.kv[s].key \in D
  BY DEF Held
<1>3. \A s \in p.bits : f[p.kv[s].key] = p.kv[s].val
  BY <1>1, <1>2, EntriesOf
<1>4. f = [k \in Held(p) |-> f[k]]
  BY <1>1, <1>2
<1>5. Entries(p) = f
  BY <1>3, <1>4, EntriesAre
<1> QED BY <1>5 DEF f

LEMMA DropEntries ==
  ASSUME NEW l, SlotInv(l), NEW k \in Keys, Has(l, k)
  PROVE  Entries(Drop(l, k)) = Store!PartOf(Entries(l), Held(l) \ {k})
<1> DEFINE pos == IndexOf(l, k)
           p == Drop(l, k)
           B == l.bits \ {pos}
           D == Held(l) \ {k}
<1>1. /\ pos \in l.bits /\ l.kv[pos].key = k /\ SlotInv(p)
      /\ l = [bits |-> l.bits, kv |-> l.kv, fp |-> l.fp, n |-> l.n]
  BY IndexFound, LeafFields, DropSound DEF SlotInv
<1>2. p.bits = B /\ p.kv = l.kv
  <2>1. p = [l EXCEPT !.bits = B, !.n = l.n - 1]
    BY DEF Drop
  <2> HIDE DEF B, p
  <2> QED BY <1>1, <2>1
<1>3. D = {l.kv[s].key : s \in B}
  <2>1. \A s \in l.bits : s # pos => l.kv[s].key # k
    BY <1>1 DEF SlotInv
  <2> HIDE DEF pos
  <2> QED BY <1>1, <2>1 DEF Held
<1>4. B \subseteq l.bits
  OBVIOUS
<1> HIDE DEF p, B, D
<1> QED BY <1>1, <1>2, <1>3, <1>4, FewerEntries DEF p, D

LEMMA SameCardinality ==
  ASSUME NEW S PROVE Store!Cardinality(S) = Cardinality(S)
BY DEF Store!Cardinality, Cardinality

\* A set of m elements below the rest has the m least ones.
LEMMA SmallestIs ==
  ASSUME NEW D, D \subseteq Nat, IsFiniteSet(D), NEW L, L \subseteq D,
         NEW m \in Nat, Cardinality(L) = m,
         \A x \in L, y \in D \ L : x < y
  PROVE  Store!Smallest(D, m) = L
<1> DEFINE Below(x) == {j \in D : j < x}
<1>1. Store!Smallest(D, m) = {x \in D : Cardinality(Below(x)) < m}
  BY SameCardinality DEF Store!Smallest
<1>2. \A x \in D : IsFiniteSet(Below(x)) /\ Cardinality(Below(x)) \in Nat
  BY FS_Subset, FS_CardinalityType
<1>3. ASSUME NEW x \in L PROVE Cardinality(Below(x)) < m
  <2>1. ASSUME NEW j \in Below(x) PROVE j \in L \ {x}
    <3>1. j \in D /\ j \in Nat /\ x \in Nat /\ j < x
      OBVIOUS
    <3>2. ~(x < j) /\ j # x
      BY <3>1
    <3> QED BY <3>1, <3>2
  <2>2. IsFiniteSet(L) /\ IsFiniteSet(L \ {x}) /\ Cardinality(L \ {x}) = m - 1
    BY FS_Subset, FS_RemoveElement
  <2>3. Cardinality(Below(x)) <= Cardinality(L \ {x})
    <3> HIDE DEF Below
    <3>1. Below(x) \subseteq L \ {x}
      BY <2>1
    <3> QED BY <2>2, <3>1, FS_Subset
  <2>4. x \in D
    OBVIOUS
  <2> QED BY <1>2, <2>2, <2>3, <2>4
<1>4. ASSUME NEW y \in D \ L PROVE ~(Cardinality(Below(y)) < m)
  <2>1. \A x \in L : x \in Below(y)
    OBVIOUS
  <2>2. m <= Cardinality(Below(y))
    <3> HIDE DEF Below
    <3>1. L \subseteq Below(y) /\ y \in D
      BY <2>1
    <3> QED BY <1>2, <3>1, FS_Subset
  <2> QED BY <1>2, <2>2
<1> HIDE DEF Below
<1> QED BY <1>1, <1>3, <1>4

\* findSplitKey moves entries and changes none.
LEMMA ArrangedEntries ==
  ASSUME NEW l, SlotInv(l), NEW order \in Orders(l)
  PROVE  /\ \A s \in 0 .. l.n - 1 : order[s] \in l.bits
                                    /\ Arranged(l, order).kv[s] = l.kv[order[s]]
         /\ Entries(Arranged(l, order)) = Entries(l)
         /\ Held(Arranged(l, order)) = Held(l)
<1> DEFINE a == Arranged(l, order)
<1>1. SlotInv(a) /\ a.bits = 0 .. l.n - 1
  BY ArrangedSound
<1>2. /\ order \in [0 .. l.n - 1 -> l.bits]
      /\ \A t \in l.bits : \E s \in 0 .. l.n - 1 : order[s] = t
  <2>1. order \in Bijection(0 .. l.n - 1, l.bits)
    BY DEF Orders
  <2> QED BY <2>1 DEF Bijection, Surjection
<1>3. \A s \in 0 .. l.n - 1 : order[s] \in l.bits /\ a.kv[s] = l.kv[order[s]]
  <2>1. /\ l.n \in Nat /\ l.n <= 2 * LeafDegree - 1 /\ LeafDegree \in Nat
        /\ l = [bits |-> l.bits, kv |-> l.kv, fp |-> l.fp, n |-> l.n]
    BY LeafFields, LeafAssumption DEF SlotInv, LeafAssumption
  <2> DEFINE newKv == [s \in Slots |-> IF s < l.n THEN l.kv[order[s]] ELSE l.kv[s]]
             newFp == [s \in Slots |-> IF s < l.n THEN l.fp[order[s]] ELSE l.fp[s]]
             first == 0 .. l.n - 1
  <2>2. a = [l EXCEPT !.bits = first, !.kv = newKv, !.fp = newFp]
    BY DEF Arranged
  <2> HIDE DEF newKv, newFp, first, a
  <2>3. a.kv = newKv
    BY <2>1, <2>2
  <2>4. \A s \in 0 .. l.n - 1 : s \in Slots /\ s < l.n
    BY <2>1 DEF Slots
  <2> QED BY <1>2, <2>3, <2>4 DEF newKv
<1> HIDE DEF a
<1>4. Held(a) = Held(l)
  <2>1. ASSUME NEW k \in Held(a) PROVE k \in Held(l)
    BY <1>1, <1>3 DEF Held
  <2>2. ASSUME NEW k \in Held(l) PROVE k \in Held(a)
    <3>1. PICK t \in l.bits : k = l.kv[t].key
      BY DEF Held
    <3>2. PICK s \in 0 .. l.n - 1 : order[s] = t
      BY <1>2
    <3> QED BY <1>1, <1>3, <3>1, <3>2 DEF Held
  <2> QED BY <2>1, <2>2
<1>5. /\ Entries(l) = [k \in Held(l) |-> Entries(l)[k]]
      /\ \A s \in l.bits : Entries(l)[l.kv[s].key] = l.kv[s].val
  BY EntriesOf
<1>6. \A s \in a.bits : Entries(l)[a.kv[s].key] = a.kv[s].val
  BY <1>1, <1>3, <1>5
<1>7. Entries(a) = Entries(l)
  <2>1. Entries(l) = [k \in Held(a) |-> Entries(l)[k]]
    BY <1>4, <1>5
  <2> QED BY <1>1, <1>6, <2>1, EntriesAre
<1> QED BY <1>3, <1>4, <1>7 DEF a

\* Whatever order findSplitKey leaves, a split leaves the least half of the
\* entries here and moves the rest, whose least key is the one returned.
LEMMA HalvesEntries ==
  ASSUME NEW l, SlotInv(l), NEW order \in Orders(l), l.n = 2 * LeafDegree - 1,
         NEW low, low = Store!Smallest(Held(l), l.n - l.n \div 2),
         NEW right, right = Store!PartOf(Entries(l), Held(l) \ low)
  PROVE  /\ Entries(LowHalf(Arranged(l, order))) = Store!PartOf(Entries(l), low)
         /\ Entries(HighHalf(Arranged(l, order))) = right
         /\ SplitKey(Arranged(l, order)) = Store!MinKey(Store!Leaf(right))
<1> DEFINE a == Arranged(l, order)
           lo == {s \in a.bits : s < LeafDegree}
           hi == {s \in a.bits : s >= LeafDegree}
           L == {a.kv[s].key : s \in lo}
           H == {a.kv[s].key : s \in hi}
<1>1. LeafDegree \in Nat \ {0, 1}
  BY LeafAssumption DEF LeafAssumption
<1>2. /\ SlotInv(a) /\ a.bits = 0 .. l.n - 1 /\ a.n = l.n
      /\ Entries(a) = Entries(l) /\ Held(a) = Held(l)
  BY ArrangedSound, ArrangedEntries
<1>3. /\ SlotInv(LowHalf(a)) /\ SlotInv(HighHalf(a))
  BY <1>2, HalvesSound
<1>4. a = [bits |-> a.bits, kv |-> a.kv, fp |-> a.fp, n |-> a.n]
  BY <1>2, LeafFields DEF SlotInv
<1>5. Half(a.n) = LeafDegree /\ l.n - l.n \div 2 = LeafDegree
  BY <1>1, <1>2 DEF Half
<1>6. /\ \A i, j \in a.bits : i <= LeafDegree /\ LeafDegree <= j => a.kv[i].key <= a.kv[j].key
  <2>1. \A i, j \in 0 .. l.n - 1 : i <= Half(l.n) /\ Half(l.n) <= j
                                   => l.kv[order[i]].key <= l.kv[order[j]].key
    BY DEF Orders
  <2> HIDE DEF a
  <2> QED BY <1>2, <1>5, <2>1, ArrangedEntries DEF a
<1>7. \A i, j \in a.bits : a.kv[i].key = a.kv[j].key => i = j
  BY <1>2 DEF SlotInv
<1>8. LeafDegree \in a.bits /\ \A s \in a.bits : s \in Nat /\ a.kv[s].key \in Nat
  <2>1. \A s \in a.bits : a.kv[s].key \in Keys /\ Keys \subseteq Nat
    BY <1>2, LeafAssumption DEF SlotInv, LeafAssumption
  <2>2. LeafDegree \in 0 .. l.n - 1 /\ \A s \in 0 .. l.n - 1 : s \in Nat
    BY <1>1
  <2> HIDE DEF a
  <2> QED BY <1>2, <2>1, <2>2
<1> HIDE DEF a
<1>9. /\ LowHalf(a).bits = lo /\ LowHalf(a).kv = a.kv /\ LowHalf(a).n = LeafDegree
      /\ HighHalf(a).bits = hi /\ HighHalf(a).kv = a.kv
  <2>1. LowHalf(a) = [a EXCEPT !.bits = lo, !.n = LeafDegree]
    BY <1>5 DEF LowHalf
  <2>2. HighHalf(a) = [a EXCEPT !.bits = hi, !.n = a.n - LeafDegree]
    BY <1>5 DEF HighHalf
  <2> HIDE DEF lo, hi
  <2> QED BY <1>4, <2>1, <2>2
<1>10. lo \subseteq a.bits /\ hi \subseteq a.bits
  OBVIOUS
<1>11. L = Held(LowHalf(a)) /\ Cardinality(L) = LeafDegree
  <2>1. L = Held(LowHalf(a))
    BY <1>9 DEF Held
  <2> HIDE DEF L
  <2> QED BY <1>3, <1>9, <2>1, EntriesOf
<1>12. H = Held(l) \ L /\ L \subseteq Held(l)
  <2>1. Held(l) = {a.kv[s].key : s \in a.bits}
    BY <1>2 DEF Held
  <2>2. \A s \in a.bits : s \in lo \/ s \in hi
    BY <1>1, <1>8
  <2>3. \A i \in lo, j \in hi : a.kv[i].key # a.kv[j].key
    BY <1>1, <1>7, <1>8
  <2> HIDE DEF lo, hi
  <2>4. L \subseteq Held(l) /\ H \subseteq Held(l)
    BY <1>10, <2>1
  <2>5. ASSUME NEW x \in Held(l) \ L PROVE x \in H
    BY <2>1, <2>2
  <2>6. ASSUME NEW x \in H PROVE x \notin L
    BY <2>3
  <2> HIDE DEF L, H
  <2> QED BY <2>4, <2>5, <2>6
<1>13. \A x \in L, y \in H : x < y
  <2>1. ASSUME NEW i \in lo, NEW j \in hi PROVE a.kv[i].key < a.kv[j].key
    <3>1. i \in a.bits /\ j \in a.bits /\ i < LeafDegree /\ LeafDegree <= j
      BY <1>1, <1>8
    <3>2. /\ a.kv[i].key <= a.kv[j].key /\ a.kv[i].key # a.kv[j].key
          /\ a.kv[i].key \in Nat /\ a.kv[j].key \in Nat
      BY <1>1, <1>6, <1>7, <1>8, <3>1
    <3> QED BY <3>2
  <2> HIDE DEF lo, hi
  <2> QED BY <2>1
<1>14. low = L
  <2> HIDE DEF L, H
  <2>1. Held(l) \subseteq Nat /\ IsFiniteSet(Held(l))
    BY EntriesOf, LeafAssumption DEF LeafAssumption
  <2> QED BY <1>1, <1>5, <1>11, <1>12, <1>13, <2>1, SmallestIs
<1>15. Entries(LowHalf(a)) = Store!PartOf(Entries(l), low)
  <2> HIDE DEF lo, hi
  <2>1. Entries(LowHalf(a)) = Store!PartOf(Entries(a), L)
    BY <1>2, <1>3, <1>9, <1>10, FewerEntries
  <2> QED BY <1>2, <1>14, <2>1
<1>16. Entries(HighHalf(a)) = right
  <2> HIDE DEF lo, hi
  <2>1. Entries(HighHalf(a)) = Store!PartOf(Entries(a), H)
    BY <1>2, <1>3, <1>9, <1>10, FewerEntries
  <2> QED BY <1>2, <1>12, <1>14, <2>1
<1>17. SplitKey(a) = Store!MinKey(Store!Leaf(right))
  <2> DEFINE key == a.kv[LeafDegree].key
  <2>1. SplitKey(a) = key
    BY <1>5 DEF SplitKey
  <2>2. DOMAIN right = H
    BY <1>12, <1>14 DEF Store!PartOf
  <2>3. Store!MinKey(Store!Leaf(right)) = CHOOSE k \in H : \A j \in H : k <= j
    BY <2>2 DEF Store!MinKey, Store!Leaf
  <2>4. key \in H /\ \A j \in H : key <= j /\ j \in Nat
    <3>1. LeafDegree \in hi
      BY <1>1, <1>8
    <3>2. \A j \in hi : key <= a.kv[j].key /\ a.kv[j].key \in Nat
      BY <1>1, <1>6, <1>8
    <3> HIDE DEF hi
    <3> QED BY <3>1, <3>2
  <2> HIDE DEF key, H
  <2>5. \A k \in H : (\A j \in H : k <= j) => k = key
    BY <2>4
  <2> QED BY <2>1, <2>3, <2>4, <2>5
<1> QED BY <1>15, <1>16, <1>17 DEF a
-----------------------------------------------------------------------------
\* The leaf that was split off, as LeafStore has it.
NewOf(nw) ==
  [i \in DOMAIN nw |->
     [key |-> nw[i].key, node |-> [leaf |-> TRUE, kv |-> Entries(nw[i].leaf)]]]

NewShape == new = <<>> \/ DOMAIN new = {1}

LEMMA NoneNew == NewOf(<<>>) = <<>>
BY DEF NewOf

LEMMA OneNew ==
  ASSUME NEW k, NEW l
  PROVE  /\ NewOf(<<[key |-> k, leaf |-> l]>>)
              = <<[key |-> k, node |-> [leaf |-> TRUE, kv |-> Entries(l)]]>>
         /\ DOMAIN <<[key |-> k, leaf |-> l]>> = {1}
<1> DEFINE nw == <<[key |-> k, leaf |-> l]>>
           r == [key |-> k, node |-> [leaf |-> TRUE, kv |-> Entries(l)]]
<1>1. DOMAIN nw = {1} /\ nw[1] = [key |-> k, leaf |-> l]
  OBVIOUS
<1> HIDE DEF nw
<1>2. nw[1].key = k /\ nw[1].leaf = l
  BY <1>1
<1>3. NewOf(nw) = [i \in {1} |-> [key |-> nw[i].key,
                                  node |-> [leaf |-> TRUE, kv |-> Entries(nw[i].leaf)]]]
  BY <1>1 DEF NewOf
<1>4. NewOf(nw) = [i \in {1} |-> r]
  BY <1>2, <1>3
<1> HIDE DEF r
<1>5. [i \in {1} |-> r] = <<r>>
  OBVIOUS
<1> QED BY <1>1, <1>4, <1>5 DEF nw, r

LEMMA NewShapeStep == NewShape /\ [LeafNext]_leafVars => NewShape'
<1> SUFFICES ASSUME NewShape, [LeafNext]_leafVars PROVE NewShape'
  OBVIOUS
<1>1. CASE \E k \in Keys, v \in Values : InsertSplit(k, v)
  <2>1. PICK key, l : new' = <<[key |-> key, leaf |-> l]>>
    BY <1>1 DEF InsertSplit
  <2> QED BY <2>1, OneNew DEF NewShape
<1>2. CASE ~(\E k \in Keys, v \in Values : InsertSplit(k, v))
  BY <1>2 DEF LeafNext, leafVars, NewShape, Create, Reload, Visit, LeastKey,
              InsertPresent, InsertNonFull, Update, Delete, Find
<1> QED BY <1>1, <1>2

\* A leaf with no bit set has the empty map.
LEMMA NoEntries ==
  ASSUME NEW l, l.bits = {}
  PROVE  Entries(l) = <<>>
<1> DEFINE D == {l.kv[s].key : s \in l.bits}
           f == [k \in D |-> ValueOf(l, k)]
<1>1. D = {}
  OBVIOUS
<1>2. Entries(l) = f
  BY DEF Entries
<1>3. f = [k \in {} |-> ValueOf(l, k)]
  BY <1>1
<1>4. [k \in {} |-> ValueOf(l, k)] = <<>>
  OBVIOUS
<1> QED BY <1>2, <1>3, <1>4

\* Every call on the slots is the operation of LeafStore on their entries.
LEMMA InsertSimulated ==
  ASSUME SlotInv(leaf), NEW k \in Keys, NEW v \in Values,
         InsertPresent(k, v) \/ InsertNonFull(k, v)
  PROVE  /\ Entries(leaf') = Store!LeafInsert(Entries(leaf), k, v).node.kv
         /\ Store!LeafInsert(Entries(leaf), k, v).new = <<>>
<1> DEFINE e == Entries(leaf)
<1>1. DOMAIN e = Held(leaf) /\ Cardinality(Held(leaf)) = leaf.n
      /\ (Has(leaf, k) <=> k \in Held(leaf))
  BY EntriesOf
<1>2. k \in DOMAIN e \/ ~Store!LeafFull(Store!Cardinality(DOMAIN e))
  <2>1. /\ leaf.n \in Nat /\ LeafDegree \in Nat
    BY LeafFields, LeafAssumption DEF SlotInv, LeafAssumption
  <2>2. leaf.n < 2 * LeafDegree - 1 => ~(leaf.n >= 2 * LeafDegree - 1)
    BY <2>1
  <2> QED BY <1>1, <2>2, SameCardinality DEF InsertPresent, InsertNonFull, Store!LeafFull
<1>3. Entries(leaf') = Store!WithEntry(e, k, v)
  BY PutEntries, SetValueEntries DEF InsertPresent, InsertNonFull
<1> HIDE DEF e
<1>4. Store!LeafInsert(e, k, v)
        = [node |-> Store!Leaf(Store!WithEntry(e, k, v)), new |-> <<>>]
  BY <1>2 DEF Store!LeafInsert
<1> QED BY <1>3, <1>4 DEF e, Store!Leaf

LEMMA SplitSimulated ==
  ASSUME SlotInv(leaf), NEW k \in Keys, NEW v \in Values, InsertSplit(k, v)
  PROVE  /\ Entries(leaf') = Store!LeafInsert(Entries(leaf), k, v).node.kv
         /\ NewOf(new') = Store!LeafInsert(Entries(leaf), k, v).new
<1> DEFINE e     == Entries(leaf)
           low   == Store!Smallest(Held(leaf), leaf.n - leaf.n \div 2)
           left  == Store!PartOf(e, low)
           right == Store!PartOf(e, Held(leaf) \ low)
           key   == Store!MinKey(Store!Leaf(right))
           r     == Store!LeafInsert(e, k, v)
<1>1. /\ DOMAIN e = Held(leaf) /\ Cardinality(Held(leaf)) = leaf.n
      /\ k \notin Held(leaf) /\ Lacks(leaf, k)
  BY EntriesOf, IndexFound DEF InsertSplit
<1>2. leaf.n = 2 * LeafDegree - 1 /\ Store!LeafFull(leaf.n)
  <2>1. /\ leaf.n >= 2 * LeafDegree - 1 /\ leaf.n <= 2 * LeafDegree - 1
        /\ leaf.n \in Nat /\ LeafDegree \in Nat
    BY LeafFields, LeafAssumption DEF InsertSplit, SlotInv, LeafAssumption
  <2> QED BY <2>1 DEF Store!LeafFull
<1>3. Store!LeafInsert(e, k, v)
        = IF k < key
          THEN [node |-> Store!Leaf(Store!WithEntry(left, k, v)),
                new |-> <<[key |-> key, node |-> Store!Leaf(right)]>>]
          ELSE [node |-> Store!Leaf(left),
                new |-> <<[key |-> key, node |-> Store!Leaf(Store!WithEntry(right, k, v))]>>]
  <2>1. Store!Cardinality(DOMAIN e) = leaf.n
    BY <1>1, SameCardinality
  <2> HIDE DEF e
  <2> QED BY <1>1, <1>2, <2>1 DEF Store!LeafInsert
<1>4. PICK order \in Orders(leaf) :
        LET l == Arranged(leaf, order)
            a == IF k < SplitKey(l) THEN Put(LowHalf(l), k, v) ELSE LowHalf(l)
            b == IF k < SplitKey(l) THEN HighHalf(l) ELSE Put(HighHalf(l), k, v)
        IN leaf' = a /\ new' = <<[key |-> SplitKey(l), leaf |-> b]>>
  BY DEF InsertSplit
<1> DEFINE l == Arranged(leaf, order)
<1>5. /\ Entries(LowHalf(l)) = left /\ Entries(HighHalf(l)) = right
      /\ SplitKey(l) = key
  <2> HIDE DEF low, right
  <2> QED BY <1>2, HalvesEntries DEF low, right
<1>6. /\ SlotInv(LowHalf(l)) /\ LowHalf(l).n < 2 * LeafDegree - 1
      /\ SlotInv(HighHalf(l)) /\ HighHalf(l).n < 2 * LeafDegree - 1
      /\ ~Has(LowHalf(l), k) /\ ~Has(HighHalf(l), k)
  <2>1. /\ SlotInv(l) /\ l.bits = 0 .. l.n - 1
        /\ l.n = 2 * LeafDegree - 1 /\ Lacks(l, k)
    BY <1>1, <1>2, ArrangedSound
  <2> HIDE DEF l
  <2>2. /\ SlotInv(LowHalf(l)) /\ LowHalf(l).n < 2 * LeafDegree - 1
        /\ SlotInv(HighHalf(l)) /\ HighHalf(l).n < 2 * LeafDegree - 1
        /\ Lacks(LowHalf(l), k) /\ Lacks(HighHalf(l), k)
    BY <2>1, HalvesSound
  <2> QED BY <2>2 DEF Lacks, Has, Matches
<1>7. /\ Entries(Put(LowHalf(l), k, v)) = Store!WithEntry(left, k, v)
      /\ Entries(Put(HighHalf(l), k, v)) = Store!WithEntry(right, k, v)
  <2> HIDE DEF l, left, right
  <2> QED BY <1>5, <1>6, PutEntries
<1>8. /\ k < key => /\ leaf' = Put(LowHalf(l), k, v)
                    /\ new' = <<[key |-> key, leaf |-> HighHalf(l)]>>
      /\ ~(k < key) => /\ leaf' = LowHalf(l)
                       /\ new' = <<[key |-> key, leaf |-> Put(HighHalf(l), k, v)]>>
  BY <1>4, <1>5
<1> HIDE DEF e, low, left, right, key, l
<1>9. CASE k < key
  <2>1. NewOf(new') = <<[key |-> key, node |-> Store!Leaf(right)]>>
    BY <1>5, <1>8, <1>9, OneNew DEF Store!Leaf
  <2>2. Entries(leaf') = Store!WithEntry(left, k, v)
    BY <1>7, <1>8, <1>9
  <2>3. r = [node |-> Store!Leaf(Store!WithEntry(left, k, v)),
             new |-> <<[key |-> key, node |-> Store!Leaf(right)]>>]
    BY <1>3, <1>9
  <2>4. r.node.kv = Store!WithEntry(left, k, v) /\ r.new = NewOf(new')
    <3>1. Store!Leaf(Store!WithEntry(left, k, v)).kv = Store!WithEntry(left, k, v)
      BY DEF Store!Leaf
    <3> HIDE DEF r
    <3> QED BY <2>1, <2>3, <3>1
  <2> QED BY <2>2, <2>4 DEF e
<1>10. CASE ~(k < key)
  <2>1. NewOf(new') = <<[key |-> key, node |-> Store!Leaf(Store!WithEntry(right, k, v))]>>
    BY <1>7, <1>8, <1>10, OneNew DEF Store!Leaf
  <2>2. Entries(leaf') = left
    BY <1>5, <1>8, <1>10
  <2>3. r = [node |-> Store!Leaf(left),
             new |-> <<[key |-> key, node |-> Store!Leaf(Store!WithEntry(right, k, v))]>>]
    BY <1>3, <1>10
  <2>4. r.node.kv = left /\ r.new = NewOf(new')
    <3>1. Store!Leaf(left).kv = left
      BY DEF Store!Leaf
    <3> HIDE DEF r
    <3> QED BY <2>1, <2>3, <3>1
  <2> QED BY <2>2, <2>4 DEF e
<1> QED BY <1>9, <1>10

LEMMA CallSimulated ==
  ASSUME LeafInv, NewShape, LeafNext
  PROVE  Store!StoreNext \/ UNCHANGED <<Entries(leaf), NewOf(new), ret>>
<1> DEFINE e == Entries(leaf)
<1>1. /\ SlotInv(leaf)
      /\ ~live => leaf.bits = {} /\ new = <<>>
  BY DEF LeafInv, Leaves
<1>2. /\ DOMAIN e = Held(leaf)
      /\ \A k : Has(leaf, k) <=> k \in Held(leaf)
      /\ \A k : Has(leaf, k) => ValueOf(leaf, k) = e[k]
      /\ IsFiniteSet(Held(leaf)) /\ Cardinality(Held(leaf)) = leaf.n
      /\ leaf = [bits |-> leaf.bits, kv |-> leaf.kv, fp |-> leaf.fp, n |-> leaf.n]
  BY <1>1, EntriesOf, LeafFields DEF SlotInv
<1>3. new' = <<>> => NewOf(new') = <<>>
  BY NoneNew
<1>4. CASE Create
  <2>1. leaf' = [leaf EXCEPT !.n = 0] /\ ~live /\ new' = <<>> /\ Returns("create", 0, 0)
    BY <1>4 DEF Create
  <2>2. leaf'.bits = {} /\ leaf.bits = {}
    BY <1>1, <1>2, <2>1
  <2>3. Entries(leaf) = <<>> /\ Entries(leaf') = <<>>
    BY <2>2, NoEntries
  <2>4. Store!Create
    BY <1>3, <2>1, <2>3 DEF Store!Create, Store!Returns, Returns, NewOf
  <2> QED BY <2>4 DEF Store!StoreNext
<1>5. CASE Reload
  <2>1. leaf' = leaf
    BY <1>1, <1>2, <1>5 DEF Reload, Reloaded, SlotInv
  <2>2. new' = <<>> /\ Returns("load", 0, 0)
    BY <1>5 DEF Reload
  <2>3. Store!Reload
    BY <1>3, <2>1, <2>2 DEF Store!Reload, Store!Returns, Returns, NewOf
  <2> QED BY <2>3 DEF Store!StoreNext
<1>6. CASE Visit
  <2>1. new # <<>> /\ leaf' = new[1].leaf /\ new' = <<>> /\ ret' = ret
    BY <1>6 DEF Visit
  <2>2. DOMAIN NewOf(new) = {1} /\ NewOf(new)[1].node.kv = Entries(leaf')
    <3>1. DOMAIN new = {1}
      BY <2>1 DEF NewShape
    <3>2. NewOf(new)[1] = [key |-> new[1].key, node |-> [leaf |-> TRUE, kv |-> Entries(new[1].leaf)]]
      BY <3>1 DEF NewOf
    <3>3. NewOf(new)[1].node.kv = Entries(new[1].leaf)
      BY <3>2
    <3> QED BY <2>1, <3>1, <3>3 DEF NewOf
  <2>3. NewOf(new) # <<>>
    <3>1. DOMAIN <<>> # {1}
      OBVIOUS
    <3> QED BY <2>2, <3>1
  <2>4. Store!Visit
    BY <1>3, <2>1, <2>2, <2>3 DEF Store!Visit, NewOf
  <2> QED BY <2>4 DEF Store!StoreNext
<1>7. CASE LeastKey
  <2>1. /\ leaf.bits # {} /\ leaf' = leaf /\ new' = <<>>
        /\ Returns("getMinKey", 0, LeastKeyOf(leaf))
    BY <1>7 DEF LeastKey
  <2>2. LeastKeyOf(leaf) = Store!MinKey(Store!Leaf(e))
    <3>1. LeastKeyOf(leaf) = CHOOSE x \in Held(leaf) : \A y \in Held(leaf) : x <= y
      BY DEF LeastKeyOf, Held, Min
    <3> HIDE DEF e
    <3>2. Store!MinKey(Store!Leaf(e)) = CHOOSE x \in DOMAIN e : \A y \in DOMAIN e : x <= y
      BY DEF Store!MinKey, Store!Leaf
    <3> QED BY <1>2, <3>1, <3>2
  <2>3. e # <<>>
    <3>1. Held(leaf) # {}
      BY <2>1 DEF Held
    <3> HIDE DEF e
    <3> QED BY <1>2, <3>1
  <2>4. Store!LeastKey
    BY <1>3, <2>1, <2>2, <2>3 DEF Store!LeastKey, Store!Returns, Returns, NewOf
  <2> QED BY <2>4 DEF Store!StoreNext
<1>8. ASSUME NEW k \in Keys, NEW v \in Values, InsertPresent(k, v) \/ InsertNonFull(k, v)
      PROVE  Store!StoreNext
  <2>1. /\ Entries(leaf') = Store!LeafInsert(e, k, v).node.kv
        /\ Store!LeafInsert(e, k, v).new = <<>>
    BY <1>1, <1>8, InsertSimulated
  <2>2. new' = <<>> /\ Returns("insert", k, 0)
    BY <1>8 DEF InsertPresent, InsertNonFull
  <2>3. Store!Insert(k, v)
    BY <1>3, <2>1, <2>2 DEF Store!Insert, Store!Returns, Returns, NewOf
  <2> QED BY <2>3 DEF Store!StoreNext
<1>9. ASSUME NEW k \in Keys, NEW v \in Values, InsertSplit(k, v)
      PROVE  Store!StoreNext
  <2>1. /\ Entries(leaf') = Store!LeafInsert(e, k, v).node.kv
        /\ NewOf(new') = Store!LeafInsert(e, k, v).new
    BY <1>1, <1>9, SplitSimulated
  <2>2. Returns("insert", k, 0)
    BY <1>9 DEF InsertSplit
  <2>3. Store!Insert(k, v)
    BY <2>1, <2>2 DEF Store!Insert, Store!Returns, Returns, NewOf
  <2> QED BY <2>3 DEF Store!StoreNext
<1>10. ASSUME NEW k \in Keys, NEW v \in Values, Update(k, v)
       PROVE  Store!StoreNext
  <2> DEFINE f == IF k \in DOMAIN e THEN [e EXCEPT ![k] = v] ELSE e
  <2>1. /\ leaf' = IF Has(leaf, k) THEN SetValue(leaf, k, v) ELSE leaf
        /\ new' = <<>> /\ Returns("update", k, Has(leaf, k))
    BY <1>10 DEF Update
  <2>2. Entries(leaf') = f
    BY <1>1, <1>2, <2>1, SetValueEntries
  <2>3. /\ Store!LeafUpdate(e, k, v).node.kv = f
        /\ Store!LeafUpdate(e, k, v).found = (k \in DOMAIN e)
    BY DEF Store!LeafUpdate, Store!Leaf
  <2>4. Has(leaf, k) = (k \in DOMAIN e)
    BY <1>2 DEF Has
  <2> HIDE DEF f
  <2>5. Returns("update", k, Store!LeafUpdate(e, k, v).found)
    BY <2>1, <2>3, <2>4
  <2>6. Store!Update(k, v)
    BY <1>3, <2>1, <2>2, <2>3, <2>5 DEF Store!Update, Store!Returns, Returns, NewOf
  <2> QED BY <2>6 DEF Store!StoreNext
<1>11. ASSUME NEW k \in Keys, Delete(k)
       PROVE  Store!StoreNext
  <2> DEFINE f == Store!PartOf(e, DOMAIN e \ {k})
  <2>1. /\ leaf' = IF Has(leaf, k) THEN Drop(leaf, k) ELSE leaf
        /\ live /\ live' = ~(Has(leaf, k) /\ leaf.n = 1)
        /\ new' = <<>> /\ Returns("remove", k, <<Has(leaf, k), ~live'>>)
    BY <1>11 DEF Delete
  <2>2. Entries(leaf') = f
    <3>1. CASE Has(leaf, k)
      <4>1. DOMAIN e = Held(leaf)
        BY <1>2
      <4> HIDE DEF e
      <4>2. Entries(Drop(leaf, k)) = Store!PartOf(e, Held(leaf) \ {k})
        BY <1>1, <3>1, DropEntries DEF e
      <4> QED BY <2>1, <3>1, <4>1, <4>2
    <3>2. CASE ~Has(leaf, k)
      <4>1. DOMAIN e \ {k} = Held(leaf) /\ e = [j \in Held(leaf) |-> e[j]]
        BY <1>1, <1>2, <3>2, EntriesOf
      <4> HIDE DEF e
      <4>2. f = e
        BY <4>1 DEF Store!PartOf
      <4> QED BY <2>1, <3>2, <4>2 DEF e
    <3> QED BY <3>1, <3>2
  <2>3. /\ Store!LeafRemove(e, k).node.kv = f
        /\ Store!LeafRemove(e, k).removed = (k \in DOMAIN e)
        /\ Store!LeafRemove(e, k).gone = (DOMAIN e = {k})
    BY DEF Store!LeafRemove, Store!Leaf
  <2>4. (Has(leaf, k)) = (k \in DOMAIN e) /\ (~live') = (DOMAIN e = {k})
    <3>1. (Has(leaf, k) /\ leaf.n = 1) <=> Held(leaf) = {k}
      <4>1. ASSUME k \in Held(leaf), leaf.n = 1 PROVE Held(leaf) = {k}
        <5>1. Cardinality(Held(leaf) \ {k}) = 0 /\ IsFiniteSet(Held(leaf) \ {k})
          BY <1>2, <4>1, FS_RemoveElement
        <5>2. Held(leaf) \ {k} = {}
          BY <5>1, FS_EmptySet
        <5> QED BY <4>1, <5>2
      <4>2. ASSUME Held(leaf) = {k} PROVE leaf.n = 1
        BY <1>2, <4>2, FS_Singleton
      <4>3. Has(leaf, k) <=> k \in Held(leaf)
        BY <1>2
      <4> QED BY <4>1, <4>2, <4>3
    <3>2. DOMAIN e = Held(leaf) /\ (Has(leaf, k) <=> k \in Held(leaf))
      BY <1>2
    <3> HIDE DEF e
    <3>3. Has(leaf, k) = (k \in DOMAIN e)
      BY <3>2 DEF Has
    <3>4. (~live') = (DOMAIN e = {k})
      BY <2>1, <3>1, <3>2
    <3> QED BY <3>3, <3>4
  <2> HIDE DEF f
  <2>5. Returns("remove", k, <<Store!LeafRemove(e, k).removed, Store!LeafRemove(e, k).gone>>)
    BY <2>1, <2>3, <2>4
  <2>6. Store!Delete(k)
    BY <1>3, <2>1, <2>2, <2>3, <2>5 DEF Store!Delete, Store!Returns, Returns, NewOf
  <2> QED BY <2>6 DEF Store!StoreNext
<1>12. ASSUME NEW k \in Keys, Find(k)
       PROVE  Store!StoreNext
  <2>1. /\ Returns("find", k, IF Has(leaf, k) THEN ValueOf(leaf, k) ELSE NoValue)
        /\ new' = <<>> /\ leaf' = leaf
    BY <1>12 DEF Find
  <2>2. (IF Has(leaf, k) THEN ValueOf(leaf, k) ELSE NoValue) = Store!LeafFind(e, k)
    BY <1>2 DEF Store!LeafFind
  <2> HIDE DEF e
  <2>3. Returns("find", k, Store!LeafFind(e, k))
    BY <2>1, <2>2
  <2>4. Store!Find(k)
    BY <1>3, <2>1, <2>3 DEF Store!Find, Store!Returns, Returns, NewOf, e
  <2> QED BY <2>4 DEF Store!StoreNext
<1> QED BY <1>4, <1>5, <1>6, <1>7, <1>8, <1>9, <1>10, <1>11, <1>12 DEF LeafNext

\* The slots of a leaf do what the tree expects of it: whatever order
\* findSplitKey leaves, whichever fingerprints collide, and through reuse and
\* reloads, each operation is the one on the map from keys to values, a split
\* moves the upper half, and the key it returns is the least one moved.
THEOREM SlotsImplementMap == LeafSpec => ImplementsLeafStore
<1>1. LeafInit => Store!StoreInit /\ NewShape
  <2> SUFFICES ASSUME LeafInit PROVE Store!StoreInit /\ NewShape
    OBVIOUS
  <2>1. Entries(leaf) = <<>>
    <3>1. leaf.bits = {}
      BY DEF LeafInit, Zeroed
    <3> QED BY <3>1, NoEntries
  <2>2. NewOf(new) = <<>> /\ new = <<>>
    BY NoneNew DEF LeafInit
  <2> QED BY <2>1, <2>2 DEF LeafInit, Store!StoreInit, NewShape, NewOf
<1>2. LeafInv /\ NewShape /\ [LeafNext]_leafVars
        => [Store!StoreNext]_<<Entries(leaf), NewOf(new), ret>>
  <2> SUFFICES ASSUME LeafInv, NewShape, [LeafNext]_leafVars
               PROVE  [Store!StoreNext]_<<Entries(leaf), NewOf(new), ret>>
    OBVIOUS
  <2>1. CASE LeafNext
    BY <2>1, CallSimulated
  <2>2. CASE UNCHANGED leafVars
    BY <2>2 DEF leafVars
  <2> QED BY <2>1, <2>2
<1>3. LeafSpec => []NewShape
  BY <1>1, NewShapeStep, PTL DEF LeafSpec
<1>4. [Store!StoreNext]_<<Entries(leaf), NewOf(new), ret>>
        => [Store!StoreNext]_<<Entries(leaf), [i \in DOMAIN new |->
             [key |-> new[i].key, node |-> [leaf |-> TRUE, kv |-> Entries(new[i].leaf)]]], ret>>
  BY DEF NewOf
<1> QED BY <1>1, <1>2, <1>3, <1>4, LeafInvHolds, PTL
        DEF LeafSpec, ImplementsLeafStore, Store!StoreSpec
=============================================================================
