-------------------------- MODULE DurableLeafProofs ---------------------------
(***************************************************************************)
(* Theorems about a leaf between its stores and its flushes, for leaves of *)
(* any degree and lines of any size, any keys and fingerprints, and any    *)
(* number of crashes.                                                      *)
(***************************************************************************)
EXTENDS DurableLeaf, BasicLemmas

Pairs  == [key : Keys \cup {0}, val : Values \cup {0}]
Prints == {0} \cup {Hash[k] : k \in Keys}

\* The slots of a leaf, and what they hold, are of their types.
Leafy(l) ==
  /\ l = [bits |-> l.bits, kv |-> l.kv, fp |-> l.fp, n |-> l.n]
  /\ l.bits \subseteq Slots
  /\ l.kv \in [Slots -> Pairs] /\ l.fp \in [Slots -> Prints] /\ l.n \in Int

\* What flushes and evictions make of the slots on disk: each part of them is
\* what it was, or what the process sees.
Closer(d) ==
  /\ Leafy(d)
  /\ \A s \in Slots :
       /\ d.kv[s].key = disk.kv[s].key \/ d.kv[s].key = mem.kv[s].key
       /\ d.kv[s].val = disk.kv[s].val \/ d.kv[s].val = mem.kv[s].val
       /\ d.fp[s] = disk.fp[s] \/ d.fp[s] = mem.fp[s]
       /\ s \in d.bits => s \in disk.bits \/ s \in mem.bits
       /\ s \in disk.bits /\ s \in mem.bits => s \in d.bits

SplitPcs == {"arrange", "leftBits", "right", "halved"}

\* How far the slots on disk are behind, at every flush of a call.
BehindInv ==
  /\ \A s \in mem.bits : s \in disk.bits \/ (s = arg.slot /\ pc \in {"entry", "bit"})
  /\ \A s \in disk.bits : s \in mem.bits \/ s \in ghosts \/ (s = arg.slot /\ pc = "cleared")
  /\ \A s \in Slots :
       /\ disk.kv[s].key = mem.kv[s].key \/ (s = arg.slot /\ pc = "entry")
       /\ disk.kv[s].val = mem.kv[s].val \/ (s = arg.slot /\ pc \in {"entry", "value"})
       /\ \/ disk.fp[s] = mem.fp[s]
          \/ (s = arg.slot /\ pc \in {"entry", "bit", "fingerprint"})

\* The call in progress, as its next flush tells.
CallInv ==
  /\ pc \in {"entry", "bit", "fingerprint"} => arg.op = "insert" /\ arg.slot \in mem.bits
  /\ pc = "value" => arg.op = "update" /\ arg.slot \in mem.bits
  /\ pc = "cleared" => arg.op = "remove" /\ arg.slot \in Slots \ mem.bits
  /\ pc = "idle" => arg = NoCall
  /\ pc \in SplitPcs => arg.op = "split"
  /\ pc \in {"idle", "entry", "bit", "fingerprint", "value", "cleared"} \cup SplitPcs

DurInv ==
  /\ Leafy(mem) /\ Leafy(disk)
  /\ CallInv
  /\ pc = "arrange" => Leafy(right) /\ right.n = Cardinality(right.bits)
  /\ pc \notin SplitPcs => BehindInv
-----------------------------------------------------------------------------
\* What a flush or an eviction writes.
LEMMA WrittenCloser ==
  ASSUME Leafy(mem), Leafy(disk), NEW s \in Slots
  PROVE  /\ Closer(WithLine(s)) /\ Closer(WithKey(s))
         /\ Closer(WithValue(s)) /\ Closer(WithFp(s))
         /\ Closer([disk EXCEPT !.kv[s] = mem.kv[s]])
<1>1. /\ disk = [bits |-> disk.bits, kv |-> disk.kv, fp |-> disk.fp, n |-> disk.n]
      /\ disk.bits \subseteq Slots /\ disk.n \in Int /\ mem.bits \subseteq Slots
      /\ disk.kv \in [Slots -> Pairs] /\ disk.fp \in [Slots -> Prints]
      /\ mem.kv \in [Slots -> Pairs] /\ mem.fp \in [Slots -> Prints]
  BY DEF Leafy
<1>2. ASSUME NEW b, b \subseteq Slots, NEW kv \in [Slots -> Pairs], NEW fp \in [Slots -> Prints],
             NEW d, d = [bits |-> b, kv |-> kv, fp |-> fp, n |-> disk.n],
             \A t \in Slots :
               /\ kv[t].key = disk.kv[t].key \/ kv[t].key = mem.kv[t].key
               /\ kv[t].val = disk.kv[t].val \/ kv[t].val = mem.kv[t].val
               /\ fp[t] = disk.fp[t] \/ fp[t] = mem.fp[t]
               /\ t \in b => t \in disk.bits \/ t \in mem.bits
               /\ t \in disk.bits /\ t \in mem.bits => t \in b
      PROVE  Closer(d)
  BY <1>1, <1>2 DEF Closer, Leafy
<1>3. Closer(WithLine(s))
  <2> DEFINE b == (disk.bits \ Line(s)) \cup (mem.bits \cap Line(s))
  <2>1. WithLine(s) = [disk EXCEPT !.bits = b]
    BY DEF WithLine
  <2>2. /\ b \subseteq Slots
        /\ \A t \in Slots : /\ t \in b => t \in disk.bits \/ t \in mem.bits
                            /\ t \in disk.bits /\ t \in mem.bits => t \in b
    BY <1>1
  <2> HIDE DEF b
  <2>3. WithLine(s) = [bits |-> b, kv |-> disk.kv, fp |-> disk.fp, n |-> disk.n]
    BY <1>1, <2>1
  <2> QED BY <1>1, <1>2, <2>2, <2>3
<1>4. ASSUME NEW p \in Pairs, p.key = disk.kv[s].key \/ p.key = mem.kv[s].key,
             p.val = disk.kv[s].val \/ p.val = mem.kv[s].val,
             NEW d, d = [disk EXCEPT !.kv = [disk.kv EXCEPT ![s] = p]]
      PROVE  Closer(d)
  <2> DEFINE kv == [disk.kv EXCEPT ![s] = p]
  <2>1. kv \in [Slots -> Pairs] /\ \A t \in Slots : kv[t] = IF t = s THEN p ELSE disk.kv[t]
    BY <1>1, <1>4
  <2> HIDE DEF kv
  <2>2. d = [bits |-> disk.bits, kv |-> kv, fp |-> disk.fp, n |-> disk.n]
    BY <1>1, <1>4 DEF kv
  <2> QED BY <1>1, <1>2, <1>4, <2>1, <2>2
<1>5. /\ disk.kv[s] \in Pairs /\ mem.kv[s] \in Pairs
  BY <1>1
<1>6. Closer(WithKey(s))
  <2> DEFINE p == [disk.kv[s] EXCEPT !.key = mem.kv[s].key]
  <2>1. p \in Pairs /\ p.key = mem.kv[s].key /\ p.val = disk.kv[s].val
    BY <1>5 DEF Pairs
  <2>2. WithKey(s) = [disk EXCEPT !.kv = [disk.kv EXCEPT ![s] = p]]
    BY DEF WithKey
  <2> HIDE DEF p
  <2> QED BY <1>4, <2>1, <2>2
<1>7. Closer(WithValue(s))
  <2> DEFINE p == [disk.kv[s] EXCEPT !.val = mem.kv[s].val]
  <2>1. p \in Pairs /\ p.key = disk.kv[s].key /\ p.val = mem.kv[s].val
    BY <1>5 DEF Pairs
  <2>2. WithValue(s) = [disk EXCEPT !.kv = [disk.kv EXCEPT ![s] = p]]
    BY DEF WithValue
  <2> HIDE DEF p
  <2> QED BY <1>4, <2>1, <2>2
<1>8. Closer([disk EXCEPT !.kv[s] = mem.kv[s]])
  BY <1>4, <1>5
<1>9. Closer(WithFp(s))
  <2> DEFINE fp == [disk.fp EXCEPT ![s] = mem.fp[s]]
  <2>1. WithFp(s) = [disk EXCEPT !.fp = fp]
    BY DEF WithFp
  <2>2. fp \in [Slots -> Prints] /\ \A t \in Slots : fp[t] = IF t = s THEN mem.fp[t] ELSE disk.fp[t]
    BY <1>1
  <2> HIDE DEF fp
  <2>3. WithFp(s) = [bits |-> disk.bits, kv |-> disk.kv, fp |-> fp, n |-> disk.n]
    BY <1>1, <2>1
  <2> QED BY <1>1, <1>2, <2>2, <2>3
<1> QED BY <1>3, <1>6, <1>7, <1>8, <1>9

\* What the operations make of the slots the process sees.
LEMMA PutEffect ==
  ASSUME NEW l, Leafy(l), l.bits # Slots, NEW k \in Keys, NEW v \in Values
  PROVE  LET pos == FirstZero(l)
             p   == Put(l, k, v)
         IN /\ pos \in Slots \ l.bits /\ \A s \in Slots \ l.bits : pos <= s
            /\ Leafy(p) /\ p.bits = l.bits \cup {pos}
            /\ p.kv[pos].key = k /\ p.kv[pos].val = v /\ p.fp[pos] = Hash[k]
            /\ \A s \in Slots : s # pos => p.kv[s] = l.kv[s] /\ p.fp[s] = l.fp[s]
<1> DEFINE pos == FirstZero(l)
           p == Put(l, k, v)
<1>1. pos \in Slots \ l.bits /\ \A s \in Slots \ l.bits : pos <= s
  <2>1. LeafDegree \in Nat /\ 2 * LeafDegree - 1 \in Int
    BY DurableLeafAssumption DEF DurableLeafAssumption
  <2>2. l.bits \subseteq Slots /\ Slots \subseteq Nat
    BY <2>1 DEF Slots, Leafy
  <2>3. Slots \ l.bits \subseteq Nat /\ Slots \ l.bits # {}
    BY <2>2
  <2> QED BY <2>3, MinIsLeast DEF FirstZero
<1> HIDE DEF pos
<1>2. p = [bits |-> l.bits \cup {pos}, kv |-> [l.kv EXCEPT ![pos] = [key |-> k, val |-> v]],
           fp |-> [l.fp EXCEPT ![pos] = Hash[k]], n |-> l.n + 1]
  BY DEF Put, pos
<1> DEFINE kv == [l.kv EXCEPT ![pos] = [key |-> k, val |-> v]]
           fp == [l.fp EXCEPT ![pos] = Hash[k]]
<1>3. /\ kv \in [Slots -> Pairs] /\ fp \in [Slots -> Prints]
      /\ kv[pos] = [key |-> k, val |-> v] /\ fp[pos] = Hash[k]
      /\ \A s \in Slots : s # pos => kv[s] = l.kv[s] /\ fp[s] = l.fp[s]
  BY <1>1 DEF Leafy, Pairs, Prints
<1> HIDE DEF kv, fp, p
<1>4. /\ p.bits = l.bits \cup {pos} /\ p.kv = kv /\ p.fp = fp /\ p.n = l.n + 1
      /\ p = [bits |-> p.bits, kv |-> p.kv, fp |-> p.fp, n |-> p.n]
  BY <1>2 DEF kv, fp
<1>5. Leafy(p)
  BY <1>1, <1>3, <1>4 DEF Leafy
<1>6. /\ Leafy(p) /\ p.bits = l.bits \cup {pos}
      /\ p.kv[pos].key = k /\ p.kv[pos].val = v /\ p.fp[pos] = Hash[k]
      /\ \A s \in Slots : s # pos => p.kv[s] = l.kv[s] /\ p.fp[s] = l.fp[s]
  BY <1>3, <1>4, <1>5
<1> QED BY <1>1, <1>6 DEF p, pos

LEMMA SetEffect ==
  ASSUME NEW l, Leafy(l), NEW k, NEW v \in Values, IndexOf(l, k) \in Slots
  PROVE  LET p == SetValue(l, k, v)
         IN /\ Leafy(p) /\ p.bits = l.bits /\ p.fp = l.fp
            /\ p.kv[IndexOf(l, k)].val = v
            /\ \A s \in Slots : p.kv[s].key = l.kv[s].key
            /\ \A s \in Slots : s # IndexOf(l, k) => p.kv[s].val = l.kv[s].val
<1> DEFINE pos == IndexOf(l, k)
           p == SetValue(l, k, v)
           pair == [l.kv[pos] EXCEPT !.val = v]
           kv == [l.kv EXCEPT ![pos] = pair]
<1>1. p = [l EXCEPT !.kv = kv]
  BY DEF SetValue
<1>2. l.kv[pos] \in Pairs
  BY DEF Leafy
<1> HIDE DEF pos
<1>3. pair \in Pairs /\ pair.key = l.kv[pos].key /\ pair.val = v
  BY <1>2 DEF Pairs
<1> HIDE DEF pair
<1>4. kv \in [Slots -> Pairs] /\ \A s \in Slots : kv[s] = IF s = pos THEN pair ELSE l.kv[s]
  BY <1>3 DEF Leafy, pos
<1> HIDE DEF kv, p
<1>5. /\ p.bits = l.bits /\ p.kv = kv /\ p.fp = l.fp /\ p.n = l.n
      /\ p = [bits |-> p.bits, kv |-> p.kv, fp |-> p.fp, n |-> p.n]
  BY <1>1 DEF Leafy
<1>6. Leafy(p)
  BY <1>4, <1>5 DEF Leafy
<1>7. /\ Leafy(p) /\ p.bits = l.bits /\ p.fp = l.fp
      /\ p.kv[pos].val = v
      /\ \A s \in Slots : p.kv[s].key = l.kv[s].key
      /\ \A s \in Slots : s # pos => p.kv[s].val = l.kv[s].val
  BY <1>3, <1>4, <1>5, <1>6 DEF pos
<1> QED BY <1>7 DEF p, pos

LEMMA DropEffect ==
  ASSUME NEW l, Leafy(l), NEW k
  PROVE  /\ Leafy(Drop(l, k)) /\ Drop(l, k).bits = l.bits \ {IndexOf(l, k)}
         /\ Drop(l, k).kv = l.kv /\ Drop(l, k).fp = l.fp
<1> DEFINE b == l.bits \ {IndexOf(l, k)}
           m == l.n - 1
<1>1. Drop(l, k) = [l EXCEPT !.bits = b, !.n = m]
  BY DEF Drop
<1>2. b \subseteq Slots /\ m \in Int
  BY DEF Leafy
<1> HIDE DEF b, m
<1>3. Drop(l, k) = [bits |-> b, kv |-> l.kv, fp |-> l.fp, n |-> m]
  BY <1>1, WithBits DEF Leafy
<1> QED BY <1>2, <1>3 DEF Leafy, b

\* findIndex finds a slot with a bit set, and the key.
LEMMA FoundSlot ==
  ASSUME NEW l, Leafy(l), NEW k, Has(l, k)
  PROVE  /\ IndexOf(l, k) \in l.bits /\ IndexOf(l, k) \in Slots
         /\ l.kv[IndexOf(l, k)].key = k /\ l.fp[IndexOf(l, k)] = Hash[k]
<1>1. LeafDegree \in Nat /\ 2 * LeafDegree - 1 \in Int
  BY DurableLeafAssumption DEF DurableLeafAssumption
<1>2. Matches(l, k) \subseteq Nat /\ Matches(l, k) # {}
  BY <1>1 DEF Matches, Has, Leafy, Slots
<1>3. IndexOf(l, k) \in Matches(l, k)
  BY <1>2, MinIsLeast DEF IndexOf
<1> QED BY <1>3 DEF Matches, Leafy

\* findSplitKey and split keep the types.
LEMMA SplitEffect ==
  ASSUME NEW l, Leafy(l), l.n = Cardinality(l.bits), NEW order \in Orders(l)
  PROVE  Leafy(LowHalf(Arranged(l, order)))
<1> DEFINE a == Arranged(l, order)
           b == 0 .. l.n - 1
           kv == [s \in Slots |-> IF s < l.n THEN l.kv[order[s]] ELSE l.kv[s]]
           fp == [s \in Slots |-> IF s < l.n THEN l.fp[order[s]] ELSE l.fp[s]]
<1>1. LeafDegree \in Nat \ {0, 1} /\ l.n \in Nat /\ l.n <= 2 * LeafDegree
  <2>1. LeafDegree \in Nat \ {0, 1} /\ 2 * LeafDegree - 1 \in Int /\ 0 \in Int
    BY DurableLeafAssumption DEF DurableLeafAssumption
  <2>2. /\ IsFiniteSet(Slots)
        /\ Cardinality(Slots)
             = IF 0 > 2 * LeafDegree - 1 THEN 0 ELSE (2 * LeafDegree - 1) - 0 + 1
    BY <2>1, FS_Interval DEF Slots
  <2>3. Cardinality(Slots) = 2 * LeafDegree
    BY <2>1, <2>2
  <2>4. /\ IsFiniteSet(l.bits) /\ Cardinality(l.bits) <= Cardinality(Slots)
        /\ Cardinality(l.bits) \in Nat
    BY <2>2, FS_Subset, FS_CardinalityType DEF Leafy
  <2> QED BY <2>1, <2>3, <2>4
<1>2. order \in [b -> l.bits]
  BY DEF Orders, Bijection, Injection
<1>3. \A s \in b : order[s] \in Slots
  BY <1>2 DEF Leafy
<1>4. b \subseteq Slots /\ \A s \in Slots : s < l.n => s \in b
  BY <1>1 DEF Slots
<1>5. a = [l EXCEPT !.bits = b, !.kv = kv, !.fp = fp]
  BY DEF Arranged
<1>6. kv \in [Slots -> Pairs] /\ fp \in [Slots -> Prints]
  <2>1. l.kv \in [Slots -> Pairs] /\ l.fp \in [Slots -> Prints]
    BY DEF Leafy
  <2> HIDE DEF b
  <2> QED BY <1>3, <1>4, <2>1
<1> HIDE DEF a, kv, fp, b
<1>7. a.bits = b /\ a.n = l.n /\ a = [bits |-> b, kv |-> kv, fp |-> fp, n |-> l.n]
  BY <1>5 DEF Leafy
<1> DEFINE c == {s \in b : s < Half(l.n)}
           h == Half(l.n)
<1>8. LowHalf(a) = [a EXCEPT !.bits = c, !.n = h]
  BY <1>7 DEF LowHalf
<1>9. c \subseteq Slots /\ h \in Int
  BY <1>1, <1>4 DEF Half
<1> HIDE DEF c, h
<1> DEFINE r == LowHalf(a)
<1>10. r = [bits |-> c, kv |-> kv, fp |-> fp, n |-> h]
  <2>1. a.kv = kv /\ a.fp = fp /\ a = [bits |-> a.bits, kv |-> a.kv, fp |-> a.fp, n |-> a.n]
    BY <1>7
  <2>2. r = [bits |-> c, kv |-> a.kv, fp |-> a.fp, n |-> h]
    BY <1>8, <2>1, WithBits
  <2> QED BY <2>1, <2>2
<1> HIDE DEF r
<1>11. Leafy(r)
  BY <1>6, <1>9, <1>10 DEF Leafy
<1> QED BY <1>11 DEF r, a
-----------------------------------------------------------------------------
LEMMA ZeroedLeafy == Leafy(Zeroed)
<1>1. Zeroed = [bits |-> Zeroed.bits, kv |-> Zeroed.kv, fp |-> Zeroed.fp, n |-> Zeroed.n]
  BY DEF Zeroed
<1>2. /\ Zeroed.bits = {} /\ Zeroed.n = 0
      /\ Zeroed.kv = [s \in Slots |-> [key |-> 0, val |-> 0]]
      /\ Zeroed.fp = [s \in Slots |-> 0]
  BY DEF Zeroed
<1>3. [s \in Slots |-> [key |-> 0, val |-> 0]] \in [Slots -> Pairs]
  BY DEF Pairs
<1>4. [s \in Slots |-> 0] \in [Slots -> Prints]
  BY DEF Prints
<1> QED BY <1>1, <1>2, <1>3, <1>4 DEF Leafy

LEMMA DurInvInit == DurableLeafInit => DurInv
<1> SUFFICES ASSUME DurableLeafInit PROVE DurInv
  OBVIOUS
<1>1. /\ mem = Zeroed /\ disk = Zeroed /\ pc = "idle" /\ arg = NoCall
      /\ Zeroed.bits = {}
  BY DEF DurableLeafInit, Zeroed
<1>2. CallInv
  BY <1>1 DEF CallInv, SplitPcs
<1>3. BehindInv
  BY <1>1 DEF BehindInv
<1> QED BY <1>1, <1>2, <1>3, ZeroedLeafy DEF DurInv, SplitPcs

\* What each flush leaves behind.
LEMMA FlushesCloser ==
  ASSUME DurInv, FlushEntry \/ FlushInsertedBit \/ FlushFingerprint \/ FlushValue \/ FlushClearedBit
  PROVE  /\ Closer(disk') /\ mem' = mem /\ BehindInv'
         /\ pc' \in {"bit", "fingerprint"} => arg' = arg
         /\ pc' \in {"bit", "fingerprint"} => pc \in {"entry", "bit"}
         /\ pc' \in {"bit", "fingerprint", "idle"}
         /\ pc' = "idle" => arg' = NoCall /\ before' = Found(mem)
<1>1. /\ Leafy(mem) /\ Leafy(disk) /\ CallInv
      /\ mem.bits \subseteq Slots /\ disk.bits \subseteq Slots
  BY DEF DurInv, Leafy
<1>2. BehindInv
  BY DEF DurInv, SplitPcs, FlushEntry, FlushInsertedBit, FlushFingerprint, FlushValue,
         FlushClearedBit, FlushEntryOnly, FlushBit, Flush
<1>3. CASE FlushEntry
  <2>1. /\ pc = "entry" /\ pc' = "bit" /\ arg' = arg /\ mem' = mem /\ ghosts' = ghosts
        /\ disk' = [disk EXCEPT !.kv[arg.slot] = mem.kv[arg.slot]]
    BY <1>3 DEF FlushEntry, FlushEntryOnly, Flush
  <2>2. arg.slot \in Slots
    BY <1>1, <2>1 DEF CallInv
  <2>3. Closer(disk')
    BY <1>1, <2>1, <2>2, WrittenCloser
  <2>4. disk'.kv[arg.slot] = mem.kv[arg.slot]
    BY <1>1, <2>1, <2>2 DEF Leafy
  <2>5. BehindInv'
    BY <1>1, <1>2, <2>1, <2>3, <2>4 DEF BehindInv, Closer
  <2> QED BY <2>1, <2>3, <2>5
<1>4. CASE FlushInsertedBit \/ FlushClearedBit
  <2>1. /\ disk' = WithLine(arg.slot) /\ mem' = mem /\ ghosts' = ghosts \ Line(arg.slot)
        /\ \/ pc = "bit" /\ pc' = "fingerprint" /\ arg' = arg
           \/ pc = "cleared" /\ pc' = "idle" /\ arg' = NoCall /\ before' = Found(mem)
    BY <1>4 DEF FlushInsertedBit, FlushClearedBit, FlushBit, Flush
  <2>2. arg.slot \in Slots
    BY <1>1, <2>1 DEF CallInv
  <2>3. Closer(disk')
    BY <1>1, <2>1, <2>2, WrittenCloser
  <2>4. disk'.bits = (disk.bits \ Line(arg.slot)) \cup (mem.bits \cap Line(arg.slot))
    BY <1>1, <2>1 DEF WithLine, Leafy
  <2>5. arg.slot \in Line(arg.slot)
    BY <2>2 DEF Line
  <2>6. /\ \A s \in mem.bits : s \in disk'.bits
        /\ \A s \in disk'.bits : s \in mem.bits \/ s \in ghosts'
    BY <1>2, <2>1, <2>4, <2>5 DEF BehindInv
  <2>7. \A s \in Slots :
          /\ disk'.kv[s].key = mem.kv[s].key /\ disk'.kv[s].val = mem.kv[s].val
          /\ disk'.fp[s] = mem.fp[s] \/ (s = arg.slot /\ pc' = "fingerprint")
    BY <1>2, <2>1, <2>3 DEF BehindInv, Closer
  <2>8. BehindInv'
    BY <2>1, <2>6, <2>7 DEF BehindInv
  <2> QED BY <2>1, <2>3, <2>8
<1>5. CASE FlushFingerprint
  <2>1. /\ pc = "fingerprint" /\ pc' = "idle" /\ arg' = NoCall /\ mem' = mem /\ ghosts' = ghosts
        /\ disk' = WithFp(arg.slot) /\ before' = Found(mem)
    BY <1>5 DEF FlushFingerprint, FlushEntryOnly, Flush
  <2>2. arg.slot \in Slots
    BY <1>1, <2>1 DEF CallInv
  <2>3. Closer(disk')
    BY <1>1, <2>1, <2>2, WrittenCloser
  <2>4. disk'.fp[arg.slot] = mem.fp[arg.slot]
    BY <1>1, <2>1, <2>2 DEF Leafy, WithFp
  <2>5. /\ \A s \in mem.bits : s \in disk'.bits
        /\ \A s \in disk'.bits : s \in mem.bits \/ s \in ghosts
    <3>1. disk'.bits \subseteq Slots
      BY <2>3 DEF Closer, Leafy
    <3> QED BY <3>1, <1>1, <1>2, <2>1, <2>3 DEF BehindInv, Closer
  <2>6. \A s \in Slots :
          /\ disk'.kv[s].key = mem.kv[s].key /\ disk'.kv[s].val = mem.kv[s].val
          /\ disk'.fp[s] = mem.fp[s]
    BY <1>2, <2>1, <2>3, <2>4 DEF BehindInv, Closer
  <2>7. BehindInv'
    BY <2>1, <2>5, <2>6 DEF BehindInv
  <2> QED BY <2>1, <2>3, <2>7
<1>6. CASE FlushValue
  <2>1. /\ pc = "value" /\ pc' = "idle" /\ arg' = NoCall /\ mem' = mem /\ ghosts' = ghosts
        /\ disk' = WithValue(arg.slot) /\ before' = Found(mem)
    BY <1>6 DEF FlushValue, FlushEntryOnly, Flush
  <2>2. arg.slot \in Slots
    BY <1>1, <2>1 DEF CallInv
  <2>3. Closer(disk')
    BY <1>1, <2>1, <2>2, WrittenCloser
  <2>4. disk'.kv[arg.slot].val = mem.kv[arg.slot].val
    BY <1>1, <2>1, <2>2 DEF Leafy, WithValue, Pairs
  <2>5. /\ \A s \in mem.bits : s \in disk'.bits
        /\ \A s \in disk'.bits : s \in mem.bits \/ s \in ghosts
    <3>1. disk'.bits \subseteq Slots
      BY <2>3 DEF Closer, Leafy
    <3> QED BY <3>1, <1>1, <1>2, <2>1, <2>3 DEF BehindInv, Closer
  <2>6. \A s \in Slots :
          /\ disk'.kv[s].key = mem.kv[s].key /\ disk'.kv[s].val = mem.kv[s].val
          /\ disk'.fp[s] = mem.fp[s]
    BY <1>2, <2>1, <2>3, <2>4 DEF BehindInv, Closer
  <2>7. BehindInv'
    BY <2>1, <2>5, <2>6 DEF BehindInv
  <2> QED BY <2>1, <2>3, <2>7
<1> QED BY <1>3, <1>4, <1>5, <1>6

LEMMA DurInvStep == DurInv /\ [DurableLeafNext]_durableLeafVars => DurInv'
<1> SUFFICES ASSUME DurInv, [DurableLeafNext]_durableLeafVars PROVE DurInv'
  OBVIOUS
<1>1. /\ Leafy(mem) /\ Leafy(disk) /\ CallInv
      /\ mem.bits \subseteq Slots /\ disk.bits \subseteq Slots
      /\ pc \notin SplitPcs => BehindInv
      /\ pc = "arrange" => Leafy(right) /\ right.n = Cardinality(right.bits)
  BY DEF DurInv, Leafy
<1>2. SUFFICES /\ Leafy(mem') /\ Leafy(disk') /\ CallInv'
               /\ pc' = "arrange" => Leafy(right') /\ right'.n = Cardinality(right'.bits)
               /\ pc' \notin SplitPcs => BehindInv'
  <2>1. Leafy(mem)' /\ Leafy(disk)' /\ (pc' = "arrange" => Leafy(right)')
    BY <1>2 DEF Leafy, Slots, Pairs, Prints
  <2> QED BY <1>2, <2>1 DEF DurInv, SplitPcs
<1>3. CASE Create
  <2>1. /\ pc = "idle" /\ mem' = [mem EXCEPT !.n = 0]
        /\ UNCHANGED <<disk, pc, arg, ghosts>>
    BY <1>3 DEF Create, splitVars
  <2>2. /\ Leafy(mem') /\ mem'.bits = mem.bits /\ mem'.kv = mem.kv /\ mem'.fp = mem.fp
    BY <1>1, <2>1 DEF Leafy
  <2>3. BehindInv
    BY <1>1, <2>1 DEF SplitPcs
  <2>4. BehindInv'
    BY <2>1, <2>2, <2>3 DEF BehindInv
  <2> QED BY <1>1, <2>1, <2>2, <2>4 DEF CallInv, SplitPcs
<1>4. CASE Evict
  <2>1. /\ UNCHANGED <<mem, right, pc, arg, ghosts>>
        /\ \/ disk' = disk
           \/ \E s \in Slots : disk' \in {WithLine(s), WithKey(s), WithValue(s), WithFp(s)}
    BY <1>4 DEF Evict
  <2>2. CASE disk' = disk
    BY <1>1, <2>1, <2>2 DEF CallInv, BehindInv
  <2>3. CASE \E s \in Slots : disk' \in {WithLine(s), WithKey(s), WithValue(s), WithFp(s)}
    <3>1. Closer(disk')
      BY <1>1, <2>3, WrittenCloser
    <3>2. Leafy(disk') /\ disk'.bits \subseteq Slots
      BY <3>1 DEF Closer, Leafy
    <3>3. BehindInv => BehindInv'
      BY <1>1, <2>1, <3>1, <3>2 DEF BehindInv, Closer
    <3> QED BY <1>1, <2>1, <3>2, <3>3 DEF CallInv
  <2> QED BY <2>1, <2>2, <2>3
<1>5. CASE Crash
  <2>1. /\ mem' = [disk EXCEPT !.n = Cardinality(disk.bits)] /\ disk' = disk
        /\ pc' = "idle" /\ arg' = NoCall
    BY <1>5 DEF Crash, Reloaded
  <2>2. Cardinality(disk.bits) \in Int
    <3>1. IsFiniteSet(Slots)
      <4>1. 2 * LeafDegree - 1 \in Int /\ 0 \in Int
        BY DurableLeafAssumption DEF DurableLeafAssumption
      <4> QED BY <4>1, FS_Interval DEF Slots
    <3>2. Cardinality(disk.bits) \in Nat
      BY <1>1, <3>1, FS_Subset, FS_CardinalityType
    <3> QED BY <3>2
  <2>3. /\ Leafy(mem') /\ mem'.bits = disk.bits /\ mem'.kv = disk.kv /\ mem'.fp = disk.fp
    BY <1>1, <2>1, <2>2 DEF Leafy
  <2>4. BehindInv'
    BY <2>1, <2>3 DEF BehindInv
  <2> QED BY <1>1, <2>1, <2>3, <2>4 DEF CallInv, SplitPcs
<1>6. ASSUME NEW k \in Keys, NEW v \in Values, CallInsert(k, v)
      PROVE  /\ Leafy(mem') /\ disk' = disk /\ CallInv' /\ pc' = "entry" /\ BehindInv'
  <2>1. /\ pc = "idle" /\ pc' = "entry" /\ mem' = Put(mem, k, v) /\ mem.bits # Slots
        /\ arg' = [op |-> "insert", key |-> k, val |-> v, slot |-> FirstZero(mem)]
        /\ UNCHANGED <<disk, ghosts>>
    BY <1>6 DEF CallInsert, Call
  <2>2. BehindInv
    BY <1>1, <2>1 DEF SplitPcs
  <2> DEFINE pos == FirstZero(mem)
  <2>3. /\ pos \in Slots \ mem.bits
        /\ Leafy(mem') /\ mem'.bits = mem.bits \cup {pos}
        /\ \A s \in Slots : s # pos => mem'.kv[s] = mem.kv[s] /\ mem'.fp[s] = mem.fp[s]
    BY <1>1, <2>1, PutEffect
  <2>4. arg'.slot = pos /\ arg'.op = "insert"
    BY <2>1
  <2> HIDE DEF pos
  <2>5. BehindInv'
    BY <2>1, <2>2, <2>3, <2>4 DEF BehindInv
  <2> QED BY <2>1, <2>3, <2>4, <2>5 DEF CallInv, SplitPcs
<1>7. ASSUME NEW k \in Keys, NEW v \in Values, CallUpdate(k, v)
      PROVE  /\ Leafy(mem') /\ disk' = disk /\ CallInv' /\ pc' = "value" /\ BehindInv'
  <2>1. /\ pc = "idle" /\ pc' = "value" /\ mem' = SetValue(mem, k, v) /\ Has(mem, k)
        /\ arg' = [op |-> "update", key |-> k, val |-> v, slot |-> IndexOf(mem, k)]
        /\ UNCHANGED <<disk, ghosts>>
    BY <1>7 DEF CallUpdate, Call
  <2>2. BehindInv
    BY <1>1, <2>1 DEF SplitPcs
  <2> DEFINE pos == IndexOf(mem, k)
  <2>3. pos \in mem.bits /\ pos \in Slots
    BY <1>1, <2>1, FoundSlot
  <2>4. /\ Leafy(mem') /\ mem'.bits = mem.bits /\ mem'.fp = mem.fp
        /\ \A s \in Slots : mem'.kv[s].key = mem.kv[s].key
        /\ \A s \in Slots : s # pos => mem'.kv[s].val = mem.kv[s].val
    BY <1>1, <2>1, <2>3, SetEffect
  <2>5. arg'.slot = pos /\ arg'.op = "update"
    BY <2>1
  <2> HIDE DEF pos
  <2>6. BehindInv'
    BY <2>1, <2>2, <2>3, <2>4, <2>5 DEF BehindInv
  <2> QED BY <2>1, <2>3, <2>4, <2>5, <2>6 DEF CallInv, SplitPcs
<1>8. ASSUME NEW k \in Keys, CallRemove(k)
      PROVE  /\ Leafy(mem') /\ disk' = disk /\ CallInv' /\ pc' = "cleared" /\ BehindInv'
  <2>1. /\ pc = "idle" /\ pc' = "cleared" /\ mem' = Drop(mem, k) /\ Has(mem, k)
        /\ arg' = [op |-> "remove", key |-> k, val |-> 0, slot |-> IndexOf(mem, k)]
        /\ UNCHANGED <<disk, ghosts>>
    BY <1>8 DEF CallRemove, Call
  <2>2. BehindInv
    BY <1>1, <2>1 DEF SplitPcs
  <2> DEFINE pos == IndexOf(mem, k)
  <2>3. pos \in mem.bits /\ pos \in Slots
    BY <1>1, <2>1, FoundSlot
  <2>4. /\ Leafy(mem') /\ mem'.bits = mem.bits \ {pos}
        /\ mem'.kv = mem.kv /\ mem'.fp = mem.fp
    BY <1>1, <2>1, DropEffect
  <2>5. arg'.slot = pos /\ arg'.op = "remove"
    BY <2>1
  <2> HIDE DEF pos
  <2>6. BehindInv'
    BY <2>1, <2>2, <2>3, <2>4, <2>5 DEF BehindInv
  <2> QED BY <2>1, <2>3, <2>4, <2>5, <2>6 DEF CallInv, SplitPcs
<1>9. ASSUME NEW k \in Keys, RemoveLast(k)
      PROVE  Leafy(mem') /\ disk' = disk /\ CallInv' /\ pc' = "idle" /\ BehindInv'
  <2>1. /\ pc = "idle" /\ mem' = Drop(mem, k) /\ Has(mem, k)
        /\ ghosts' = ghosts \cup {IndexOf(mem, k)}
        /\ UNCHANGED <<disk, pc, arg>>
    BY <1>9 DEF RemoveLast
  <2>2. BehindInv
    BY <1>1, <2>1 DEF SplitPcs
  <2>3. /\ Leafy(mem') /\ mem'.bits = mem.bits \ {IndexOf(mem, k)}
        /\ mem'.kv = mem.kv /\ mem'.fp = mem.fp
    BY <1>1, <2>1, DropEffect
  <2>4. BehindInv'
    BY <2>1, <2>2, <2>3 DEF BehindInv
  <2> QED BY <1>1, <2>1, <2>3, <2>4 DEF CallInv, SplitPcs
<1>10. ASSUME NEW k \in Keys, NEW v \in Values, CallSplit(k, v)
       PROVE  /\ Leafy(mem') /\ disk' = disk /\ CallInv' /\ pc' = "arrange"
              /\ Leafy(right') /\ right'.n = Cardinality(right'.bits)
  <2>1. /\ pc' = "arrange" /\ right' = mem /\ mem' = [mem EXCEPT !.bits = {}]
        /\ mem.n = Cardinality(mem.bits) /\ disk' = disk
        /\ arg' = [op |-> "split", key |-> k, val |-> v, slot |-> 0]
    BY <1>10 DEF CallSplit, Call
  <2>2. Leafy(mem')
    BY <1>1, <2>1 DEF Leafy
  <2> QED BY <1>1, <2>1, <2>2 DEF CallInv, SplitPcs
<1>11. CASE FlushEntry \/ FlushInsertedBit \/ FlushFingerprint \/ FlushValue \/ FlushClearedBit
  <2>1. /\ Closer(disk') /\ mem' = mem /\ BehindInv'
        /\ pc' \in {"bit", "fingerprint"} => arg' = arg /\ pc \in {"entry", "bit"}
        /\ pc' \in {"bit", "fingerprint", "idle"}
        /\ pc' = "idle" => arg' = NoCall
    BY <1>11, FlushesCloser
  <2> QED BY <1>1, <2>1 DEF Closer, CallInv, SplitPcs
<1>12. CASE SplitInPlace
  <2>1. /\ pc = "arrange" /\ pc' = "leftBits" /\ disk' = disk /\ arg' = arg
        /\ \E order \in Orders(right) : mem' = LowHalf(Arranged(right, order))
    BY <1>12 DEF SplitInPlace
  <2>2. Leafy(mem')
    BY <1>1, <2>1, SplitEffect
  <2> QED BY <1>1, <2>1, <2>2 DEF CallInv, SplitPcs
<1>13. CASE FlushLeftBits
  <2>1. /\ pc = "leftBits" /\ pc' = "right" /\ mem' = mem /\ arg' = arg
        /\ disk' = [disk EXCEPT !.bits = mem.bits]
    BY <1>13 DEF FlushLeftBits, FlushEntryOnly, Flush
  <2>2. Leafy(disk')
    BY <1>1, <2>1 DEF Leafy
  <2> QED BY <1>1, <2>1, <2>2 DEF CallInv, SplitPcs
<1>14. CASE PersistRight
  BY <1>1, <1>14 DEF PersistRight, FlushEntryOnly, Flush, CallInv, SplitPcs
<1>15. CASE UNCHANGED durableLeafVars
  BY <1>1, <1>15 DEF durableLeafVars, CallInv, BehindInv
<1> QED
  BY <1>1, <1>3, <1>4, <1>5, <1>6, <1>7, <1>8, <1>9, <1>10, <1>11, <1>12, <1>13, <1>14, <1>15
     DEF DurableLeafNext, SplitPcs

LEMMA DurInvHolds == DurableLeafSpec => []DurInv
<1> QED BY DurInvInit, DurInvStep, PTL DEF DurableLeafSpec

\* What insertNonFull, update and remove have flushed when they return is all
\* that the process sees, but for the clearing of a last entry's bit.
THEOREM ReturnedIsDurable == DurableLeafSpec => []DurableWhenIdle
<1>1. DurInv => DurableWhenIdle
  <2> SUFFICES ASSUME DurInv, pc = "idle"
               PROVE  /\ mem.bits \subseteq disk.bits
                      /\ disk.bits \ mem.bits \subseteq ghosts
                      /\ \A s \in mem.bits : disk.kv[s] = mem.kv[s] /\ disk.fp[s] = mem.fp[s]
    BY DEF DurableWhenIdle
  <2>1. Leafy(mem) /\ Leafy(disk) /\ BehindInv
    BY DEF DurInv, SplitPcs
  <2>2. \A s \in Slots : disk.kv[s].key = mem.kv[s].key /\ disk.kv[s].val = mem.kv[s].val
    BY <2>1 DEF BehindInv
  <2>3. \A s \in Slots : mem.kv[s] \in Pairs /\ disk.kv[s] \in Pairs
    BY <2>1 DEF Leafy
  <2>4. \A p, q \in Pairs : p.key = q.key /\ p.val = q.val => p = q
    BY DEF Pairs
  <2>5. \A s \in Slots : disk.kv[s] = mem.kv[s]
    BY <2>2, <2>3, <2>4
  <2>6. mem.bits \subseteq Slots
    BY <2>1 DEF Leafy
  <2> QED BY <2>1, <2>5, <2>6 DEF BehindInv
<1> QED BY <1>1, DurInvHolds, PTL
-----------------------------------------------------------------------------
\* The slots B of a leaf each have a key of their own, with its fingerprint, and
\* no slot before one of them has its key: an insertion takes the first slot that
\* is free, so what a free slot still holds is never in front.
Told(l, B) ==
  /\ \A s \in B : l.kv[s].key \in Keys /\ l.fp[s] = Hash[l.kv[s].key]
  /\ \A s, t \in B : l.kv[s].key = l.kv[t].key => s = t
  /\ \A s \in Slots \ B, t \in B : l.kv[s].key = l.kv[t].key => t < s

\* The slots whose bits a crash may find set, with entries the call has told.
Bits == IF pc = "cleared" THEN mem.bits \cup {arg.slot} ELSE mem.bits

Inserting == pc \in {"entry", "bit", "fingerprint"}

\* Slot t has the entry of k that find returned before the call, or an update's.
KeptIn(k, t) ==
  /\ t \in mem.bits /\ mem.kv[t].key = k
  /\ \/ mem.kv[t].val = before[k] /\ (pc = "value" => t # arg.slot)
     \/ /\ pc = "value" /\ t = arg.slot /\ k = arg.key
        /\ disk.kv[t].val \in {before[k], arg.val}

\* What was there before the call is there, but for the entry the call is about.
KeepInv ==
  pc \notin SplitPcs /\ ~torn =>
    /\ Told(mem, Bits)
    /\ pc = "entry" =>
         \A t \in mem.bits \ {arg.slot} :
           disk.kv[arg.slot].key = mem.kv[t].key => t < arg.slot
    /\ Inserting => mem.kv[arg.slot].key \notin DOMAIN before
    /\ pc = "value" => mem.kv[arg.slot].val = arg.val
    /\ pc = "cleared" => mem.kv[arg.slot].key = arg.key
    /\ \A k \in DOMAIN before :
         (pc = "cleared" /\ k = arg.key) \/ \E t \in mem.bits : KeptIn(k, t)

LEMMA FoundKept ==
  ASSUME NEW l, Leafy(l), NEW k \in DOMAIN Found(l)
  PROVE  \E t \in l.bits : l.kv[t].key = k /\ l.kv[t].val = Found(l)[k]
<1>1. Has(l, k) /\ Found(l)[k] = ValueOf(l, k)
  BY DEF Found
<1>2. IndexOf(l, k) \in l.bits /\ l.kv[IndexOf(l, k)].key = k
  BY <1>1, FoundSlot
<1> QED BY <1>1, <1>2 DEF ValueOf

\* A key whose slots find passes has no slot, where fingerprints are the keys'.
LEMMA LacksIt ==
  ASSUME NEW l, NEW B, Told(l, B), l.bits \subseteq B, NEW k, ~Has(l, k)
  PROVE  \A s \in l.bits : l.kv[s].key # k
BY DEF Told, Has, Matches

LEMMA ToldFewer ==
  ASSUME NEW l, NEW B, Told(l, B), NEW C, C \subseteq B
  PROVE  Told(l, C)
BY DEF Told

LEMMA KeepInvInit == DurableLeafInit => KeepInv
<1> SUFFICES ASSUME DurableLeafInit PROVE KeepInv
  OBVIOUS
<1>1. /\ mem = Zeroed /\ pc = "idle" /\ before = Found(Zeroed) /\ Zeroed.bits = {}
  BY DEF DurableLeafInit, Zeroed
<1>2. Bits = {} /\ ~Inserting /\ Told(mem, {})
  BY <1>1 DEF Bits, Inserting, Told
<1>3. DOMAIN before = {}
  BY <1>1, FoundKept, ZeroedLeafy
<1> QED BY <1>1, <1>2, <1>3 DEF KeepInv

LEMMA KeepInvStep ==
  DurInv /\ KeepInv /\ [DurableLeafNext]_durableLeafVars => KeepInv'
<1> SUFFICES ASSUME DurInv, KeepInv, [DurableLeafNext]_durableLeafVars,
                    pc' \notin SplitPcs, ~torn'
             PROVE  /\ Told(mem', Bits')
                    /\ pc' = "entry" =>
                         \A t \in mem'.bits \ {arg'.slot} :
                           disk'.kv[arg'.slot].key = mem'.kv[t].key => t < arg'.slot
                    /\ Inserting' => mem'.kv[arg'.slot].key \notin DOMAIN before'
                    /\ pc' = "value" => mem'.kv[arg'.slot].val = arg'.val
                    /\ pc' = "cleared" => mem'.kv[arg'.slot].key = arg'.key
                    /\ \A k \in DOMAIN before' :
                         \/ pc' = "cleared" /\ k = arg'.key
                         \/ \E t \in mem'.bits : KeptIn(k, t)'
  BY DEF KeepInv, SplitPcs, Told, Slots
<1>1. /\ Leafy(mem) /\ Leafy(disk) /\ CallInv
      /\ mem.bits \subseteq Slots /\ disk.bits \subseteq Slots
      /\ pc \notin SplitPcs => BehindInv
      /\ Slots \subseteq Nat
  BY DurableLeafAssumption DEF DurInv, Leafy, DurableLeafAssumption, Slots
<1>2. ASSUME pc = "idle", ~torn
      PROVE  /\ Told(mem, mem.bits) /\ BehindInv
             /\ \A k \in DOMAIN before :
                  \E t \in mem.bits : mem.kv[t].key = k /\ mem.kv[t].val = before[k]
  <2>1. Bits = mem.bits /\ pc \notin SplitPcs
    BY <1>2 DEF Bits, SplitPcs
  <2> QED BY <1>1, <1>2, <2>1 DEF KeepInv, KeptIn
<1>3. CASE Create
  <2>1. /\ pc = "idle" /\ mem' = [mem EXCEPT !.n = 0]
        /\ UNCHANGED <<disk, pc, arg, before, torn>>
    BY <1>3 DEF Create, splitVars, crashVars
  <2>2. /\ mem'.bits = mem.bits /\ mem'.kv = mem.kv /\ mem'.fp = mem.fp
    BY <1>1, <2>1 DEF Leafy
  <2>3. Told(mem', Bits')
    BY <1>2, <2>1, <2>2 DEF Bits, Told
  <2> QED BY <1>2, <2>1, <2>2, <2>3 DEF KeptIn, Inserting
<1>4. CASE Evict
  <2>1. /\ UNCHANGED <<mem, pc, arg, before, torn>>
        /\ \/ disk' = disk
           \/ \E s \in Slots : disk' \in {WithLine(s), WithKey(s), WithValue(s), WithFp(s)}
    BY <1>4 DEF Evict, crashVars
  <2>2. pc \notin SplitPcs /\ ~torn /\ Bits' = Bits /\ Inserting' = Inserting
    BY <2>1 DEF SplitPcs, Bits, Inserting
  <2>3. ASSUME NEW s \in Slots
        PROVE  /\ disk'.kv[s].key = disk.kv[s].key \/ disk'.kv[s].key = mem.kv[s].key
               /\ disk'.kv[s].val = disk.kv[s].val \/ disk'.kv[s].val = mem.kv[s].val
    <3>1. disk' = disk \/ Closer(disk')
      BY <1>1, <2>1, WrittenCloser
    <3> QED BY <3>1 DEF Closer
  <2>4. ASSUME pc = "entry", NEW t \in mem.bits \ {arg.slot},
               disk'.kv[arg.slot].key = mem.kv[t].key
        PROVE  t < arg.slot
    <3>1. arg.slot \in mem.bits /\ arg.slot \in Slots /\ Bits = mem.bits
      BY <1>1, <2>4 DEF CallInv, Bits
    <3>2. mem.kv[arg.slot].key # mem.kv[t].key
      BY <2>2, <2>4, <3>1 DEF KeepInv, Told
    <3>3. disk.kv[arg.slot].key = mem.kv[t].key
      BY <2>3, <2>4, <3>1, <3>2
    <3> QED BY <2>2, <2>4, <3>3 DEF KeepInv
  <2>5. ASSUME NEW k \in DOMAIN before, NEW t \in mem.bits, KeptIn(k, t) PROVE KeptIn(k, t)'
    <3>1. t \in Slots /\ (pc = "value" => mem.kv[arg.slot].val = arg.val)
      BY <1>1, <2>2 DEF KeepInv
    <3> QED BY <2>1, <2>3, <2>5, <3>1 DEF KeptIn
  <2> QED BY <2>1, <2>2, <2>4, <2>5 DEF KeepInv
<1>5. CASE Crash
  <2>1. /\ mem' = [disk EXCEPT !.n = Cardinality(disk.bits)] /\ disk' = disk
        /\ pc' = "idle" /\ arg' = NoCall /\ before' = Found(disk)
        /\ ~torn /\ ghosts = {} /\ arg.op # "split"
        /\ \A s \in disk.bits : disk.kv[s] = mem.kv[s] /\ disk.fp[s] = mem.fp[s]
    BY <1>5 DEF Crash, Reloaded
  <2>2. mem'.bits = disk.bits /\ mem'.kv = disk.kv /\ mem'.fp = disk.fp
    BY <1>1, <2>1 DEF Leafy
  <2>3. pc \notin SplitPcs /\ BehindInv /\ Told(mem, Bits)
    BY <1>1, <2>1 DEF CallInv, KeepInv
  <2>4. disk.bits \subseteq Bits
    BY <1>1, <2>1, <2>3 DEF BehindInv, Bits
  <2>5. Told(disk, disk.bits)
    <3>1. \A s \in disk.bits : disk.kv[s].key \in Keys /\ disk.fp[s] = Hash[disk.kv[s].key]
      BY <2>1, <2>3, <2>4 DEF Told
    <3>2. \A s, t \in disk.bits : disk.kv[s].key = disk.kv[t].key => s = t
      BY <2>1, <2>3, <2>4 DEF Told
    <3>3. ASSUME NEW s \in Slots \ disk.bits, NEW t \in disk.bits,
                 disk.kv[s].key = disk.kv[t].key
          PROVE  t < s
      <4>1. disk.kv[t].key = mem.kv[t].key /\ t \in Bits /\ t # s
        BY <2>1, <2>4, <3>3
      <4>2. CASE s = arg.slot /\ pc = "entry"
        <5>1. t \in mem.bits \ {arg.slot}
          BY <4>1, <4>2 DEF Bits
        <5> QED BY <2>1, <2>3, <3>3, <4>1, <4>2, <5>1 DEF KeepInv
      <4>3. CASE ~(s = arg.slot /\ pc = "entry")
        <5>1. mem.kv[s].key = mem.kv[t].key
          BY <2>3, <3>3, <4>1, <4>3 DEF BehindInv
        <5>2. s \notin Bits
          BY <2>3, <4>1, <5>1 DEF Told
        <5> QED BY <2>3, <3>3, <4>1, <5>1, <5>2 DEF Told
      <4> QED BY <4>2, <4>3
    <3> QED BY <3>1, <3>2, <3>3 DEF Told
  <2>6. Told(mem', Bits')
    BY <2>1, <2>2, <2>5 DEF Told, Bits
  <2>7. ASSUME NEW k \in DOMAIN before' PROVE \E t \in mem'.bits : KeptIn(k, t)'
    <3>1. \E t \in disk.bits : disk.kv[t].key = k /\ disk.kv[t].val = before'[k]
      BY <1>1, <2>1, <2>7, FoundKept
    <3> QED BY <2>1, <2>2, <3>1 DEF KeptIn
  <2> QED BY <2>1, <2>6, <2>7 DEF Inserting
<1>6. ASSUME NEW k \in Keys, NEW v \in Values, CallInsert(k, v)
      PROVE  /\ Told(mem', Bits')
             /\ \A t \in mem'.bits \ {arg'.slot} :
                  disk'.kv[arg'.slot].key = mem'.kv[t].key => t < arg'.slot
             /\ mem'.kv[arg'.slot].key \notin DOMAIN before'
             /\ pc' = "entry"
             /\ \A j \in DOMAIN before' : \E t \in mem'.bits : KeptIn(j, t)'
  <2>1. /\ pc = "idle" /\ pc' = "entry" /\ mem' = Put(mem, k, v) /\ mem.bits # Slots
        /\ arg' = [op |-> "insert", key |-> k, val |-> v, slot |-> FirstZero(mem)]
        /\ UNCHANGED <<disk, before>> /\ ~torn /\ ~Has(mem, k)
    BY <1>6 DEF CallInsert, Call
  <2>2. /\ Told(mem, mem.bits) /\ BehindInv
        /\ \A j \in DOMAIN before :
             \E t \in mem.bits : mem.kv[t].key = j /\ mem.kv[t].val = before[j]
    BY <1>2, <2>1
  <2> DEFINE pos == FirstZero(mem)
  <2>3. /\ pos \in Slots \ mem.bits /\ \A s \in Slots \ mem.bits : pos <= s
        /\ mem'.bits = mem.bits \cup {pos}
        /\ mem'.kv[pos].key = k /\ mem'.fp[pos] = Hash[k]
        /\ \A s \in Slots : s # pos => mem'.kv[s] = mem.kv[s] /\ mem'.fp[s] = mem.fp[s]
    BY <1>1, <2>1, PutEffect
  <2>4. arg'.slot = pos
    BY <2>1
  <2> HIDE DEF pos
  <2>5. \A s \in mem.bits : mem.kv[s].key # k
    BY <2>1, <2>2, LacksIt
  <2>6. Told(mem', mem'.bits)
    <3>1. ASSUME NEW s \in mem'.bits
          PROVE  mem'.kv[s].key \in Keys /\ mem'.fp[s] = Hash[mem'.kv[s].key]
      BY <1>1, <2>2, <2>3, <3>1 DEF Told
    <3>2. ASSUME NEW s \in mem'.bits, NEW t \in mem'.bits, mem'.kv[s].key = mem'.kv[t].key
          PROVE  s = t
      BY <1>1, <2>2, <2>3, <2>5, <3>2 DEF Told
    <3>3. ASSUME NEW s \in Slots \ mem'.bits, NEW t \in mem'.bits,
                 mem'.kv[s].key = mem'.kv[t].key
          PROVE  t < s
      <4>1. CASE t = pos
        <5>1. pos <= s /\ pos # s /\ pos \in Nat /\ s \in Nat
          BY <1>1, <2>3, <3>3
        <5> QED BY <4>1, <5>1
      <4>2. CASE t # pos
        <5>1. t \in mem.bits /\ s \in Slots \ mem.bits /\ s # pos
          BY <2>3, <3>3, <4>2
        <5>2. mem.kv[s].key = mem.kv[t].key
          BY <1>1, <2>3, <3>3, <4>2, <5>1
        <5> QED BY <2>2, <5>1, <5>2 DEF Told
      <4> QED BY <4>1, <4>2
    <3> QED BY <3>1, <3>2, <3>3 DEF Told
  <2>7. Told(mem', Bits')
    BY <2>1, <2>6 DEF Bits
  <2>8. ASSUME NEW t \in mem'.bits \ {pos}, disk.kv[pos].key = mem'.kv[t].key
        PROVE  t < pos
    <3>1. t \in mem.bits /\ mem'.kv[t] = mem.kv[t]
      BY <1>1, <2>3, <2>8
    <3>2. disk.kv[pos].key = mem.kv[pos].key
      BY <2>1, <2>2, <2>3 DEF BehindInv
    <3> QED BY <2>2, <2>3, <2>8, <3>1, <3>2 DEF Told
  <2>9. k \notin DOMAIN before
    BY <2>2, <2>5
  <2>10. ASSUME NEW j \in DOMAIN before PROVE \E t \in mem'.bits : KeptIn(j, t)'
    <3>1. PICK t \in mem.bits : mem.kv[t].key = j /\ mem.kv[t].val = before[j]
      BY <2>2
    <3>2. t \in mem'.bits /\ mem'.kv[t] = mem.kv[t]
      BY <1>1, <2>3
    <3> QED BY <2>1, <3>1, <3>2 DEF KeptIn
  <2> QED BY <2>1, <2>3, <2>4, <2>7, <2>8, <2>9, <2>10
<1>7. ASSUME NEW k \in Keys, NEW v \in Values, CallUpdate(k, v)
      PROVE  /\ Told(mem', Bits') /\ pc' = "value" /\ mem'.kv[arg'.slot].val = arg'.val
             /\ \A j \in DOMAIN before' : \E t \in mem'.bits : KeptIn(j, t)'
  <2>1. /\ pc = "idle" /\ pc' = "value" /\ mem' = SetValue(mem, k, v) /\ Has(mem, k)
        /\ arg' = [op |-> "update", key |-> k, val |-> v, slot |-> IndexOf(mem, k)]
        /\ UNCHANGED <<disk, before>> /\ ~torn
    BY <1>7 DEF CallUpdate, Call
  <2>2. /\ Told(mem, mem.bits) /\ BehindInv
        /\ \A j \in DOMAIN before :
             \E t \in mem.bits : mem.kv[t].key = j /\ mem.kv[t].val = before[j]
    BY <1>2, <2>1
  <2> DEFINE pos == IndexOf(mem, k)
  <2>3. pos \in mem.bits /\ pos \in Slots /\ mem.kv[pos].key = k
    BY <1>1, <2>1, FoundSlot
  <2>4. /\ mem'.bits = mem.bits /\ mem'.fp = mem.fp /\ mem'.kv[pos].val = v
        /\ \A s \in Slots : mem'.kv[s].key = mem.kv[s].key
        /\ \A s \in Slots : s # pos => mem'.kv[s].val = mem.kv[s].val
    BY <1>1, <2>1, <2>3, SetEffect
  <2>5. arg'.slot = pos /\ arg'.key = k /\ arg'.val = v
    BY <2>1
  <2> HIDE DEF pos
  <2>6. Told(mem', mem'.bits)
    BY <1>1, <2>2, <2>4 DEF Told
  <2>7. Told(mem', Bits')
    BY <2>1, <2>6 DEF Bits
  <2>8. ASSUME NEW j \in DOMAIN before PROVE \E t \in mem'.bits : KeptIn(j, t)'
    <3>1. PICK t \in mem.bits : mem.kv[t].key = j /\ mem.kv[t].val = before[j]
      BY <2>2
    <3>2. t \in Slots /\ t \in mem'.bits /\ mem'.kv[t].key = j
      BY <1>1, <2>4, <3>1
    <3>3. CASE t = pos
      <4>1. disk'.kv[t].val = before'[j] /\ j = k
        BY <2>1, <2>2, <2>3, <3>1, <3>2, <3>3 DEF BehindInv
      <4> QED BY <2>1, <2>5, <3>2, <3>3, <4>1 DEF KeptIn
    <3>4. CASE t # pos
      BY <2>1, <2>4, <2>5, <3>1, <3>2, <3>4 DEF KeptIn
    <3> QED BY <3>3, <3>4
  <2> QED BY <2>1, <2>4, <2>5, <2>7, <2>8
<1>8. ASSUME NEW k \in Keys, CallRemove(k)
      PROVE  /\ Told(mem', Bits') /\ pc' = "cleared" /\ mem'.kv[arg'.slot].key = arg'.key
             /\ \A j \in DOMAIN before' : j = arg'.key \/ \E t \in mem'.bits : KeptIn(j, t)'
  <2>1. /\ pc = "idle" /\ pc' = "cleared" /\ mem' = Drop(mem, k) /\ Has(mem, k)
        /\ arg' = [op |-> "remove", key |-> k, val |-> 0, slot |-> IndexOf(mem, k)]
        /\ UNCHANGED <<disk, before>> /\ ~torn
    BY <1>8 DEF CallRemove, Call
  <2>2. /\ Told(mem, mem.bits)
        /\ \A j \in DOMAIN before :
             \E t \in mem.bits : mem.kv[t].key = j /\ mem.kv[t].val = before[j]
    BY <1>2, <2>1
  <2> DEFINE pos == IndexOf(mem, k)
  <2>3. pos \in mem.bits /\ mem.kv[pos].key = k
    BY <1>1, <2>1, FoundSlot
  <2>4. mem'.bits = mem.bits \ {pos} /\ mem'.kv = mem.kv /\ mem'.fp = mem.fp
    BY <1>1, <2>1, DropEffect
  <2>5. arg'.slot = pos /\ arg'.key = k
    BY <2>1
  <2> HIDE DEF pos
  <2>6. Bits' = mem.bits
    BY <2>1, <2>3, <2>4, <2>5 DEF Bits
  <2>7. Told(mem', Bits')
    BY <2>2, <2>4, <2>6 DEF Told
  <2>8. ASSUME NEW j \in DOMAIN before, j # k PROVE \E t \in mem'.bits : KeptIn(j, t)'
    <3>1. PICK t \in mem.bits : mem.kv[t].key = j /\ mem.kv[t].val = before[j]
      BY <2>2
    <3> QED BY <2>1, <2>3, <2>4, <2>8, <3>1 DEF KeptIn
  <2> QED BY <2>1, <2>3, <2>4, <2>5, <2>7, <2>8
<1>9. ASSUME NEW k \in Keys, RemoveLast(k)
      PROVE  /\ Told(mem', Bits') /\ pc' = "idle"
             /\ \A j \in DOMAIN before' : \E t \in mem'.bits : KeptIn(j, t)'
  <2>1. /\ pc = "idle" /\ pc' = "idle" /\ mem' = Drop(mem, k)
        /\ before' = Found(mem') /\ ~torn
    BY <1>9 DEF RemoveLast
  <2>2. /\ Leafy(mem') /\ mem'.bits \subseteq mem.bits
        /\ mem'.kv = mem.kv /\ mem'.fp = mem.fp
    BY <1>1, <2>1, DropEffect
  <2>3. Told(mem', mem.bits)
    BY <1>2, <2>1, <2>2 DEF Told
  <2>4. Told(mem', Bits')
    BY <2>1, <2>2, <2>3, ToldFewer DEF Bits
  <2>5. ASSUME NEW j \in DOMAIN before' PROVE \E t \in mem'.bits : KeptIn(j, t)'
    <3>1. \E t \in mem'.bits : mem'.kv[t].key = j /\ mem'.kv[t].val = before'[j]
      BY <2>1, <2>2, <2>5, FoundKept
    <3> QED BY <2>1, <3>1 DEF KeptIn
  <2> QED BY <2>1, <2>4, <2>5
<1>10. CASE FlushEntry \/ FlushInsertedBit \/ FlushFingerprint \/ FlushValue \/ FlushClearedBit
  <2>1. /\ mem' = mem /\ torn' = torn /\ pc \notin SplitPcs
        /\ \/ /\ pc' \in {"bit", "fingerprint"} /\ arg' = arg /\ before' = before
              /\ pc \in {"entry", "bit"}
           \/ pc' = "idle" /\ before' = Found(mem)
    BY <1>10 DEF FlushEntry, FlushInsertedBit, FlushFingerprint, FlushValue,
         FlushClearedBit, FlushEntryOnly, FlushBit, Flush, crashVars, SplitPcs
  <2>2. Told(mem', Bits')
    <3>1. Told(mem, Bits) /\ Bits' = mem.bits /\ mem.bits \subseteq Bits
      BY <2>1 DEF KeepInv, Bits
    <3> QED BY <2>1, <3>1, ToldFewer
  <2>3. CASE pc' \in {"bit", "fingerprint"}
    BY <2>1, <2>2, <2>3 DEF KeepInv, KeptIn, Inserting
  <2>4. CASE pc' = "idle"
    <3>1. ASSUME NEW j \in DOMAIN before' PROVE \E t \in mem'.bits : KeptIn(j, t)'
      <4>1. \E t \in mem'.bits : mem'.kv[t].key = j /\ mem'.kv[t].val = before'[j]
        BY <1>1, <2>1, <2>4, <3>1, FoundKept
      <4> QED BY <2>4, <4>1 DEF KeptIn
    <3> QED BY <2>2, <2>4, <3>1 DEF Inserting
  <2> QED BY <2>1, <2>3, <2>4
<1>11. ASSUME NEW k \in Keys, NEW v \in Values PROVE ~CallSplit(k, v)
  BY DEF CallSplit, SplitPcs
<1>12. ~SplitInPlace /\ ~FlushLeftBits /\ ~PersistRight
  BY DEF SplitInPlace, FlushLeftBits, PersistRight, FlushEntryOnly, Flush, SplitPcs
<1>13. CASE UNCHANGED durableLeafVars
  <2>1. UNCHANGED <<mem, disk, pc, arg, before, torn>>
    BY <1>13 DEF durableLeafVars
  <2> QED BY <2>1 DEF KeepInv, KeptIn, Inserting, Bits, SplitPcs
<1> QED
  BY <1>3, <1>4, <1>5, <1>6, <1>7, <1>8, <1>9, <1>10, <1>11, <1>12, <1>13
     DEF DurableLeafNext, Inserting

LEMMA KeepInvHolds == DurableLeafSpec => []KeepInv
<1> QED BY KeepInvInit, KeepInvStep, DurInvHolds, PTL DEF DurableLeafSpec

\* A crash at any point of insertNonFull, update or remove costs at most the entry
\* the call is about, and leaves an update's value old or new.
THEOREM CrashAlwaysKeepsEntries == DurableLeafSpec => []CrashKeepsEntries
<1>1. DurInv /\ KeepInv => CrashKeepsEntries
  <2> SUFFICES ASSUME DurInv, KeepInv, ~torn, arg.op # "split",
                      NEW k \in DOMAIN before, ~(arg.op = "remove" /\ k = arg.key)
               PROVE  /\ Has(disk, k)
                      /\ ValueOf(disk, k) \in
                           {before[k]} \cup (IF arg.op = "update" /\ k = arg.key
                                             THEN {arg.val} ELSE {})
    BY DEF CrashKeepsEntries
  <2>1. /\ Leafy(mem) /\ Leafy(disk) /\ CallInv /\ pc \notin SplitPcs /\ BehindInv
        /\ mem.bits \subseteq Slots /\ disk.bits \subseteq Slots /\ Slots \subseteq Nat
        /\ Told(mem, Bits)
    BY DurableLeafAssumption
       DEF DurInv, CallInv, Leafy, DurableLeafAssumption, Slots, KeepInv
  <2>2. PICK t \in mem.bits : KeptIn(k, t)
    BY <2>1 DEF KeepInv, CallInv
  <2>3. Inserting => t # arg.slot
    BY <2>1, <2>2 DEF KeepInv, KeptIn
  <2>4. /\ t \in disk.bits /\ disk.kv[t].key = k /\ disk.fp[t] = Hash[k]
        /\ pc \notin {"entry", "value"} \/ t # arg.slot => disk.kv[t].val = mem.kv[t].val
    <3>1. mem.fp[t] = Hash[k] /\ mem.kv[t].key = k
      BY <2>1, <2>2 DEF KeptIn, Told, Bits
    <3> QED BY <2>1, <2>3, <3>1 DEF BehindInv, Inserting
  <2>5. disk.kv[t].val \in {before[k]} \cup (IF arg.op = "update" /\ k = arg.key
                                             THEN {arg.val} ELSE {})
    BY <2>1, <2>2, <2>3, <2>4 DEF KeptIn, CallInv, Inserting
  <2>6. ASSUME NEW s \in Matches(disk, k) PROVE t <= s
    <3>1. s \in disk.bits /\ disk.kv[s].key = k /\ s \in Nat /\ t \in Nat
      BY <2>1, <2>2 DEF Matches
    <3>2. CASE s = t
      BY <3>1, <3>2
    <3>3. CASE s # t /\ s = arg.slot /\ pc = "entry"
      <4>1. t < s
        BY <2>1, <2>2, <3>1, <3>3 DEF KeepInv, KeptIn
      <4> QED BY <3>1, <4>1
    <3>4. CASE s # t /\ ~(s = arg.slot /\ pc = "entry")
      <4>1. mem.kv[s].key = mem.kv[t].key /\ t \in Bits
        BY <2>1, <2>2, <3>1, <3>4 DEF BehindInv, KeptIn, Bits
      <4>2. s \in Slots \ Bits
        BY <2>1, <3>1, <3>4, <4>1 DEF Told
      <4>3. t < s
        BY <2>1, <4>1, <4>2 DEF Told
      <4> QED BY <3>1, <4>3
    <3> QED BY <3>2, <3>3, <3>4
  <2>7. t \in Matches(disk, k) /\ Matches(disk, k) \subseteq Nat
    BY <2>1, <2>4 DEF Matches
  <2>8. IndexOf(disk, k) \in Matches(disk, k) /\ IndexOf(disk, k) <= t
    BY <2>7, MinIsLeast DEF IndexOf
  <2>9. IndexOf(disk, k) = t
    <3>1. t <= IndexOf(disk, k) /\ t \in Nat /\ IndexOf(disk, k) \in Nat
      BY <2>6, <2>7, <2>8
    <3> QED BY <2>8, <3>1
  <2> QED BY <2>5, <2>7, <2>9 DEF Has, ValueOf
<1> QED BY <1>1, DurInvHolds, KeepInvHolds, PTL
=============================================================================
