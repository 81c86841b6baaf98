------------------------------ MODULE LeafSlots ------------------------------
(***************************************************************************)
(* The slots of a leaf: struct leaf in include/utility/p_allocator.h, and  *)
(* what the methods of LeafNode in src/fptree.cpp do to them.              *)
(*                                                                         *)
(* A leaf is a record: bits, the slots whose bit is set; kv and fp, what   *)
(* each slot holds, whether its bit is set or not; and n, the volatile     *)
(* count of entries.  A slot that is free again keeps what it last held.   *)
(***************************************************************************)
EXTENDS Naturals, FiniteSets, FiniteSetsExt, Functions

CONSTANTS
  LeafDegree,  \* LEAF_DEGREE
  Hash         \* keyHash: a function from keys to fingerprints

Slots == 0 .. 2 * LeafDegree - 1

\* A leaf of a file that has just been created: all zeros.
Zeroed == [bits |-> {}, kv |-> [s \in Slots |-> [key |-> 0, val |-> 0]],
           fp |-> [s \in Slots |-> 0], n |-> 0]
-----------------------------------------------------------------------------
\* Mutants of the operations below.

\* The fingerprint alone tells a key.
MatchesHashed(l, k) == {s \in l.bits : l.fp[s] = Hash[k]}

\* n counts the slots that were ever set.
DropUncounted(l, k) == [l EXCEPT !.bits = @ \ {Min(MatchesHashed(l, k))}]

\* The fingerprints stay where they are.
ArrangedKvOnly(l, order) ==
  [l EXCEPT !.bits = 0 .. l.n - 1,
            !.kv = [s \in Slots |-> IF s < l.n THEN l.kv[order[s]] ELSE @[s]]]

\* The fingerprint is the key's own.
PutUnhashed(l, k, v) ==
  LET pos == Min(Slots \ l.bits)
  IN [bits |-> l.bits \cup {pos}, kv |-> [l.kv EXCEPT ![pos] = [key |-> k, val |-> v]],
      fp |-> [l.fp EXCEPT ![pos] = k], n |-> l.n + 1]

\* A new entry takes the highest free slot.
FirstZeroHigh(l) == CHOOSE s \in Slots \ l.bits : \A t \in Slots \ l.bits : t <= s
-----------------------------------------------------------------------------
\* findIndex looks for the first of these.
Matches(l, k) == {s \in l.bits : l.fp[s] = Hash[k] /\ l.kv[s].key = k}
Has(l, k)     == Matches(l, k) # {}
IndexOf(l, k) == Min(Matches(l, k))
ValueOf(l, k) == l.kv[IndexOf(l, k)].val

FirstZero(l) == Min(Slots \ l.bits)

\* insertNonFull
Put(l, k, v) ==
  LET pos == FirstZero(l)
  IN [bits |-> l.bits \cup {pos}, kv |-> [l.kv EXCEPT ![pos] = [key |-> k, val |-> v]],
      fp |-> [l.fp EXCEPT ![pos] = Hash[k]], n |-> l.n + 1]

\* update of a key that is there
SetValue(l, k, v) == [l EXCEPT !.kv[IndexOf(l, k)].val = v]

\* remove of a key that is there
Drop(l, k) == [l EXCEPT !.bits = @ \ {IndexOf(l, k)}, !.n = @ - 1]

\* The entries that stay when n of them are split.
Half(n) == (n + 1) \div 2

\* The orders nth_element may leave the entries in: the least Half of them, and
\* then the rest with its least entry in front.
Orders(l) ==
  {order \in Bijection(0 .. l.n - 1, l.bits) :
     LET key(i) == l.kv[order[i]].key
     IN \A i, j \in 0 .. l.n - 1 : i <= Half(l.n) /\ Half(l.n) <= j => key(i) <= key(j)}

\* findSplitKey: the entries are moved into the first n slots, in that order.
Arranged(l, order) ==
  [l EXCEPT !.bits = 0 .. l.n - 1,
            !.kv = [s \in Slots |-> IF s < l.n THEN l.kv[order[s]] ELSE @[s]],
            !.fp = [s \in Slots |-> IF s < l.n THEN l.fp[order[s]] ELSE @[s]]]

\* split of a leaf that findSplitKey has arranged: both halves have all that is
\* in the slots, and each the bits of its own.
LowHalf(l)  == [l EXCEPT !.bits = {s \in @ : s < Half(l.n)}, !.n = Half(l.n)]
HighHalf(l) == [l EXCEPT !.bits = {s \in @ : s >= Half(l.n)}, !.n = @ - Half(l.n)]
SplitKey(l) == l.kv[Half(l.n)].key

\* LeafNode(PPointer, FPTree*) counts the bits.
Reloaded(l) == [l EXCEPT !.n = Cardinality(l.bits)]

LeastKeyOf(l) == Min({l.kv[s].key : s \in l.bits})

\* The entries of a leaf, as a map.
Entries(l) == [k \in {l.kv[s].key : s \in l.bits} |-> ValueOf(l, k)]
=============================================================================
