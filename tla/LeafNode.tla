------------------------------ MODULE LeafNode -------------------------------
(***************************************************************************)
(* A leaf of the tree (LeafNode in src/fptree.cpp) slot by slot, over any  *)
(* sequence of calls, and the leaf its last insert split off.  Its slots   *)
(* outlive the process, and the life of the leaf: a leaf that was freed    *)
(* and allocated again begins with what its slots held.                    *)
(***************************************************************************)
EXTENDS LeafSlots, TLC

CONSTANTS
  Keys,     \* positive naturals
  Values,
  NoValue   \* MAX_VALUE, what find returns for a key that is not there

ASSUME LeafAssumption ==
  /\ LeafDegree \in Nat \ {0, 1}
  /\ Keys \subseteq Nat \ {0}
  /\ Hash \in [Keys -> Nat]
  /\ NoValue \notin Values

VARIABLES
  leaf,  \* the leaf's slots and its count
  new,   \* the leaf the last operation split off, if any, with the key returned
  live,  \* there is a LeafNode for it: it is not free
  ret    \* the last operation and what it returned

leafVars == <<leaf, new, live, ret>>

Returns(op, k, out) == ret' = [op |-> op, key |-> k, out |-> out]

LeafInit ==
  /\ leaf = Zeroed /\ new = <<>> /\ live = FALSE
  /\ ret = [op |-> "free", key |-> 0, out |-> 0]
-----------------------------------------------------------------------------
\* A mutant of InsertNonFull: a leaf splits when every slot is taken.
InsertWhenFull(k, v) ==
  /\ live /\ ~Has(leaf, k)
  /\ leaf.n < 2 * LeafDegree
  /\ leaf' = Put(leaf, k, v)
  /\ new' = <<>> /\ Returns("insert", k, 0) /\ UNCHANGED live
-----------------------------------------------------------------------------
\* LeafNode(FPTree*): nothing is written to the leaf's slots.
Create ==
  /\ ~live /\ live' = TRUE
  /\ leaf' = [leaf EXCEPT !.n = 0]
  /\ new' = <<>> /\ Returns("create", 0, 0)

\* insert of a key that is there is an update of its value.
InsertPresent(k, v) ==
  /\ live /\ Has(leaf, k)
  /\ leaf' = SetValue(leaf, k, v)
  /\ new' = <<>> /\ Returns("insert", k, 0) /\ UNCHANGED live

InsertNonFull(k, v) ==
  /\ live /\ ~Has(leaf, k)
  /\ leaf.n < 2 * LeafDegree - 1
  /\ leaf' = Put(leaf, k, v)
  /\ new' = <<>> /\ Returns("insert", k, 0) /\ UNCHANGED live

\* The leaf is split first, and the new entry goes into the half it belongs to.
InsertSplit(k, v) ==
  /\ live /\ ~Has(leaf, k)
  /\ leaf.n >= 2 * LeafDegree - 1
  /\ \E order \in Orders(leaf) :
       LET l    == Arranged(leaf, order)
           low  == IF k < SplitKey(l) THEN Put(LowHalf(l), k, v) ELSE LowHalf(l)
           high == IF k < SplitKey(l) THEN HighHalf(l) ELSE Put(HighHalf(l), k, v)
       IN leaf' = low /\ new' = <<[key |-> SplitKey(l), leaf |-> high]>>
  /\ Returns("insert", k, 0) /\ UNCHANGED live

\* With its last entry the leaf is freed and its LeafNode deleted.
Delete(k) ==
  /\ live
  /\ leaf' = IF Has(leaf, k) THEN Drop(leaf, k) ELSE leaf
  /\ live' = ~(Has(leaf, k) /\ leaf.n = 1)
  /\ new' = <<>> /\ Returns("remove", k, <<Has(leaf, k), ~live'>>)

Update(k, v) ==
  /\ live
  /\ leaf' = IF Has(leaf, k) THEN SetValue(leaf, k, v) ELSE leaf
  /\ new' = <<>> /\ Returns("update", k, Has(leaf, k)) /\ UNCHANGED live

Find(k) ==
  /\ live
  /\ Returns("find", k, IF Has(leaf, k) THEN ValueOf(leaf, k) ELSE NoValue)
  /\ new' = <<>> /\ UNCHANGED <<leaf, live>>

\* getMinKey of a leaf with entries.
LeastKey ==
  /\ live /\ leaf.bits # {}
  /\ Returns("getMinKey", 0, LeastKeyOf(leaf))
  /\ new' = <<>> /\ UNCHANGED <<leaf, live>>

Reload ==
  /\ live /\ leaf' = Reloaded(leaf)
  /\ new' = <<>> /\ Returns("load", 0, 0) /\ UNCHANGED live

\* What follows is about the leaf that was split off.
Visit ==
  /\ new # <<>> /\ leaf' = new[1].leaf /\ new' = <<>>
  /\ UNCHANGED <<live, ret>>

LeafNext ==
  \/ Create \/ Reload \/ Visit \/ LeastKey
  \/ \E k \in Keys, v \in Values :
       InsertPresent(k, v) \/ InsertNonFull(k, v) \/ InsertSplit(k, v) \/ Update(k, v)
  \/ \E k \in Keys : Delete(k) \/ Find(k)

LeafSpec == LeafInit /\ [][LeafNext]_leafVars
-----------------------------------------------------------------------------
Leaves == {leaf} \cup (IF new = <<>> THEN {} ELSE {new[1].leaf})

Leafs ==
  [bits : SUBSET Slots,
   kv : [Slots -> [key : Keys \cup {0}, val : Values \cup {0}]],
   fp : [Slots -> {0} \cup {Hash[k] : k \in Keys}], n : 0 .. 2 * LeafDegree]

\* The types of the state.
LeafTypeOK == Leaves \subseteq Leafs /\ live \in BOOLEAN

\* assert(len == n) (fptree.cpp:460): the volatile count, raised and lowered by
\* every operation, halved by a split and set to 0 for a leaf that was used
\* before, is the number of bits set, which is all the next process has.
CountExact == \A l \in Leaves : l.n = Cardinality(l.bits)

\* A slot whose bit is set has the fingerprint of its key, or find would pass it
\* by, and no key is in two such slots, or a remove would uncover the other:
\* through reuse of slots and leaves, and the moves of a split.
SlotsSound ==
  \A l \in Leaves : \A s \in l.bits :
    /\ l.kv[s].key \in Keys /\ l.fp[s] = Hash[l.kv[s].key]
    /\ \A t \in l.bits : l.kv[t].key = l.kv[s].key => t = s

\* insertNonFull "is assumed not full" (fptree.cpp:404): findFirstZero, whose
\* -1 nobody looks at, always finds a slot.
SlotToSpare == \A l \in Leaves : l.bits # Slots

\* The slots do what the tree expects of a leaf: in whatever order findSplitKey
\* leaves the entries, and though fingerprints collide, the operations are those
\* on the map from keys to values, and reloading changes nothing.
Store ==
  INSTANCE LeafStore WITH
    Degree <- 2, kv <- Entries(leaf), new <- [i \in DOMAIN new |->
      [key |-> new[i].key, node |-> [leaf |-> TRUE, kv |-> Entries(new[i].leaf)]]]
ImplementsLeafStore == Store!StoreSpec
=============================================================================
