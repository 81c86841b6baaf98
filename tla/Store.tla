-------------------------------- MODULE Store --------------------------------
(***************************************************************************)
(* The store from one process to the next: the entries of the leaves, over *)
(* the chain they are on and the allocator they come from.                 *)
(*                                                                         *)
(* kv is what persistent memory holds of a leaf's entries, whoever owns    *)
(* the leaf.  The inner nodes are left out: they route an operation to a   *)
(* leaf that the key fits in by order, any of them if several do, for a    *)
(* separator may be any bound between two leaves (FPTree's subject).       *)
(***************************************************************************)
EXTENDS LeafChain, LeafMap

CONSTANTS Keys, Values

\* Keys are compared: the code's are unsigned integers, as its values are.
ASSUME StoreAssumption == Keys \subseteq Nat /\ Values # {}

VARIABLES
  kv,  \* of every leaf there is, the map from its keys to their values
  ret  \* the last operation and what it returned

storeVars == <<vars, kv, ret>>

Returns(op, k, out) == ret' = [op |-> op, key |-> k, out |-> out]

StoreInit ==
  /\ ChainInit
  /\ kv = [p \in Leaves |-> <<>>]
  /\ ret = [op |-> "open", key |-> NoValue, out |-> NoValue]

\* The keys in the leaves s[i] with i in I.
KeysIn(s, I) == UNION {DOMAIN kv[s[i]] : i \in I}
Fits(k, i) ==
  /\ \A j \in KeysIn(leaves, 1 .. i - 1) : j < k
  /\ \A j \in KeysIn(leaves, i + 1 .. Len(leaves)) : k < j
Routes(k) == {i \in 1 .. Len(leaves) : Fits(k, i)}
Ready == mode = "open" /\ fault = "none"
-----------------------------------------------------------------------------
\* Mutants of the operations below.

\* The new leaf is read before the entries are copied to it.
InsertSplitUncopied(k, v) ==
  \E i \in Routes(k), q \in Leaves :
    LET r == LeafInsert(kv[leaves[i]], k, v)
    IN /\ r.new # <<>>
       /\ SplitLeaf(i, q)
       /\ kv' = [kv EXCEPT ![leaves[i]] = r.node.kv]
       /\ Returns("insert", k, NoValue)

\* The bit of the last entry stays set, since the leaf is freed anyway.
RemoveLastKept(k) ==
  \E i \in Routes(k) :
    /\ DOMAIN kv[leaves[i]] = {k}
    /\ EmptyLeaf(i)
    /\ UNCHANGED kv
    /\ IF fault' = "none" THEN Returns("remove", k, TRUE) ELSE UNCHANGED ret
-----------------------------------------------------------------------------
\* insert into an empty tree: what the leaf's slots hold is not looked at.
InsertFirst(k, v) ==
  \E p \in Leaves :
    /\ FirstInsert(p)
    /\ kv' = [kv EXCEPT ![p] = WithEntry(@, k, v)]
    /\ Returns("insert", k, NoValue)

InsertStays(k, v) ==
  \E i \in Routes(k) :
    LET r == LeafInsert(kv[leaves[i]], k, v)
    IN /\ Ready /\ r.new = <<>>
       /\ kv' = [kv EXCEPT ![leaves[i]] = r.node.kv]
       /\ Returns("insert", k, NoValue)
       /\ UNCHANGED vars

\* The copy of the leaf replaces all the new leaf held.
InsertSplit(k, v) ==
  \E i \in Routes(k), q \in Leaves :
    LET r == LeafInsert(kv[leaves[i]], k, v)
    IN /\ r.new # <<>>
       /\ SplitLeaf(i, q)
       /\ kv' = [kv EXCEPT ![leaves[i]] = r.node.kv, ![q] = r.new[1].node.kv]
       /\ Returns("insert", k, NoValue)

InsertFails ==
  /\ \/ leaves = <<>>
     \/ \E p \in ToSet(leaves) : LeafFull(Cardinality(DOMAIN kv[p]))
  /\ AllocationFails
  /\ UNCHANGED <<kv, ret>>

\* remove: of a key that is not there or not the last of its leaf, and of the
\* last entry of a leaf, which goes.
RemoveStays(k) ==
  \E i \in Routes(k) :
    LET r == LeafRemove(kv[leaves[i]], k)
    IN /\ Ready /\ ~r.gone
       /\ kv' = [kv EXCEPT ![leaves[i]] = r.node.kv]
       /\ Returns("remove", k, r.removed)
       /\ UNCHANGED vars

RemoveLast(k) ==
  \E i \in Routes(k) :
    LET r == LeafRemove(kv[leaves[i]], k)
    IN /\ r.gone
       /\ EmptyLeaf(i)
       /\ IF fault' = "none"
          THEN kv' = [kv EXCEPT ![leaves[i]] = r.node.kv] /\ Returns("remove", k, TRUE)
          ELSE UNCHANGED <<kv, ret>>

UpdateKey(k, v) ==
  \E i \in Routes(k) :
    LET r == LeafUpdate(kv[leaves[i]], k, v)
    IN /\ Ready
       /\ kv' = [kv EXCEPT ![leaves[i]] = r.node.kv]
       /\ Returns("update", k, r.found)
       /\ UNCHANGED vars

FindKey(k) ==
  \E i \in Routes(k) :
    /\ Ready
    /\ Returns("find", k, LeafFind(kv[leaves[i]], k))
    /\ UNCHANGED <<vars, kv>>

\* Everything else of a key, in an empty tree.
NothingThere(k) ==
  /\ Ready /\ leaves = <<>>
  /\ \/ Returns("remove", k, FALSE) \/ Returns("update", k, FALSE)
     \/ Returns("find", k, NoValue)
  /\ UNCHANGED <<vars, kv>>

Load ==
  /\ Close \/ Restart \/ LoadFirst \/ LoadNext
  /\ UNCHANGED <<kv, ret>>

Opened ==
  /\ OpenEmpty \/ LoadDone
  /\ Returns("open", NoValue, NoValue)
  /\ UNCHANGED kv

StoreNext ==
  \/ \E k \in Keys, v \in Values :
       InsertFirst(k, v) \/ InsertStays(k, v) \/ InsertSplit(k, v) \/ UpdateKey(k, v)
  \/ \E k \in Keys : RemoveStays(k) \/ RemoveLast(k) \/ FindKey(k) \/ NothingThere(k)
  \/ InsertFails \/ Load \/ Opened

StoreSpec == StoreInit /\ [][StoreNext]_storeVars
-----------------------------------------------------------------------------
\* A leaf that is free holds no entry, though freeLeaf and the LeafNode that is
\* made for it next write nothing to its slots: what the first insert into a
\* recycled leaf is put next to, and what the count a later process makes of its
\* bits rests on, whatever order of splits, removals and restarts came before.
FreeLeavesEmpty == \A p \in Leaves \ used : kv[p] = <<>>

\* The leaves of the tree, or of the tree that was closed last.
Chain == IF mode = "open" THEN leaves ELSE saved

\* The leaves of the durable chain are in key order and none is empty, in the
\* tree and while no process runs: what bulkLoading builds its separators from,
\* which asks every leaf for its least key.
ChainAscends ==
  ~unsafe /\ fault = "none" =>
    \A i \in 1 .. Len(Chain) :
      /\ kv[Chain[i]] # <<>>
      /\ \A j \in KeysIn(Chain, 1 .. i - 1), k \in DOMAIN kv[Chain[i]] : j < k

\* The entries along the chain.
Merged ==
  [k \in KeysIn(Chain, DOMAIN Chain) |->
     kv[CHOOSE p \in ToSet(Chain) : k \in DOMAIN kv[p]][k]]

\* The store is the dictionary of KVStore, across splits, emptied leaves that are
\* used again, processes that end and allocators that forget: until the first
\* unsafe step, every key inserted is found by every later process.
Dictionary == INSTANCE KVStore WITH store <- Merged
KeepsDictionary == Dictionary!Init /\ [][Dictionary!Next \/ unsafe']_<<Merged, ret>>
=============================================================================
