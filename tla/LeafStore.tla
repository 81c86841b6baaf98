------------------------------ MODULE LeafStore ------------------------------
(***************************************************************************)
(* What a leaf promises the tree: a map from keys to values that splits at *)
(* its median when it is full (LeafMap), through any sequence of calls of  *)
(* LeafNode's operations and of reloads by later processes.                *)
(***************************************************************************)
EXTENDS LeafMap

CONSTANTS Keys, Values

VARIABLES
  kv,   \* the entries of the leaf
  new,  \* the leaf the last operation split off, if any, with its least key
  ret   \* the last operation and what it returned

Returns(op, k, out) == ret' = [op |-> op, key |-> k, out |-> out]

StoreInit == kv = <<>> /\ new = <<>> /\ ret = [op |-> "free", key |-> 0, out |-> 0]

\* LeafNode(FPTree*), on a leaf never used or freed when its last entry went.
Create == kv = <<>> /\ Returns("create", 0, 0) /\ new' = <<>> /\ UNCHANGED kv

Insert(k, v) ==
  LET r == LeafInsert(kv, k, v)
  IN kv' = r.node.kv /\ new' = r.new /\ Returns("insert", k, 0)

\* remove returns true if the key was there, and ifDelete if the leaf is empty.
Delete(k) ==
  LET r == LeafRemove(kv, k)
  IN /\ kv' = r.node.kv /\ new' = <<>>
     /\ Returns("remove", k, <<r.removed, r.gone>>)

Update(k, v) ==
  LET r == LeafUpdate(kv, k, v)
  IN kv' = r.node.kv /\ new' = <<>> /\ Returns("update", k, r.found)

Find(k) == Returns("find", k, LeafFind(kv, k)) /\ new' = <<>> /\ UNCHANGED kv

LeastKey ==
  /\ kv # <<>> /\ Returns("getMinKey", 0, MinKey(Leaf(kv)))
  /\ new' = <<>> /\ UNCHANGED kv

\* The process ends, and the next one loads the leaf.
Reload == Returns("load", 0, 0) /\ new' = <<>> /\ UNCHANGED kv

\* The operations that follow are on the leaf that was split off.
Visit == new # <<>> /\ kv' = new[1].node.kv /\ new' = <<>> /\ UNCHANGED ret

StoreNext ==
  \/ Create \/ Reload \/ Visit \/ LeastKey
  \/ \E k \in Keys, v \in Values : Insert(k, v) \/ Update(k, v)
  \/ \E k \in Keys : Delete(k) \/ Find(k)

StoreSpec == StoreInit /\ [][StoreNext]_<<kv, new, ret>>
=============================================================================
