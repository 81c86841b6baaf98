------------------------------- MODULE FPTree --------------------------------
(***************************************************************************)
(* The tree (src/fptree.cpp): inner nodes in volatile memory over leaves   *)
(* in persistent memory, searched, grown and shrunk recursively, and built *)
(* again from the chain of leaves when it is opened.                       *)
(*                                                                         *)
(* A leaf is the map from its keys to their values, with the operations of *)
(* LeafMap.  The chain of leaves is taken to be in order and complete,     *)
(* which is the subject of LeafChain.                                      *)
(***************************************************************************)
EXTENDS LeafMap

CONSTANTS
  Keys,    \* a finite set of naturals
  Values,
  Chains,  \* the chains of leaves, each a sequence of leaves, a run starts with
  OpKeys,  \* bound: the keys the operations of a run are called with,
  OpValues \* bound: and the values

\* What a leaf may hold, and a chain of such leaves in order.
IsFilled(kv) == /\ DOMAIN kv \subseteq Keys /\ kv \in [DOMAIN kv -> Values]
                /\ IsFiniteSet(DOMAIN kv)
                /\ Cardinality(DOMAIN kv) \in 1 .. 2 * LeafDegree - 1

IsChain(c) ==
  /\ c \in Seq(ToSet(c))
  /\ \A l \in ToSet(c) : l = Leaf(l.kv) /\ IsFilled(l.kv)
  /\ \A i, j \in 1 .. Len(c) :
       i < j => \A x \in DOMAIN c[i].kv, y \in DOMAIN c[j].kv : x < y

\* Keys are compared: the code's are unsigned integers.
ASSUME TreeAssumption == /\ Keys \subseteq Nat
                         /\ OpKeys \subseteq Keys /\ OpValues \subseteq Values
                         /\ NoValue \notin Values
                         /\ \A c \in Chains : IsChain(c)

VARIABLES
  root,  \* the root: an inner node, with no entry while the tree is empty
  ret    \* the last operation of FPTree and what it returned

treeVars == <<root, ret>>

Ret(op, k, out) == [op |-> op, key |-> k, out |-> out]
-----------------------------------------------------------------------------
\* The nodes below a node, by how many levels down they are.
Children(node) ==
  IF node.leaf THEN <<>> ELSE [i \in 1 .. Len(node.es) |-> node.es[i].node]

Levels(node) ==
  LET level[d \in Nat] ==
        IF d = 0 THEN {node} ELSE UNION {ToSet(Children(n)) : n \in level[d - 1]}
  IN level

\* The level of the first leaf, or the one below a tree that has none.
Height(node) ==
  LET first[d \in Nat] ==
        IF Levels(node)[d] = {} \/ \E n \in Levels(node)[d] : n.leaf
        THEN d ELSE first[d + 1]
  IN first[0]

\* The inner nodes of a tree, its leaves, the keys and the entries in them.
InnersOf(node) == UNION {Levels(node)[d] : d \in 0 .. Height(node) - 1}
Bottom(node)   == Levels(node)[Height(node)]
KeysOf(node)   == UNION {DOMAIN l.kv : l \in Bottom(node)}
Entries(node)  == UNION {{<<k, l.kv[k]>> : k \in DOMAIN l.kv} : l \in Bottom(node)}

\* The map that has these entries.
MapOf(E) == [k \in {e[1] : e \in E} |-> CHOOSE v \in {e[2] : e \in E} : <<k, v>> \in E]
Contents(node) == CHOOSE f \in {MapOf(E) : E \in {Entries(node)}} : TRUE

\* The leaves below a node from left to right, as bulkLoading finds them on the
\* chain.
LeavesOf(node) ==
  LET row[d \in Nat] ==
        IF d = 0 THEN <<node>>
        ELSE LET above == row[d - 1]
             IN FlattenSeq([i \in 1 .. Len(above) |-> Children(above[i])])
  IN row[Height(node)]
-----------------------------------------------------------------------------
\* Mutants of the operations below.

\* The root gives way to any only child.
RootGivesWayToLeaf(es) == Len(es) = 1
-----------------------------------------------------------------------------
\* The nodes an operation on k is called on, d calls down from node.  Only insert
\* goes on where the key is below all of the node's; the others return there.
Path(node, k) ==
  LET path[d \in Nat] ==
        IF d = 0 THEN node
        ELSE LET above == path[d - 1]
             IN IF above.leaf \/ above.es = <<>> THEN above
                ELSE above.es[At(above.es, k)].node
  IN path

InsertInto(node, k, v) ==
  LET path == Path(node, k)
      call[d \in Nat] ==
        IF path[d].leaf THEN LeafInsert(path[d].kv, k, v)
        ELSE InsertStep(path[d].es, k, call[d + 1])
  IN call[0]

NewRoot(left, e) ==
  Inner(<<[key |-> MinKey(left), node |-> left],
          [key |-> MinKey(e.node), node |-> e.node]>>)

\* FPTree::insert: into an empty root goes a first leaf, and a root that splits
\* gets a new root above it.
InsertKey(t, k, v) ==
  LET r == InsertInto(t, k, v)
  IN IF t.es = <<>> THEN Inner(<<[key |-> k, node |-> Leaf([j \in {k} |-> v])]>>)
     ELSE IF r.new = <<>> THEN r.node
     ELSE NewRoot(r.node, r.new[1])
-----------------------------------------------------------------------------
\* remove of k from child i of p, a leaf.
RemoveFromLeaf(p, i, k) ==
  LET r == LeafRemove(p[i].node.kv, k)
  IN [p |-> [p EXCEPT ![i].node = r.node], removed |-> r.removed, gone |-> r.gone]

\* remove of k from the child it belongs to of the root t: call d is the one that
\* the node d calls down makes.
RemoveBelow(t, k) ==
  LET path == Path(t, k)
      call[d \in Nat] ==
        LET p == path[d].es
            i == FindIndex(p, k)
        IN IF path[d + 1].leaf THEN RemoveFromLeaf(p, i, k)
           ELSE RemoveStep(p, d = 0, i, k, call[d + 1])
  IN call[0]

RootGivesWay(es) == Len(es) = 1 /\ ~es[1].node.leaf

\* FPTree::remove, and InnerNode::remove of the root: a root left with one
\* inner child gives way to it.
RemoveKey(t, k) ==
  LET pos == FindIndex(t.es, k)
      r   == RemoveBelow(t, k)
      es  == RemoveChild(r.p, pos)
  IN CASE pos = 0 -> [t |-> t, removed |-> FALSE]
       [] pos # 0 /\ ~r.gone ->
            [t |-> Inner(RefreshFirst(r.p)), removed |-> r.removed]
       [] pos # 0 /\ r.gone ->
            [t |-> IF RootGivesWay(es) THEN es[1].node ELSE Inner(es),
             removed |-> r.removed]
-----------------------------------------------------------------------------
FindKey(node, k) ==
  LET path == Path(node, k)
      call[d \in Nat] ==
        IF path[d].leaf THEN LeafFind(path[d].kv, k)
        ELSE IF FindIndex(path[d].es, k) = 0 THEN NoValue ELSE call[d + 1]
  IN call[0]

UpdateKey(node, k, v) ==
  LET path == Path(node, k)
      call[d \in Nat] ==
        LET es  == path[d].es
            pos == FindIndex(es, k)
            r   == call[d + 1]
        IN IF path[d].leaf THEN LeafUpdate(path[d].kv, k, v)
           ELSE IF pos = 0 THEN [node |-> path[d], found |-> FALSE]
           ELSE [node |-> Inner([es EXCEPT ![pos].node = r.node]), found |-> r.found]
  IN call[0]
-----------------------------------------------------------------------------
\* bulkLoading: the nodes of one level, from left to right, get parents of
\* Degree children each until fewer than 2 * Degree + 1 are left, which share
\* the last; and so level by level up to a single inner node.
Groups(n) == IF n < 2 * Degree + 1 THEN 1 ELSE (n - 1) \div Degree

Parents(nodes) ==
  LET last == Groups(Len(nodes))
      entry(i) == [key |-> MinKey(nodes[i]), node |-> nodes[i]]
      size(g) == IF g = last THEN Len(nodes) - (last - 1) * Degree ELSE Degree
  IN [g \in 1 .. last |->
        Inner([i \in 1 .. size(g) |-> entry((g - 1) * Degree + i)])]

IsSingle(nodes) == Len(nodes) = 1 /\ ~nodes[1].leaf

BuildUp(nodes) ==
  LET level[d \in Nat] ==
        IF d = 0 THEN nodes
        ELSE IF IsSingle(level[d - 1]) THEN level[d - 1] ELSE Parents(level[d - 1])
      top[d \in Nat] == IF IsSingle(level[d]) THEN level[d][1] ELSE top[d + 1]
  IN top[0]

BulkLoad(chain) == IF chain = <<>> THEN Inner(<<>>) ELSE BuildUp(chain)
-----------------------------------------------------------------------------
\* No inner node has outgrown its arrays; past that the program has written
\* beyond them, and the model stops.
WithinCapacity == \A node \in InnersOf(root) : Len(node.es) <= Capacity

Init ==
  /\ root \in {BulkLoad(c) : c \in Chains}
  /\ ret = Ret("open", NoValue, NoValue)

InsertEntry(k, v) ==
  /\ WithinCapacity
  /\ root' = InsertKey(root, k, v)
  /\ ret' = Ret("insert", k, NoValue)

RemoveEntry(k) ==
  /\ WithinCapacity
  /\ LET r == RemoveKey(root, k)
     IN root' = r.t /\ ret' = Ret("remove", k, r.removed)

UpdateEntry(k, v) ==
  /\ WithinCapacity
  /\ LET r == UpdateKey(root, k, v)
     IN root' = r.node /\ ret' = Ret("update", k, r.found)

FindEntry(k) ==
  /\ WithinCapacity
  /\ ret' = Ret("find", k, FindKey(root, k))
  /\ UNCHANGED root

\* The tree is destroyed and opened again, by this process or the next.
Reopen ==
  /\ WithinCapacity
  /\ root' = BulkLoad(LeavesOf(root))
  /\ ret' = Ret("open", NoValue, NoValue)

Next ==
  \/ \E k \in OpKeys, v \in OpValues : InsertEntry(k, v) \/ UpdateEntry(k, v)
  \/ \E k \in OpKeys : RemoveEntry(k) \/ FindEntry(k)
  \/ Reopen

Spec == Init /\ [][Next]_treeVars
-----------------------------------------------------------------------------
\* Every node has the fields of its kind.
HasType ==
  /\ \A n \in InnersOf(root) : \A e \in ToSet(n.es) : e.key \in Keys
  /\ \A l \in Bottom(root) :
       DOMAIN l.kv \subseteq Keys /\ l.kv \in [DOMAIN l.kv -> Values]

\* The type invariant: the root is an inner node over nodes of either kind, and
\* ret is the name, the key and the result of an operation (FPTree's methods).
TreeTypeOK ==
  /\ ~root.leaf /\ HasType
  /\ ret.op \in {"open", "insert", "remove", "update", "find"}
  /\ ret.key \in Keys \cup {NoValue}
  /\ \/ ret.op \in {"open", "insert"} /\ ret.out = NoValue
     \/ ret.op \in {"remove", "update"} /\ ret.out \in BOOLEAN
     \/ ret.op = "find" /\ ret.out \in Values \cup {NoValue}

\* The separators of an inner node ascend strictly, and each bounds the keys of
\* its child from below and those of the child before it from above: what the
\* upper_bound of findIndex needs after any mix of splits, merges,
\* redistributions and separators left stale by remove.
SeparatorsBound ==
  \A node \in InnersOf(root) : \A i \in 1 .. Len(node.es) :
    LET below == KeysOf(node.es[i].node)
    IN /\ \A k \in below : node.es[i].key <= k
       /\ i < Len(node.es) =>
            /\ node.es[i].key < node.es[i + 1].key
            /\ \A k \in below : k < node.es[i + 1].key

\* The tree stays balanced: every leaf is at the same depth, however the root was
\* split, merged into a child or replaced by its only child.
Balanced == \A n \in Bottom(root) : n.leaf

\* No leaf is empty or full, and no inner node but the root has fewer than Degree
\* or more than 2 * Degree + 1 children (for a degree of at least MIN_DEGREE = 2):
\* a node that remove leaves with too few gets or gives its entries to a brother.
\* The root has at most 3 * Degree + 1, what case 6 of remove can put into it.
Occupancy ==
  /\ \A l \in Bottom(root) :
       Cardinality(DOMAIN l.kv) \in 1 .. 2 * LeafDegree - 1
  /\ \A node \in InnersOf(root) \ {root} :
       Len(node.es) \in Degree .. 2 * Degree + 1
  /\ Len(root.es) <= 3 * Degree + 1

\* FPTree implements the dictionary: every operation does to the contents of the
\* leaves, and returns, what KVStore says, and find and remove reach the leaf
\* that holds the key whatever shape the tree has.
KV == INSTANCE KVStore WITH store <- Contents(root), ret <- ret
ImplementsKVStore == KV!Spec

\* At most one leaf of old is replaced by at most two.
OneLeafDiffers(old, new) ==
  \E n \in 0 .. 1, m \in 0 .. 2 :
    /\ Len(new) = Len(old) - n + m
    /\ \E i \in 0 .. Len(old) - n :
         new = SubSeq(old, 1, i) \o SubSeq(new, i + 1, i + m)
               \o SubSeq(old, i + n + 1, Len(old))

\* An operation touches at most one leaf, and adds or frees at most one, to the
\* right of which and to the left the leaves and their order stay: rebalancing
\* the inner nodes never loses, repeats or reorders a leaf.
LeavesStayInPlace ==
  [][\E old \in {LeavesOf(root)}, new \in {LeavesOf(root')} :
       OneLeafDiffers(old, new)]_treeVars

\* "max (2 * d + 2) keys", "max (2 * d + 2) node pointers" (fptree.h:108-109).
NodesFitTheirArrays == WithinCapacity
=============================================================================
