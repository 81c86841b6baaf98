------------------------------ MODULE InnerNode ------------------------------
(***************************************************************************)
(* The operations of one inner node of the tree on its children, and of a  *)
(* child on its parent and its brothers (InnerNode in src/fptree.cpp).     *)
(*                                                                         *)
(* keys[] and children[], with their count n, are one sequence of entries: *)
(* entry i is [key |-> keys[i - 1], node |-> children[i - 1]].  A node is  *)
(* [leaf |-> FALSE, es |-> entries] or [leaf |-> TRUE, kv |-> a function   *)
(* from the keys in the leaf to their values].  isRoot is not stored: it   *)
(* is true of the node FPTree::root points to and of no other.             *)
(***************************************************************************)
EXTENDS Naturals, Sequences, FiniteSets, SequencesExt

CONSTANTS
  Degree,     \* FPTree::degree
  LeafDegree  \* LEAF_DEGREE

ASSUME DegreeAssumption ==
  /\ Degree \in Nat \ {0}
  /\ LeafDegree \in Nat \ {0, 1}

Inner(es) == [leaf |-> FALSE, es |-> es]
Leaf(kv)  == [leaf |-> TRUE, kv |-> kv]

\* The entries the arrays keys and children have room for.
Capacity == 2 * Degree + 2

\* getMinKey, of a leaf that is not empty and of an inner node.
MinKey(node) ==
  IF node.leaf
  THEN CHOOSE k \in DOMAIN node.kv : \A j \in DOMAIN node.kv : k <= j
  ELSE node.es[1].key
-----------------------------------------------------------------------------
\* Mutants of the operations below.

\* lower_bound for upper_bound.
FindIndexLower(es, k) == Cardinality({i \in 1 .. Len(es) : es[i].key < k})

\* The right brother itself is taken over, not its entries.
MergeRightNests(p, i) ==
  LET es == Append(p[i].node.es, p[i + 1])
  IN [p EXCEPT ![i + 1] = [key |-> es[1].key, node |-> Inner(es)]]

RedistributeRightKeepsKey(p, i) ==
  LET r == p[i + 1].node.es
  IN [p EXCEPT ![i].node = Inner(Append(@.es, r[1])),
               ![i + 1] = [key |-> @.key, node |-> Inner(Tail(r))]]

\* The entry of the left brother goes to the end.
RedistributeLeftAtEnd(p, i) ==
  LET l == p[i - 1].node.es
  IN [p EXCEPT ![i - 1].node = Inner(Front(l)),
               ![i] = [key |-> @.key, node |-> Inner(Append(@.node.es, Last(l)))]]

\* A brother gives an entry it cannot spare.
SpareBare(es) == Len(es) > Degree - 1
-----------------------------------------------------------------------------
\* upper_bound over the sorted keys: how many are not larger than k.
FindIndex(es, k) == Cardinality({i \in 1 .. Len(es) : es[i].key <= k})

InsertNonFull(es, e) == InsertAt(es, FindIndex(es, e.key) + 1, e)

\* InnerNode::split: the left node keeps the first SplitPoint entries.
SplitPoint(es) == Len(es) - Len(es) \div 2
SplitLeft(es)  == SubSeq(es, 1, SplitPoint(es))
SplitRight(es) == SubSeq(es, SplitPoint(es) + 1, Len(es))

RemoveChild(es, i) == RemoveAt(es, i)

\* keys[0] = children[0]->getMinKey()
RefreshFirst(es) == [es EXCEPT ![1].key = MinKey(es[1].node)]

\* InnerNode::insert of an entry for a new child, splitting the node if it is
\* full.
AddChild(es, e) ==
  LET l == SplitLeft(es)
      r == SplitRight(es)
      k == r[1].key
  IN IF Len(es) < 2 * Degree + 1
     THEN [node |-> Inner(InsertNonFull(es, e)), new |-> <<>>]
     ELSE IF e.key < k
     THEN [node |-> Inner(InsertNonFull(l, e)), new |-> <<[key |-> k, node |-> Inner(r)]>>]
     ELSE [node |-> Inner(l), new |-> <<[key |-> k, node |-> Inner(InsertNonFull(r, e))]>>]

\* The child insert goes on in: the first one takes the keys below them all.
At(es, k) == LET pos == FindIndex(es, k) IN IF pos = 0 THEN 1 ELSE pos

\* InnerNode::insert once the child has returned r: what becomes of the child,
\* and the new right brother it split off, if any.
InsertStep(es, k, r) ==
  LET es1 == [es EXCEPT ![At(es, k)].node = r.node]
      es2 == IF FindIndex(es, k) = 0 THEN RefreshFirst(es1) ELSE es1
  IN IF r.new = <<>> THEN [node |-> Inner(es2), new |-> <<>>]
     ELSE AddChild(es2, r.new[1])

\* Children i and i + 1 of p become child i + 1, whose entry takes the key of
\* the merged node: mergeRight or mergeParentRight by child i, mergeLeft or
\* mergeParentLeft by child i + 1 into child i.
MergeRight(p, i) ==
  LET es == p[i].node.es \o p[i + 1].node.es
  IN [p EXCEPT ![i + 1] = [key |-> es[1].key, node |-> Inner(es)]]

MergeLeft(p, i) ==
  LET es == p[i - 1].node.es \o p[i].node.es
  IN [p EXCEPT ![i - 1] = [key |-> es[1].key, node |-> Inner(es)]]

\* Child i takes the first entry of its right brother, or the last of its left.
RedistributeRight(p, i) ==
  LET r == p[i + 1].node.es
  IN [p EXCEPT ![i].node = Inner(Append(@.es, r[1])),
               ![i + 1] = [key |-> r[2].key, node |-> Inner(Tail(r))]]

RedistributeLeft(p, i) ==
  LET l == p[i - 1].node.es
  IN [p EXCEPT ![i - 1].node = Inner(Front(l)),
               ![i] = [key |-> Last(l).key, node |-> Inner(<<Last(l)>> \o @.node.es)]]

\* n < degree + 1, the test after a child is gone.
Underfull(es) == Len(es) < Degree + 1
Spare(es) == Len(es) > Degree + 1

\* InnerNode::remove of child i of p, once it is underfull: the parent's entries
\* afterwards, gone (ifDelete: the parent has to remove child i), and ok (FALSE
\* for the last return of the function, which returns false).  Case 6 merges
\* whatever the sizes, cases 2 and 3 move one entry, cases 4 and 5 merge.
Rebalance(p, pIsRoot, i) ==
  LET left      == i > 1
      right     == i < Len(p)
      case6     == pIsRoot /\ Len(p) = 2
      takeRight == ~case6 /\ right /\ Spare(p[i + 1].node.es)
      takeLeft  == ~case6 /\ ~takeRight /\ left /\ Spare(p[i - 1].node.es)
      intoLeft  == left /\ (case6 \/ ~right)
  IN CASE takeRight -> [p |-> RedistributeRight(p, i), gone |-> FALSE, ok |-> TRUE]
       [] takeLeft  -> [p |-> RedistributeLeft(p, i), gone |-> FALSE, ok |-> TRUE]
       [] ~takeRight /\ ~takeLeft /\ intoLeft ->
            [p |-> MergeLeft(p, i), gone |-> TRUE, ok |-> TRUE]
       [] ~takeRight /\ ~takeLeft /\ ~intoLeft /\ right ->
            [p |-> MergeRight(p, i), gone |-> TRUE, ok |-> TRUE]
       [] ~left /\ ~right -> [p |-> p, gone |-> TRUE, ok |-> FALSE]

\* InnerNode::remove of child i of p, an inner node, once its own child has
\* returned r: the parent's entries afterwards, whether the key was removed, and
\* whether the parent has to remove child i.
RemoveStep(p, pIsRoot, i, k, r) ==
  LET put(node) == [p EXCEPT ![i].node = node]
      pos == FindIndex(p[i].node.es, k)
      es  == RemoveChild(r.p, pos)
      b   == Rebalance(put(Inner(es)), pIsRoot, i)
  IN CASE pos = 0 -> [p |-> p, removed |-> FALSE, gone |-> FALSE]
       [] pos # 0 /\ ~r.gone ->
            [p |-> put(Inner(RefreshFirst(r.p))), removed |-> r.removed,
             gone |-> FALSE]
       [] pos # 0 /\ r.gone /\ ~Underfull(es) ->
            [p |-> put(Inner(es)), removed |-> r.removed, gone |-> FALSE]
       [] pos # 0 /\ r.gone /\ Underfull(es) ->
            [p |-> b.p, removed |-> r.removed /\ b.ok, gone |-> b.gone]
=============================================================================
