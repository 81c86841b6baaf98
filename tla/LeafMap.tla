------------------------------- MODULE LeafMap -------------------------------
(***************************************************************************)
(* The operations of a leaf (LeafNode in src/fptree.cpp) as the tree sees  *)
(* them: on the map from the keys in the leaf to their values.             *)
(***************************************************************************)
EXTENDS InnerNode, TLC

CONSTANT NoValue  \* MAX_VALUE, what find returns for a key that is not there

\* LeafNode::insert and split.  The result of an insertion is the node and the
\* new right sibling it split off, if any, as a sequence of at most one entry.
LeafFull(n) == n >= 2 * LeafDegree - 1

\* The map f with an entry for k, new or in place of the one it had.
WithEntry(f, k, v) == [j \in DOMAIN f \cup {k} |-> IF j = k THEN v ELSE f[j]]

Smallest(S, n) == {k \in S : Cardinality({j \in S : j < k}) < n}
PartOf(kv, S) == [k \in S |-> kv[k]]

LeafInsert(kv, k, v) ==
  LET with(part) == Leaf(WithEntry(part, k, v))
      n     == Cardinality(DOMAIN kv)
      low   == Smallest(DOMAIN kv, n - n \div 2)
      left  == PartOf(kv, low)
      right == PartOf(kv, DOMAIN kv \ low)
      key   == MinKey(Leaf(right))
  IN IF k \in DOMAIN kv \/ ~LeafFull(n)
     THEN [node |-> with(kv), new |-> <<>>]
     ELSE IF k < key
     THEN [node |-> with(left), new |-> <<[key |-> key, node |-> Leaf(right)]>>]
     ELSE [node |-> Leaf(left), new |-> <<[key |-> key, node |-> with(right)]>>]

\* remove: whether the key was there, and whether the leaf is empty now.
LeafRemove(kv, k) ==
  [node |-> Leaf(PartOf(kv, DOMAIN kv \ {k})),
   removed |-> k \in DOMAIN kv, gone |-> DOMAIN kv = {k}]

LeafFind(kv, k) == IF k \in DOMAIN kv THEN kv[k] ELSE NoValue

LeafUpdate(kv, k, v) ==
  [node  |-> Leaf(IF k \in DOMAIN kv THEN [kv EXCEPT ![k] = v] ELSE kv),
   found |-> k \in DOMAIN kv]
=============================================================================
