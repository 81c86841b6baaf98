------------------------------ MODULE MCFPTree -------------------------------
(***************************************************************************)
(* Chains of leaves to open the tree over.  Removals leave leaves with one *)
(* entry anywhere in a chain, inserts fill any leaf up, and a tree that is *)
(* opened has a chain of any length below it.  The keys are those of the   *)
(* operations, {4, 8, 9, 12}, and others to stand around them; the value   *)
(* the leaves hold is another than the operations write.                   *)
(***************************************************************************)
EXTENDS BulkLoading

CONSTANT MaxKey

Holding(S) == Leaf([k \in S |-> CHOOSE v \in Values \ OpValues : TRUE])
Thin(keys) == [i \in DOMAIN keys |-> Holding({keys[i]})]

\* Five inner nodes, then two, then the root: a removal anywhere is felt above.
ThreeLevels == Thin(<<1, 2, 3, 4, 5, 6, 7, 8, 9, 12, 13>>)

\* A root over leaves, about to have one leaf too many.
RootChain == <<Holding(4 .. 6), Holding(9 .. 11), Holding({13}), Holding({14})>>

\* Two inner nodes, the second about to have one leaf too many.
SplitChain == Thin(<<1, 2, 3>>) \o <<Holding(5 .. 7)>> \o Thin(<<13, 14>>)

\* Three inner nodes, the first of which is about to grow.
WideChain == <<Holding(1 .. 3), Holding(5 .. 7)>> \o Thin(<<9, 12, 13, 14, 15, 16>>)

\* Two inner nodes, both of which are about to grow.
PairChain == <<Holding(1 .. 3)>> \o [i \in 1 .. 4 |-> Holding({i + 4})] \o <<Holding(9 .. 11)>>

MCKeys     == 1 .. MaxKey
AllChains  == {<<>>, RootChain, SplitChain, WideChain, ThreeLevels}
PairChains == {PairChain}
=============================================================================
