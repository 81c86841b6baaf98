---------------------------- MODULE MCDurableLeaf ----------------------------
(* Constants of the runs of a leaf with crashes: leaves of four slots, whose  *)
(* bits are in two lines, and four keys, with two fingerprints between them.  *)
(* A leaf only copies values, and the properties compare them with each other *)
(* alone, so which value is which makes no difference.                        *)
EXTENDS DurableLeaf, TLC

MCHash == [k \in Keys |-> (k + 1) \div 2]

ValueSymmetry == Permutations(Values)
=============================================================================
