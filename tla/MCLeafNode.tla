----------------------------- MODULE MCLeafNode ------------------------------
(* Constants of the run of a leaf: four slots, a split at three entries,   *)
(* and four keys with two fingerprints between them.                       *)
EXTENDS LeafBytes

MCHash == [k \in Keys |-> (k + 1) \div 2]
=============================================================================
