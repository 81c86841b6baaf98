----------------------------- MODULE MCLeafChain -----------------------------
(* Constants of the leaf chain's runs: two files of two leaves make chains   *)
(* of up to four leaves, enough for a leaf whose two neighbours have         *)
(* neighbours of their own, and for a split that finds no leaf; five frees   *)
(* empty such a tree and one after it, past a restart that forgets leaves.   *)
EXTENDS LeafChain

MCGroupSize == 2
MCMaxFiles  == 2
MCMaxFrees  == 5
=============================================================================
