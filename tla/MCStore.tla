------------------------------- MODULE MCStore -------------------------------
(* Constants of the store's run: one file of three leaves, and keys for two  *)
(* splits and a leaf between two others; two frees give a leaf that is used  *)
(* a second time, and a restart forgets one.                                 *)
EXTENDS Store

MCGroupSize == 3
MCMaxFiles  == 1
MCMaxFrees  == 2
MCKeys      == 1 .. 5
=============================================================================
