---------------------------- MODULE MCPAllocator ----------------------------
(* Constants of the allocator's runs: two leaves a group, so that a group  *)
(* runs out and is refilled after two calls of getLeaf.                    *)
EXTENDS PAllocator

MCGroupSize == 2
MCMaxFiles  == 3
MCMaxFrees  == 4
=============================================================================
