------------------------- MODULE MCDurableAllocator -------------------------
(* Constants of the runs of the allocator with crashes: two files of two   *)
(* leaves, so that a group runs out with a freed leaf below it on the      *)
(* stack and is followed by another, and two crashes at any two points.    *)
EXTENDS AllocatorSteps

MCGroupSize  == 2
MCMaxFiles   == 2
MCMaxFrees   == 3
MCMaxCrashes == 2
=============================================================================
