--------------------------- MODULE AllocatorSteps ---------------------------
(***************************************************************************)
(* The stores and flushes of DurableAllocator add up to the operations of  *)
(* PAllocator: each call that no crash cuts short is one step of it.       *)
(* base is PAllocator's state as of the last call to return, or as the     *)
(* constructor found it after a crash.                                     *)
(***************************************************************************)
EXTENDS DurableAllocator

VARIABLE base

\* What PAllocator's variables are between two calls.
View ==
  [maxFileId |-> catalog.maxFileId, freeNum |-> catalog.freeNum,
   startLeaf |-> catalog.startLeaf, freeList |-> SubSeq(cells, 1, sz),
   used |-> used, usedNum |-> [f \in 1 .. MaxFiles |-> usedNum[f]],
   freed |-> freed]

\* The constructor has returned for the first time.
StepsInit ==
  /\ DurableInit
  /\ base = [View EXCEPT !.maxFileId = 1]

StepsNext ==
  /\ DurableNext
  /\ base' = IF pc' = "idle" THEN View' ELSE base

StepsSpec == StepsInit /\ [][StepsNext]_<<durableVars, base>>

PA == INSTANCE PAllocator WITH
        maxFileId <- base.maxFileId, freeNum <- base.freeNum,
        startLeaf <- base.startLeaf, freeList <- base.freeList,
        used <- base.used, usedNum <- base.usedNum, freed <- base.freed

\* Every call of the allocator, taken store by store, has the effect of the
\* operation of PAllocator as a whole, and a process that starts between two
\* calls finds what PAllocator keeps across a restart; so have the calls after
\* a crash, unless it tore the catalog.
StepsAreOperations ==
  PA!AllocInit /\ [][PA!AllocNext \/ crashes' > crashes \/ torn]_base
=============================================================================
