----------------------------- MODULE PAllocator -----------------------------
(***************************************************************************)
(* The persistent leaf allocator (src/p_allocator.cpp).  Leaves live in    *)
(* leaf group files of GroupSize leaves each; a catalog file counts the    *)
(* free leaves and names the first leaf of the tree, and a free_list file  *)
(* is the stack of free leaves.  All three are mapped persistent memory,   *)
(* so they outlive the process; only the height of the stack (pmem_stack's *)
(* sz) is volatile, and a restart takes it from the catalog.               *)
(*                                                                         *)
(* A PPointer {fileId, offset} is the pair <<file, slot>>: slot i stands   *)
(* for the offset of leaves[i - 1] in the group file.                      *)
(***************************************************************************)
EXTENDS Naturals, Sequences, FiniteSets

CONSTANTS
  GroupSize,  \* LEAF_GROUP_AMOUNT, the leaves of a group file
  MaxFiles,   \* the number of group files the file system has room for
  MaxFrees    \* bound on the freeLeaf calls of a behaviour

ASSUME AllocatorAssumption ==
  /\ GroupSize \in Nat \ {0}
  /\ MaxFiles \in Nat
  /\ MaxFrees \in Nat

VARIABLES
  maxFileId,  \* catalog: id of the next group file; files 1 .. maxFileId-1 exist
  freeNum,    \* catalog: free leaves, as the catalog counts them
  startLeaf,  \* catalog: the first leaf of the tree's chain
  freeList,   \* the entries below the top of the free stack
  used,       \* the leaves whose byte in their group's bitmap is 1
  usedNum,    \* group headers: leaves in use, as each group counts them
  freed       \* history: successful freeLeaf calls so far

allocVars == <<maxFileId, freeNum, startLeaf, freeList, used, usedNum, freed>>

Files    == 1 .. MaxFiles
Leaves   == Files \X (1 .. GroupSize)
NoLeaf   == <<0, 0>>
Existing == (1 .. (maxFileId - 1)) \X (1 .. GroupSize)

\* The leaves of group file f in the order newLeafGroup pushes them.
GroupLeaves(f) == [i \in 1 .. GroupSize |-> <<f, i>>]

AllocInit ==
  /\ maxFileId = 1
  /\ freeNum = 0
  /\ startLeaf = NoLeaf
  /\ freeList = <<>>
  /\ used = {}
  /\ usedNum = [f \in Files |-> 0]
  /\ freed = 0
-----------------------------------------------------------------------------
\* Mutants of the operations below.
TakeTopUncounted(pool, num, p) ==
  /\ p = pool[Len(pool)]
  /\ freeList' = SubSeq(pool, 1, Len(pool) - 1)
  /\ freeNum' = num
  /\ used' = used \cup {p}
  /\ usedNum' = [usedNum EXCEPT ![p[1]] = @ + 1]
  /\ startLeaf' = IF startLeaf = NoLeaf THEN p ELSE startLeaf

TakeTopUnpopped(pool, num, p) ==
  /\ p = pool[Len(pool)]
  /\ freeList' = pool
  /\ freeNum' = num - 1
  /\ used' = used \cup {p}
  /\ usedNum' = [usedNum EXCEPT ![p[1]] = @ + 1]
  /\ startLeaf' = IF startLeaf = NoLeaf THEN p ELSE startLeaf
-----------------------------------------------------------------------------
\* newLeafGroup, called directly: it fails, changing nothing, when the file
\* cannot be created.
NewLeafGroup ==
  /\ maxFileId \in Files
  /\ freeList' = freeList \o GroupLeaves(maxFileId)
  /\ freeNum' = freeNum + GroupSize
  /\ maxFileId' = maxFileId + 1
  /\ UNCHANGED <<startLeaf, used, usedNum, freed>>

\* getLeaf pops p off the stack pool, which the catalog says has num leaves.
TakeTop(pool, num, p) ==
  /\ p = pool[Len(pool)]
  /\ freeList' = SubSeq(pool, 1, Len(pool) - 1)
  /\ freeNum' = num - 1
  /\ used' = used \cup {p}
  /\ usedNum' = [usedNum EXCEPT ![p[1]] = @ + 1]
  /\ startLeaf' = IF startLeaf = NoLeaf THEN p ELSE startLeaf

\* Mutant of GetLeafFromList.
GetLeafFromNonemptyList(p) ==
  /\ freeList # <<>>
  /\ TakeTop(freeList, freeNum, p)
  /\ UNCHANGED <<maxFileId, freed>>

\* A leaf is counted free, or a group is made first (getLeaf's two paths).
GetLeafFromList(p) ==
  /\ freeNum > 0
  /\ TakeTop(freeList, freeNum, p)
  /\ UNCHANGED <<maxFileId, freed>>

GetLeafFromNewGroup(p) ==
  /\ freeNum = 0
  /\ maxFileId \in Files
  /\ TakeTop(freeList \o GroupLeaves(maxFileId), GroupSize, p)
  /\ maxFileId' = maxFileId + 1
  /\ UNCHANGED freed

GetLeaf(p) == GetLeafFromList(p) \/ GetLeafFromNewGroup(p)

\* getLeaf returns false: no leaf is counted free and no group can be made.
GetLeafFails == freeNum = 0 /\ maxFileId \notin Files

\* freeLeaf on a used leaf; on any other pointer it returns false and changes
\* nothing.  catalog.modify(&catalog->freeNum, catalog->freeNum++) stores the
\* value from before the increment, and usedNum is not touched.
ReleaseLeaf(p) ==
  /\ freed < MaxFrees
  /\ p \in used
  /\ used' = used \ {p}
  /\ freeList' = Append(freeList, p)
  /\ freed' = freed + 1
  /\ UNCHANGED <<maxFileId, freeNum, usedNum>>

FreeLeaf(p) == ReleaseLeaf(p) /\ UNCHANGED startLeaf

SetStartPointer(p) ==
  /\ startLeaf' = p
  /\ UNCHANGED <<maxFileId, freeNum, freeList, used, usedNum, freed>>

\* ~PAllocator, then PAllocator() in this or a later process: the catalog and
\* the groups are mapped again and the stack is as high as the catalog says.
RestartAllocator ==
  /\ freeList' = SubSeq(freeList, 1, freeNum)
  /\ UNCHANGED <<maxFileId, freeNum, startLeaf, used, usedNum, freed>>

AllocNext ==
  \/ NewLeafGroup
  \/ \E p \in Leaves : GetLeafFromList(p)
  \/ \E p \in Leaves : GetLeafFromNewGroup(p)
  \/ \E p \in Leaves : FreeLeaf(p)
  \/ \E p \in used \cup {NoLeaf} : SetStartPointer(p)
  \/ RestartAllocator

AllocSpec == AllocInit /\ [][AllocNext]_allocVars
-----------------------------------------------------------------------------
\* The types of the allocator's state.
AllocTypeOK ==
  /\ maxFileId \in 1 .. (MaxFiles + 1)
  /\ freeNum \in Nat
  /\ startLeaf \in Leaves \cup {NoLeaf}
  /\ freeList \in Seq(Leaves)
  /\ used \in SUBSET Leaves
  /\ usedNum \in [Files -> Nat]
  /\ freed \in 0 .. MaxFrees

\* The stack holds every leaf at most once, and none that is in use: whatever
\* getLeaf pops, across restarts and with a catalog that has lost count, no
\* two owners are ever given one leaf.
FreeListSound ==
  /\ used \subseteq Existing
  /\ \A i \in 1 .. Len(freeList) : freeList[i] \in Existing \ used
  /\ \A i, j \in 1 .. Len(freeList) : freeList[i] = freeList[j] => i = j

\* getLeaf tests freeNum and pops the stack: the catalog never promises more
\* leaves than the stack holds, so a pop, or the stack a restart maps, never
\* reads below or beyond the entries that were pushed.
FreeNumCovered == freeNum <= Len(freeList)

\* Each freeLeaf loses exactly one leaf from the catalog's count, for good:
\* neither later calls nor restarts recover one or lose another.
OneLeafLostPerFree ==
  freeNum + Cardinality(used) + freed = GroupSize * (maxFileId - 1)

\* "free and reuse a leaf" (p_allocator.cpp:110): a leaf that freeLeaf freed
\* is one the catalog counts again.
FreedLeavesReusable == freeNum = Cardinality(Existing \ used)
=============================================================================
