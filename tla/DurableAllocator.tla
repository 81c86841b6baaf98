-------------------------- MODULE DurableAllocator --------------------------
(***************************************************************************)
(* The leaf allocator store by store, as src/p_allocator.cpp orders its    *)
(* stores and flushes, with a crash between any two of them.               *)
(*                                                                         *)
(* The cells of the free stack, the bytes that mark a leaf used and the    *)
(* counts of a group are flushed with every store, so one variable each    *)
(* is what the process sees and what a crash leaves.  The catalog is       *)
(* stored to first and flushed later: catalog is what the process sees and *)
(* onDisk what persistent memory holds.  Its 32 bytes begin a page, so     *)
(* they are one cache line: they reach persistent memory together, in the  *)
(* order of the stores, at a flush of any of them or earlier (Evict).      *)
(***************************************************************************)
EXTENDS Naturals, Sequences, FiniteSets

CONSTANTS
  GroupSize,  \* LEAF_GROUP_AMOUNT, the leaves of a group file
  MaxFiles,   \* the number of group files the file system has room for
  MaxFrees,   \* bound on the freeLeaf calls of a behaviour
  MaxCrashes  \* bound on the crashes of a behaviour

ASSUME DurableAssumption ==
  /\ GroupSize \in Nat \ {0}
  /\ MaxFiles \in Nat
  /\ MaxFrees \in Nat
  /\ MaxCrashes \in Nat

VARIABLES
  catalog,  \* the catalog's fields, as the process sees them
  onDisk,   \* the catalog's fields in persistent memory
  cells,    \* the cells of the free_list file that were ever written
  sz,       \* pmem_stack::sz, volatile: the cells below the top of the stack
  mapped,   \* the files in fId2PmAddr, volatile
  used,     \* the leaves whose byte in their group's bitmap is 1
  usedNum,  \* group headers: leaves in use, as each group counts them
  pc,       \* the next store or flush of the call in progress, or "idle"
  arg,      \* the leaf the call has in hand
  owned,    \* history: leaves returned by getLeaf that no one has given up
  freed,    \* history: freeLeaf calls so far
  crashes,  \* history: crashes so far
  torn      \* history: a crash kept the first and lost the second of
            \* newLeafGroup's two counts, or came before the first flush of all

durableVars == <<catalog, onDisk, cells, sz, mapped, used, usedNum, pc, arg,
                 owned, freed, crashes, torn>>
stackVars   == <<cells, sz>>
groupVars   == <<mapped, used, usedNum>>
historyVars == <<owned, freed, crashes, torn>>

\* File 0 is made only if the catalog was never initialised: its id is
\* ILLEGAL_FILE_ID, and a pointer into it counts as null.
Files     == 0 .. MaxFiles
Leaves    == Files \X (1 .. GroupSize)
NoLeaf    == <<0, 0>>
IsNull(p) == p[1] = 0

\* The files a catalog names, and their leaves.
NamedShort(c) == {f \in Files : 1 <= f /\ f + 1 < c.maxFileId}   \* a mutant of Named
Named(c) == {f \in Files : 1 <= f /\ f < c.maxFileId}
Existing(c) == Named(c) \X (1 .. GroupSize)

\* The catalog's files have just been created, filled with zeros, by the first
\* constructor.
DurableInit ==
  /\ catalog = [maxFileId |-> 0, freeNum |-> 0, startLeaf |-> NoLeaf]
  /\ onDisk = catalog
  /\ cells = <<>> /\ sz = 0
  /\ mapped = {} /\ used = {} /\ usedNum = [f \in Files |-> 0]
  /\ pc = "create" /\ arg = NoLeaf
  /\ owned = {} /\ freed = 0 /\ crashes = 0 /\ torn = FALSE

\* The step at from is taken, and to is next.
Step(from, to) == pc = from /\ pc' = to

\* Fields of the catalog are stored, and not yet flushed.
Store(c) == catalog' = c /\ UNCHANGED onDisk

\* pmem_stack::push: the cell above the top is stored and flushed.
Push(p) ==
  /\ cells' = IF sz < Len(cells) THEN [cells EXCEPT ![sz + 1] = p]
              ELSE Append(cells, p)
  /\ sz' = sz + 1
-----------------------------------------------------------------------------
\* Mutants of the steps below.

PushGroupLeafBeyond ==
  /\ Step("push", IF arg[2] > GroupSize THEN "count" ELSE "push")
  /\ Push(arg)
  /\ arg' = <<arg[1], arg[2] + 1>>
  /\ UNCHANGED <<catalog, onDisk, groupVars, historyVars>>

BeginGroupCounted ==
  /\ Step("idle", "push")
  /\ catalog.maxFileId \in Files
  /\ arg' = <<catalog.maxFileId, 1>>
  /\ Store([catalog EXCEPT !.freeNum = @ + GroupSize])
  /\ UNCHANGED <<stackVars, groupVars, historyVars>>

CountOneOfGroup ==
  /\ Step("count", "name")
  /\ mapped' = mapped \cup {catalog.maxFileId}
  /\ Store([catalog EXCEPT !.freeNum = @ + 1])
  /\ UNCHANGED <<stackVars, used, usedNum, arg, historyVars>>

CountUsedLost ==
  /\ Step("countUsed", "mark")
  /\ UNCHANGED <<catalog, onDisk, stackVars, groupVars, arg, historyVars>>

ReturnUnflushed ==
  /\ Step("return", "idle")
  /\ owned' = owned \cup {arg}
  /\ UNCHANGED <<catalog, onDisk, stackVars, groupVars, arg, freed, crashes, torn>>
-----------------------------------------------------------------------------
\* PAllocator() with no files: it stores to the fields, and flushes.
InitCatalog ==
  /\ Step("create", "flushNew")
  /\ Store([catalog EXCEPT !.maxFileId = 1])
  /\ UNCHANGED <<stackVars, groupVars, arg, historyVars>>

\* newLeafGroup, which only getLeaf calls, on the file it makes.
BeginGroup ==
  /\ Step("idle", "push")
  /\ catalog.maxFileId \in Files
  /\ arg' = <<catalog.maxFileId, 1>>
  /\ UNCHANGED <<catalog, onDisk, stackVars, groupVars, historyVars>>

PushGroupLeaf ==
  /\ Step("push", IF arg[2] = GroupSize THEN "count" ELSE "push")
  /\ Push(arg)
  /\ arg' = <<arg[1], arg[2] + 1>>
  /\ UNCHANGED <<catalog, onDisk, groupVars, historyVars>>

CountGroup ==
  /\ Step("count", "name")
  /\ mapped' = mapped \cup {catalog.maxFileId}
  /\ Store([catalog EXCEPT !.freeNum = @ + GroupSize])
  /\ UNCHANGED <<stackVars, used, usedNum, arg, historyVars>>

NameGroup ==
  /\ Step("name", "flushGroup")
  /\ Store([catalog EXCEPT !.maxFileId = @ + 1])
  /\ UNCHANGED <<stackVars, groupVars, arg, historyVars>>

\* getLeaf: a leaf is counted free, or a group is made first; it returns false
\* when no file can be made.
CallGetLeaf ==
  \/ /\ catalog.freeNum > 0
     /\ Step("idle", "pop")
     /\ UNCHANGED <<catalog, onDisk, stackVars, groupVars, arg, historyVars>>
  \/ catalog.freeNum = 0 /\ BeginGroup

\* The leaf popped is in a file that is mapped, or the next store is to a null
\* address and the process dies.
Pop ==
  /\ Step("pop", "countUsed")
  /\ cells[sz][1] \in mapped
  /\ arg' = cells[sz]
  /\ sz' = sz - 1
  /\ Store([catalog EXCEPT !.freeNum = @ - 1])
  /\ UNCHANGED <<cells, groupVars, historyVars>>

CountUsed ==
  /\ Step("countUsed", "mark")
  /\ usedNum' = [usedNum EXCEPT ![arg[1]] = @ + 1]
  /\ UNCHANGED <<catalog, onDisk, stackVars, mapped, used, arg, historyVars>>

MarkUsed ==
  /\ Step("mark", "start")
  /\ used' = used \cup {arg}
  /\ UNCHANGED <<catalog, onDisk, stackVars, mapped, usedNum, arg, historyVars>>

SetStart ==
  /\ \/ ~IsNull(catalog.startLeaf) /\ Step("start", "return") /\ UNCHANGED catalog
     \/ /\ IsNull(catalog.startLeaf) /\ Step("start", "flushStart")
        /\ catalog' = [catalog EXCEPT !.startLeaf = arg]
  /\ UNCHANGED <<onDisk, stackVars, groupVars, arg, historyVars>>

\* The last flush of getLeaf, and its return: the leaf belongs to the caller.
ReturnLeaf ==
  /\ Step("return", "idle")
  /\ onDisk' = catalog
  /\ owned' = owned \cup {arg}
  /\ UNCHANGED <<catalog, stackVars, groupVars, arg, freed, crashes, torn>>

\* freeLeaf of a leaf of the tree, which has been taken off the chain before:
\* it is not the first leaf any more.
CallFreeLeaf(p) ==
  /\ Step("idle", "unmark")
  /\ p \in owned \cap used /\ p[1] \in mapped /\ p # catalog.startLeaf
  /\ freed < MaxFrees
  /\ arg' = p /\ owned' = owned \ {p} /\ freed' = freed + 1
  /\ UNCHANGED <<catalog, onDisk, stackVars, groupVars, crashes, torn>>

MarkFree ==
  /\ Step("unmark", "pushFreed")
  /\ used' = used \ {arg}
  /\ UNCHANGED <<catalog, onDisk, stackVars, mapped, usedNum, arg, historyVars>>

PushFreed ==
  /\ Step("pushFreed", "countFreed")
  /\ Push(arg)
  /\ UNCHANGED <<catalog, onDisk, groupVars, arg, historyVars>>

\* freeNum++, an argument of modify, raises the count, and modify stores the
\* value it had before.
CountFreed ==
  /\ Step("countFreed", "restoreCount")
  /\ Store([catalog EXCEPT !.freeNum = @ + 1])
  /\ UNCHANGED <<stackVars, groupVars, arg, historyVars>>

RestoreCount ==
  /\ Step("restoreCount", "flushFreed")
  /\ Store([catalog EXCEPT !.freeNum = @ - 1])
  /\ UNCHANGED <<stackVars, groupVars, arg, historyVars>>

\* setStartPointer, to a leaf of the tree or to null.
CallSetStart(p) ==
  /\ Step("idle", "flushSet")
  /\ Store([catalog EXCEPT !.startLeaf = p])
  /\ UNCHANGED <<stackVars, groupVars, arg, historyVars>>

\* The flush of a field takes the whole line of the catalog along.
FlushCatalog ==
  /\ \/ \E at \in {"flushNew", "flushFreed", "flushSet"} : Step(at, "idle")
     \/ Step("flushGroup", "pop")
     \/ Step("flushStart", "return")
  /\ onDisk' = catalog
  /\ UNCHANGED <<catalog, stackVars, groupVars, arg, historyVars>>

\* The line reaches persistent memory before it is flushed.
Evict ==
  /\ onDisk # catalog
  /\ onDisk' = catalog
  /\ UNCHANGED <<catalog, stackVars, groupVars, pc, arg, historyVars>>

\* PAllocator() on files that exist: the stack is as high as the catalog says;
\* what the cells above it hold is never read again.  The tree that is opened
\* next has the leaf the catalog starts it with, whoever had it before.
Recover ==
  /\ catalog' = onDisk
  /\ sz' = onDisk.freeNum
  /\ cells' = SubSeq(cells, 1, onDisk.freeNum)
  /\ mapped' = Named(onDisk)
  /\ pc' = "idle" /\ arg' = NoLeaf
  /\ owned' = owned \cup {p \in {onDisk.startLeaf} : ~IsNull(p)}
  /\ UNCHANGED <<onDisk, used, usedNum, freed>>

\* The process ends between two calls, or inside one, and another starts.
Restart == pc = "idle" /\ Recover /\ UNCHANGED <<crashes, torn>>

Crash ==
  /\ pc # "idle" /\ crashes < MaxCrashes
  /\ Recover
  /\ crashes' = crashes + 1
  /\ torn' = \/ torn
             \/ onDisk.maxFileId = 0
             \/ pc = "name" /\ onDisk = catalog
             \/ /\ pc = "flushGroup" /\ onDisk.freeNum = catalog.freeNum
                /\ onDisk.maxFileId < catalog.maxFileId

DurableNext ==
  \/ InitCatalog \/ CallGetLeaf
  \/ PushGroupLeaf \/ CountGroup \/ NameGroup
  \/ Pop \/ CountUsed \/ MarkUsed \/ SetStart \/ ReturnLeaf
  \/ \E p \in owned : CallFreeLeaf(p)
  \/ MarkFree \/ PushFreed \/ CountFreed \/ RestoreCount
  \/ \E p \in owned \cup {NoLeaf} : CallSetStart(p)
  \/ FlushCatalog \/ Evict \/ Restart \/ Crash

DurableSpec == DurableInit /\ [][DurableNext]_durableVars
-----------------------------------------------------------------------------
Catalogs == [maxFileId : 0 .. (MaxFiles + 1), freeNum : Nat,
             startLeaf : Leaves \cup {NoLeaf}]
Points   == {"create", "flushNew", "idle", "push", "count", "name", "flushGroup",
             "pop", "countUsed", "mark", "start", "flushStart", "return",
             "unmark", "pushFreed", "countFreed", "restoreCount", "flushFreed",
             "flushSet"}

\* The types of the state.
DurableTypeOK ==
  /\ catalog \in Catalogs /\ onDisk \in Catalogs
  /\ cells \in Seq(Leaves) /\ sz \in 0 .. Len(cells)
  /\ mapped \in SUBSET Files
  /\ used \in SUBSET Leaves /\ usedNum \in [Files -> Nat]
  /\ pc \in Points
  /\ arg \in Files \X (0 .. (GroupSize + 1))
  /\ owned \in SUBSET Leaves /\ freed \in 0 .. MaxFrees
  /\ crashes \in 0 .. MaxCrashes /\ torn \in BOOLEAN

\* The leaves on the stack, and those a process that starts now would find there.
OnStack == {cells[i] : i \in 1 .. sz}
Offered == {cells[i] : i \in 1 .. onDisk.freeNum}

Distinct(n) == \A i, j \in 1 .. n : cells[i] = cells[j] => i = j

\* Neither the process nor, after a crash at any point, the next one counts more
\* free leaves than the stack has cells for: pushes are flushed before the
\* count is stored, and the count is lowered before the cell is used again.
CountCovered == catalog.freeNum <= sz /\ onDisk.freeNum <= Len(cells)

\* A leaf that getLeaf returned is nowhere on the stack until it is given up,
\* neither for this process nor for one that starts after a crash at any point,
\* the leaf the durable catalog starts the tree with is not on that process's
\* stack though getLeaf sets it before it flushes the count, and the stack names
\* no leaf twice: no leaf gets two owners, as long as no crash has torn the catalog
\* in either way (newLeafGroup's two counts, or before the first flush of all).
OwnedNeverOffered ==
  ~torn => /\ owned \cap (OnStack \cup Offered) = {}
           /\ onDisk.startLeaf \notin Offered
           /\ Distinct(sz) /\ Distinct(onDisk.freeNum)

\* A group counts at least its leaves in use, at every point of getLeaf and
\* whatever crashes, since it is counted before it is marked.
UsedNumCovers ==
  \A f \in Files : Cardinality({p \in used : p[1] = f}) <= usedNum[f]

\* A crash loses at most one leaf, the one the call in progress had in hand, as
\* each freeLeaf does: every other leaf is owned or free after it, as long as no
\* crash has torn the catalog in either way.
LeaksBounded ==
  ~torn /\ pc = "idle" =>
    Cardinality(Existing(onDisk) \ (owned \cup Offered)) <= freed + crashes

\* The leaf getLeaf pops is in a file that is mapped, whatever crashes and is
\* recovered from, or a crash has torn the catalog before and the leaf is one of
\* two files: 0, which is made on a catalog that was never flushed and which no
\* later process maps, or the next file to be made, of which newLeafGroup's first
\* count was kept and the second lost.  The loss never spreads to a third.
PopsMapped ==
  pc = "pop" => \/ cells[sz][1] \in mapped
                \/ torn /\ cells[sz][1] \in {0, catalog.maxFileId}
=============================================================================
