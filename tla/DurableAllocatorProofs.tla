------------------------ MODULE DurableAllocatorProofs ------------------------
(***************************************************************************)
(* Theorems about the allocator store by store, for groups and file        *)
(* systems of any size and any number of calls, evictions and crashes.     *)
(***************************************************************************)
EXTENDS AllocatorSteps, SequenceTheorems, FiniteSetTheorems, TLAPS

\* getLeaf has a leaf in hand that it has popped and not returned.
InHand == pc \in {"countUsed", "mark", "start", "flushStart", "return"}

\* freeLeaf has a leaf in hand that it has not pushed.
Leaving == pc \in {"unmark", "pushFreed"}

\* What the points of a call rely on.
PhaseInv ==
  /\ pc \in {"push", "count", "name"} =>
       catalog.maxFileId \in Files /\ arg[1] = catalog.maxFileId
  /\ pc = "push" => /\ arg[2] \in 1 .. GroupSize /\ arg[2] - 1 <= sz
                    /\ catalog.freeNum = 0
  /\ pc = "count" => catalog.freeNum = 0 /\ GroupSize <= sz
  /\ pc \in {"name", "flushGroup", "pop"} => catalog.freeNum > 0
  /\ InHand \/ Leaving => arg \in Leaves
  /\ InHand => sz < Len(cells) /\ cells[sz + 1] = arg
  /\ pc \in {"countFreed", "flushFreed"} => catalog.freeNum < sz
  /\ pc = "restoreCount" => catalog.freeNum > 0

\* How far persistent memory is behind the catalog.
DiskInv ==
  /\ pc \in {"idle", "push", "count", "pop", "unmark", "pushFreed", "countFreed"} =>
       onDisk = catalog
  /\ onDisk.maxFileId <= catalog.maxFileId
  /\ pc \notin {"create", "flushNew", "flushGroup"} =>
       onDisk.maxFileId = catalog.maxFileId
  /\ onDisk.freeNum <= IF InHand \/ pc = "flushFreed" THEN catalog.freeNum + 1
                       ELSE catalog.freeNum
  /\ pc = "create" => catalog.maxFileId = 0
  /\ pc \in {"create", "flushNew"} => catalog.freeNum = 0
  /\ pc = "name" => onDisk = catalog \/ onDisk.freeNum = 0
  /\ pc = "flushGroup" =>
       \/ onDisk = catalog \/ onDisk.freeNum = 0
       \/ onDisk.freeNum = catalog.freeNum /\ onDisk.maxFileId < catalog.maxFileId

CoverInv == DurableTypeOK /\ PhaseInv /\ DiskInv /\ CountCovered

\* p is in a file the catalog names, or in the part of the next file that
\* newLeafGroup has pushed so far.
Known(p) ==
  \/ p[1] < catalog.maxFileId
  \/ pc = "push" /\ p[1] = catalog.maxFileId /\ p[2] < arg[2]
  \/ pc \in {"count", "name"} /\ p[1] = catalog.maxFileId

\* The leaves of the tree are in files that a crash does not lose.
Kept(p) == p[1] < onDisk.maxFileId \/ p = NoLeaf

\* Where each leaf may be, as long as no crash has torn the catalog.
PlaceInv ==
  /\ Distinct(sz)
  /\ \A i \in 1 .. sz : /\ cells[i] \notin owned
                        /\ cells[i] # catalog.startLeaf /\ cells[i] # onDisk.startLeaf
                        /\ Known(cells[i])
  /\ \A p \in owned : Kept(p)
  /\ Kept(catalog.startLeaf) /\ Kept(onDisk.startLeaf)
  /\ InHand \/ Leaving =>
       /\ \A i \in 1 .. sz : cells[i] # arg
       /\ arg \notin owned /\ arg[1] < catalog.maxFileId
  /\ InHand /\ onDisk.freeNum > catalog.freeNum => arg # onDisk.startLeaf
  /\ Leaving => arg # catalog.startLeaf

CrashInv == CoverInv /\ (~torn => PlaceInv)
-----------------------------------------------------------------------------
\* The fields of the state, with their types.
LEMMA Fields ==
  ASSUME DurableTypeOK
  PROVE  /\ catalog.maxFileId \in 0 .. MaxFiles + 1 /\ onDisk.maxFileId \in 0 .. MaxFiles + 1
         /\ catalog.freeNum \in Nat /\ onDisk.freeNum \in Nat
         /\ catalog.startLeaf \in Leaves \cup {NoLeaf}
         /\ onDisk.startLeaf \in Leaves \cup {NoLeaf}
         /\ cells \in Seq(Leaves) /\ Len(cells) \in Nat
         /\ \A i \in 1 .. Len(cells) : cells[i] \in Leaves
         /\ sz \in Nat /\ sz <= Len(cells)
         /\ MaxFiles \in Nat /\ GroupSize \in Nat \ {0}
         /\ owned \subseteq Leaves
<1>1. MaxFiles \in Nat /\ GroupSize \in Nat \ {0}
  BY DurableAssumption DEF DurableAssumption
<1>2. catalog \in Catalogs /\ onDisk \in Catalogs /\ cells \in Seq(Leaves)
  BY DEF DurableTypeOK
<1>3. Len(cells) \in Nat /\ \A i \in 1 .. Len(cells) : cells[i] \in Leaves
  BY <1>2
<1> QED BY <1>1, <1>2, <1>3 DEF DurableTypeOK, Catalogs

\* A store to one field of a catalog leaves the others.
LEMMA StoreEffect ==
  ASSUME NEW c \in Catalogs
  PROVE  /\ \A m \in 0 .. (MaxFiles + 1) :
              LET d == [c EXCEPT !.maxFileId = m]
              IN  /\ d \in Catalogs /\ d.maxFileId = m
                  /\ d.freeNum = c.freeNum /\ d.startLeaf = c.startLeaf
         /\ \A n \in Nat :
              LET d == [c EXCEPT !.freeNum = n]
              IN  /\ d \in Catalogs /\ d.maxFileId = c.maxFileId
                  /\ d.freeNum = n /\ d.startLeaf = c.startLeaf
         /\ \A p \in Leaves \cup {NoLeaf} :
              LET d == [c EXCEPT !.startLeaf = p]
              IN  /\ d \in Catalogs /\ d.maxFileId = c.maxFileId
                  /\ d.freeNum = c.freeNum /\ d.startLeaf = p
BY DEF Catalogs

\* freeNum++ and modify leave the count what it was, with one more between them.
LEMMA RecountEffect ==
  ASSUME CoverInv, CountFreed \/ RestoreCount
  PROVE  /\ catalog'.maxFileId = catalog.maxFileId /\ catalog'.startLeaf = catalog.startLeaf
         /\ CountFreed => /\ pc = "countFreed" /\ pc' = "restoreCount"
                          /\ catalog'.freeNum = catalog.freeNum + 1
         /\ RestoreCount => /\ pc = "restoreCount" /\ pc' = "flushFreed"
                            /\ catalog'.freeNum = catalog.freeNum - 1
         /\ CountFreed \/ catalog.freeNum > 0
         /\ UNCHANGED <<onDisk, cells, sz, mapped, used, usedNum, arg, owned, freed,
                        crashes, torn>>
<1>1. catalog \in Catalogs /\ catalog.freeNum \in Nat /\ PhaseInv
  BY Fields DEF CoverInv, DurableTypeOK
<1>2. CASE CountFreed
  <2>1. catalog.freeNum + 1 \in Nat
    BY <1>1
  <2>2. catalog' = [catalog EXCEPT !.freeNum = catalog.freeNum + 1]
    BY <1>2 DEF CountFreed, Store
  <2>3. pc = "countFreed" /\ pc' = "restoreCount"
    BY <1>2 DEF CountFreed, Step
  <2> QED BY <1>1, <1>2, <2>1, <2>2, <2>3, StoreEffect
          DEF CountFreed, RestoreCount, Step, Store, stackVars, groupVars, historyVars
<1>3. CASE RestoreCount
  <2>1. pc = "restoreCount" /\ pc' = "flushFreed"
    BY <1>3 DEF RestoreCount, Step
  <2>2. catalog.freeNum > 0 /\ catalog.freeNum - 1 \in Nat
    BY <1>1, <2>1 DEF PhaseInv
  <2>3. catalog' = [catalog EXCEPT !.freeNum = catalog.freeNum - 1]
    BY <1>3 DEF RestoreCount, Store
  <2> QED BY <1>1, <1>3, <2>1, <2>2, <2>3, StoreEffect
          DEF CountFreed, RestoreCount, Step, Store, stackVars, groupVars, historyVars
<1> QED BY <1>2, <1>3

\* What a pointer to a leaf is made of.
LEMMA LeafParts ==
  /\ NoLeaf \notin Leaves
  /\ \A p \in Leaves : /\ p[1] \in Files /\ p[2] \in 1 .. GroupSize
                       /\ p \in Files \X (0 .. GroupSize + 1)
  /\ \A f \in Files, n \in 1 .. GroupSize : <<f, n>> \in Leaves
BY DurableAssumption DEF DurableAssumption, NoLeaf, Leaves, Files

\* push puts p above the entries there are, which stay.
LEMMA PushEffect ==
  ASSUME DurableTypeOK, NEW p \in Leaves, Push(p)
  PROVE  /\ cells' \in Seq(Leaves) /\ sz' = sz + 1 /\ sz' \in 0 .. Len(cells')
         /\ Len(cells) <= Len(cells')
         /\ cells'[sz + 1] = p /\ \A i \in 1 .. sz : cells'[i] = cells[i]
<1>1. cells \in Seq(Leaves) /\ Len(cells) \in Nat /\ sz \in Nat /\ sz <= Len(cells)
  BY Fields
<1>2. CASE sz < Len(cells)
  <2>1. cells' = [cells EXCEPT ![sz + 1] = p] /\ sz' = sz + 1
    BY <1>2 DEF Push
  <2>2. cells' \in Seq(Leaves) /\ Len(cells') = Len(cells)
    BY <1>1, <1>2, <2>1
  <2>3. cells'[sz + 1] = p /\ \A i \in 1 .. sz : cells'[i] = cells[i]
    BY <1>1, <1>2, <2>1
  <2> QED BY <1>1, <1>2, <2>1, <2>2, <2>3
<1>3. CASE ~(sz < Len(cells))
  <2>1. cells' = Append(cells, p) /\ sz' = sz + 1 /\ sz = Len(cells)
    BY <1>1, <1>3 DEF Push
  <2>2. cells' \in Seq(Leaves) /\ Len(cells') = Len(cells) + 1
    BY <1>1, <2>1, AppendProperties
  <2>3. cells'[sz + 1] = p /\ \A i \in 1 .. sz : cells'[i] = cells[i]
    BY <1>1, <2>1, AppendProperties
  <2> QED BY <1>1, <2>1, <2>2, <2>3
<1> QED BY <1>2, <1>3

\* The constructor finds as many of the cells as the catalog counts.
LEMMA RecoverEffect ==
  ASSUME CoverInv, Recover
  PROVE  /\ cells' \in Seq(Leaves) /\ Len(cells') = onDisk.freeNum
         /\ \A i \in 1 .. onDisk.freeNum : cells'[i] = cells[i]
<1>1. /\ cells \in Seq(Leaves) /\ onDisk.freeNum \in Nat /\ Len(cells) \in Nat
      /\ onDisk.freeNum <= Len(cells) /\ \A i \in 1 .. Len(cells) : cells[i] \in Leaves
  BY Fields DEF CoverInv, CountCovered
<1>2. cells' = SubSeq(cells, 1, onDisk.freeNum)
  BY DEF Recover
<1> DEFINE k == onDisk.freeNum
<1>3. k \in Nat /\ k <= Len(cells) /\ \A i \in 1 .. k : cells[i] \in Leaves
  BY <1>1
<1>4. /\ SubSeq(cells, 1, k) \in Seq(Leaves)
      /\ Len(SubSeq(cells, 1, k)) = IF 1 <= k THEN k - 1 + 1 ELSE 0
      /\ \A i \in 1 .. (k - 1 + 1) : SubSeq(cells, 1, k)[i] = cells[1 + i - 1]
  BY <1>1, <1>3, SubSeqProperties
<1> HIDE DEF k
<1>5. /\ k - 1 + 1 = k /\ (IF 1 <= k THEN k - 1 + 1 ELSE 0) = k
      /\ \A i \in 1 .. k : 1 + i - 1 = i
  BY <1>3
<1> QED BY <1>2, <1>4, <1>5 DEF k
-----------------------------------------------------------------------------
\* Files of zeros satisfy all of it.
LEMMA InitCrash == DurableInit => CrashInv
<1> SUFFICES ASSUME DurableInit PROVE CrashInv
  OBVIOUS
<1>1. /\ MaxFiles \in Nat /\ GroupSize \in Nat \ {0}
      /\ MaxFrees \in Nat /\ MaxCrashes \in Nat
  BY DurableAssumption DEF DurableAssumption
<1>2. 0 \in Files /\ NoLeaf \in Files \X (0 .. (GroupSize + 1))
  BY <1>1 DEF Files, NoLeaf
<1>3. catalog \in Catalogs /\ onDisk = catalog
  BY <1>1 DEF DurableInit, Catalogs
<1>4. cells \in Seq(Leaves) /\ Len(cells) = 0 /\ sz = 0
  BY EmptySeq DEF DurableInit
<1>5. DurableTypeOK
  <2>1. sz \in 0 .. Len(cells) /\ freed \in 0 .. MaxFrees /\ crashes \in 0 .. MaxCrashes
    BY <1>1, <1>4 DEF DurableInit
  <2>2. usedNum \in [Files -> Nat]
    BY DEF DurableInit
  <2>3. /\ mapped \in SUBSET Files /\ used \in SUBSET Leaves /\ owned \in SUBSET Leaves
        /\ torn \in BOOLEAN /\ pc \in Points
    BY Zenon DEF DurableInit, Points
  <2>4. arg \in Files \X (0 .. (GroupSize + 1)) /\ onDisk \in Catalogs
    BY <1>2, <1>3 DEF DurableInit
  <2> QED BY <1>3, <1>4, <2>1, <2>2, <2>3, <2>4, Zenon DEF DurableTypeOK
<1>6. /\ catalog.maxFileId = 0 /\ catalog.freeNum = 0 /\ catalog.startLeaf = NoLeaf
      /\ pc = "create" /\ owned = {}
  BY DEF DurableInit
<1>7. CoverInv
  BY <1>3, <1>4, <1>5, <1>6 DEF CoverInv, PhaseInv, DiskInv, CountCovered, InHand, Leaving
<1>8. PlaceInv
  BY <1>3, <1>4, <1>6 DEF PlaceInv, Distinct, InHand, Leaving, Kept
<1> QED BY <1>7, <1>8 DEF CrashInv

\* Every step keeps the types, given what the point it starts from relies on.
LEMMA TypeStep == CoverInv /\ [DurableNext]_durableVars => DurableTypeOK'
<1> SUFFICES ASSUME CoverInv, [DurableNext]_durableVars PROVE DurableTypeOK'
  OBVIOUS
<1> USE DEF Step, Store, stackVars, groupVars, historyVars
<1>0. /\ DurableTypeOK /\ PhaseInv /\ CountCovered
      /\ MaxFiles \in Nat /\ GroupSize \in Nat \ {0}
  BY Fields DEF CoverInv
<1>1. CASE InitCatalog
  <2>1. catalog' \in Catalogs
    <3>1. 1 \in 0 .. (MaxFiles + 1)
      BY <1>0
    <3> QED BY <1>0, <1>1, <3>1, StoreEffect DEF InitCatalog, DurableTypeOK
  <2> QED BY <1>0, <1>1, <2>1 DEF InitCatalog, DurableTypeOK, Points
<1>2. CASE CallGetLeaf
  <2>1. arg' \in Files \X (0 .. (GroupSize + 1))
    BY <1>0, <1>2 DEF CallGetLeaf, BeginGroup, DurableTypeOK
  <2> QED BY <1>0, <1>2, <2>1 DEF CallGetLeaf, BeginGroup, DurableTypeOK, Points
<1>3. CASE PushGroupLeaf
  <2>1. pc = "push" /\ arg[1] \in Files /\ arg[2] \in 1 .. GroupSize
    BY <1>0, <1>3 DEF PushGroupLeaf, PhaseInv
  <2>2. arg = <<arg[1], arg[2]>>
    BY <1>0 DEF DurableTypeOK
  <2>3. arg \in Leaves
    BY <2>1, <2>2, LeafParts
  <2>4. cells' \in Seq(Leaves) /\ sz' \in 0 .. Len(cells')
    BY <1>0, <1>3, <2>3, PushEffect DEF PushGroupLeaf
  <2>5. arg' \in Files \X (0 .. (GroupSize + 1))
    BY <1>0, <1>3, <2>1 DEF PushGroupLeaf
  <2> QED BY <1>0, <1>3, <2>4, <2>5 DEF PushGroupLeaf, DurableTypeOK, Points
<1>4. CASE CountGroup
  <2>1. catalog' \in Catalogs /\ catalog.maxFileId \in Files
    <3>1. catalog.freeNum + GroupSize \in Nat
      BY <1>0, Fields
    <3> QED BY <1>0, <1>4, <3>1, StoreEffect DEF CountGroup, DurableTypeOK, PhaseInv
  <2> QED BY <1>0, <1>4, <2>1 DEF CountGroup, DurableTypeOK, Points
<1>5. CASE NameGroup
  <2>1. catalog' \in Catalogs
    <3>1. catalog.maxFileId + 1 \in 0 .. (MaxFiles + 1)
      BY <1>0, <1>5 DEF NameGroup, PhaseInv, Files
    <3> QED BY <1>0, <1>5, <3>1, StoreEffect DEF NameGroup, DurableTypeOK
  <2> QED BY <1>0, <1>5, <2>1 DEF NameGroup, DurableTypeOK, Points
<1>6. CASE Pop
  <2>1. catalog.freeNum \in Nat \ {0} /\ catalog.freeNum <= sz
    BY <1>0, <1>6, Fields DEF Pop, PhaseInv, CountCovered
  <2>2. sz \in 1 .. Len(cells) /\ cells[sz] \in Leaves
    BY <1>0, <2>1, Fields
  <2>3. catalog' \in Catalogs
    <3>1. catalog.freeNum - 1 \in Nat
      BY <2>1
    <3> QED BY <1>0, <1>6, <3>1, StoreEffect DEF Pop, DurableTypeOK
  <2>4. sz' \in 0 .. Len(cells') /\ arg' \in Files \X (0 .. (GroupSize + 1))
    BY <1>0, <1>6, <2>2, LeafParts DEF Pop
  <2> QED BY <1>0, <1>6, <2>3, <2>4 DEF Pop, DurableTypeOK, Points
<1>7. CASE CountUsed
  <2>1. usedNum' \in [Files -> Nat]
    BY <1>0, <1>7 DEF CountUsed, DurableTypeOK
  <2> QED BY <1>0, <1>7, <2>1 DEF CountUsed, DurableTypeOK, Points
<1>8. CASE MarkUsed
  <2>1. arg \in Leaves
    BY <1>0, <1>8 DEF MarkUsed, PhaseInv, InHand
  <2> QED BY <1>0, <1>8, <2>1 DEF MarkUsed, DurableTypeOK, Points
<1>9. CASE SetStart
  <2>1. arg \in Leaves
    BY <1>0, <1>9 DEF SetStart, PhaseInv, InHand
  <2>2. catalog' \in Catalogs
    BY <1>0, <1>9, <2>1 DEF SetStart, DurableTypeOK, Catalogs
  <2> QED BY <1>0, <1>9, <2>2 DEF SetStart, DurableTypeOK, Points
<1>10. CASE ReturnLeaf
  <2>1. arg \in Leaves
    BY <1>0, <1>10 DEF ReturnLeaf, PhaseInv, InHand
  <2> QED BY <1>0, <1>10, <2>1 DEF ReturnLeaf, DurableTypeOK, Points
<1>11. ASSUME NEW p \in owned, CallFreeLeaf(p) PROVE DurableTypeOK'
  <2>1. p \in Leaves /\ p \in Files \X (0 .. (GroupSize + 1))
    BY <1>0, <1>11, LeafParts DEF DurableTypeOK
  <2>2. freed' \in 0 .. MaxFrees
    BY <1>0, <1>11, DurableAssumption DEF CallFreeLeaf, DurableTypeOK, DurableAssumption
  <2> QED BY <1>0, <1>11, <2>1, <2>2 DEF CallFreeLeaf, DurableTypeOK, Points
<1>12. CASE MarkFree
  BY <1>0, <1>12 DEF MarkFree, DurableTypeOK, Points
<1>13. CASE PushFreed
  <2>1. arg \in Leaves
    BY <1>0, <1>13 DEF PushFreed, PhaseInv, Leaving
  <2>2. cells' \in Seq(Leaves) /\ sz' \in 0 .. Len(cells')
    BY <1>0, <1>13, <2>1, PushEffect DEF PushFreed
  <2> QED BY <1>0, <1>13, <2>2 DEF PushFreed, DurableTypeOK, Points
<1>19. CASE CountFreed \/ RestoreCount
  <2>1. catalog' \in Catalogs /\ pc' \in Points
    <3>1. /\ catalog.freeNum + 1 \in Nat
          /\ RestoreCount => catalog.freeNum - 1 \in Nat
      BY <1>0, Fields DEF RestoreCount, PhaseInv
    <3>2. /\ [catalog EXCEPT !.freeNum = @ + 1] \in Catalogs
          /\ RestoreCount => [catalog EXCEPT !.freeNum = @ - 1] \in Catalogs
      BY <1>0, <3>1, StoreEffect DEF DurableTypeOK
    <3> QED BY <1>19, <3>2 DEF CountFreed, RestoreCount, Points
  <2> QED BY <1>0, <1>19, <2>1 DEF CountFreed, RestoreCount, DurableTypeOK
<1>14. ASSUME NEW p \in owned \cup {NoLeaf}, CallSetStart(p) PROVE DurableTypeOK'
  <2>1. catalog' \in Catalogs
    BY <1>0, <1>14 DEF CallSetStart, DurableTypeOK, Catalogs
  <2> QED BY <1>0, <1>14, <2>1 DEF CallSetStart, DurableTypeOK, Points
<1>15. CASE FlushCatalog
  BY <1>0, <1>15 DEF FlushCatalog, DurableTypeOK, Points
<1>16. CASE Evict
  BY <1>0, <1>16 DEF Evict, DurableTypeOK
<1>17. CASE Restart \/ Crash
  <2>1. Recover /\ crashes' \in 0 .. MaxCrashes /\ torn' \in BOOLEAN
    <3>1. Recover /\ torn' \in BOOLEAN
      BY <1>0, <1>17, Zenon DEF Restart, Crash, DurableTypeOK
    <3>2. crashes' \in 0 .. MaxCrashes
      <4>1. CASE Restart
        BY <1>0, <4>1 DEF Restart, DurableTypeOK
      <4>2. crashes \in 0 .. MaxCrashes /\ MaxCrashes \in Nat
        BY <1>0, DurableAssumption DEF DurableTypeOK, DurableAssumption
      <4>3. CASE Crash
        <5>1. crashes < MaxCrashes /\ crashes' = crashes + 1
          BY <4>3, Zenon DEF Crash
        <5> QED BY <4>2, <5>1
      <4> QED BY <1>17, <4>1, <4>3
    <3> QED BY <3>1, <3>2
  <2>2. /\ cells' \in Seq(Leaves) /\ Len(cells') = onDisk.freeNum /\ onDisk.freeNum \in Nat
        /\ onDisk.startLeaf \in Leaves \cup {NoLeaf}
    BY <1>0, <2>1, RecoverEffect, Fields
  <2>3. owned' \in SUBSET Leaves
    BY <1>0, <2>1, <2>2 DEF Recover, DurableTypeOK, IsNull, NoLeaf
  <2>4. mapped' \in SUBSET Files /\ arg' \in Files \X (0 .. (GroupSize + 1))
    BY <1>0, <2>1 DEF Recover, Named, NoLeaf, Files
  <2> QED BY <1>0, <2>1, <2>2, <2>3, <2>4 DEF Recover, DurableTypeOK, Points
<1>18. CASE UNCHANGED durableVars
  BY <1>0, <1>18 DEF durableVars, DurableTypeOK
<1> QED BY <1>1, <1>2, <1>3, <1>4, <1>5, <1>6, <1>7, <1>8, <1>9, <1>10, <1>11, <1>12,
           <1>13, <1>14, <1>15, <1>16, <1>17, <1>18, <1>19 DEF DurableNext

\* Whatever the process does next, the catalog's counts and how far persistent
\* memory is behind them are as each point of a call relies on.
LEMMA CoverStep == CoverInv /\ [DurableNext]_durableVars => CoverInv'
<1> SUFFICES ASSUME CoverInv, [DurableNext]_durableVars PROVE CoverInv'
  OBVIOUS
<1> USE DEF Step, Store, stackVars, groupVars, historyVars
<1>0. /\ DurableTypeOK /\ PhaseInv /\ DiskInv /\ CountCovered /\ DurableTypeOK'
  BY TypeStep DEF CoverInv
<1>f. /\ catalog.maxFileId \in Nat /\ onDisk.maxFileId \in Nat
      /\ catalog.freeNum \in Nat /\ onDisk.freeNum \in Nat
      /\ sz \in Nat /\ Len(cells) \in Nat /\ sz <= Len(cells)
      /\ MaxFiles \in Nat /\ GroupSize \in Nat \ {0} /\ catalog \in Catalogs
  BY <1>0, Fields DEF DurableTypeOK
<1> USE DEF InHand, Leaving
<1>1. CASE InitCatalog
  <2>1. catalog'.maxFileId = 1 /\ catalog'.freeNum = catalog.freeNum
    <3>1. 1 \in 0 .. (MaxFiles + 1)
      BY <1>f
    <3> QED BY <1>f, <1>1, <3>1, StoreEffect DEF InitCatalog
  <2> QED BY <1>0, <1>f, <1>1, <2>1 DEF InitCatalog, PhaseInv, DiskInv, CountCovered, CoverInv
<1>2. CASE CallGetLeaf
  BY <1>0, <1>f, <1>2 DEF CallGetLeaf, BeginGroup, PhaseInv, DiskInv, CountCovered, CoverInv
<1>3. CASE PushGroupLeaf
  <2>1. pc = "push" /\ arg[1] \in Files /\ arg[2] \in 1 .. GroupSize /\ arg[2] - 1 <= sz
    BY <1>0, <1>3 DEF PushGroupLeaf, PhaseInv
  <2>2. arg = <<arg[1], arg[2]>>
    BY <1>0 DEF DurableTypeOK
  <2>3. sz' = sz + 1 /\ Len(cells') \in Nat /\ Len(cells) <= Len(cells')
    BY <1>0, <1>3, <2>1, <2>2, LeafParts, PushEffect DEF PushGroupLeaf
  <2>4. arg'[1] = arg[1] /\ arg'[2] = arg[2] + 1
    BY <1>3 DEF PushGroupLeaf
  <2> QED BY <1>0, <1>f, <1>3, <2>1, <2>3, <2>4
          DEF PushGroupLeaf, PhaseInv, DiskInv, CountCovered, CoverInv
<1>4. CASE CountGroup
  <2>1. catalog'.maxFileId = catalog.maxFileId /\ catalog'.freeNum = GroupSize
    <3>1. catalog.freeNum + GroupSize \in Nat /\ catalog.freeNum = 0
      BY <1>0, <1>f, <1>4 DEF CountGroup, PhaseInv
    <3> QED BY <1>f, <1>4, <3>1, StoreEffect DEF CountGroup
  <2> QED BY <1>0, <1>f, <1>4, <2>1 DEF CountGroup, PhaseInv, DiskInv, CountCovered, CoverInv
<1>5. CASE NameGroup
  <2>1. catalog'.maxFileId = catalog.maxFileId + 1 /\ catalog'.freeNum = catalog.freeNum
    <3>1. catalog.maxFileId + 1 \in 0 .. (MaxFiles + 1)
      BY <1>0, <1>f, <1>5 DEF NameGroup, PhaseInv, Files
    <3> QED BY <1>f, <1>5, <3>1, StoreEffect DEF NameGroup
  <2> QED BY <1>0, <1>f, <1>5, <2>1 DEF NameGroup, PhaseInv, DiskInv, CountCovered, CoverInv
<1>6. CASE Pop
  <2>1. catalog.freeNum > 0 /\ catalog.freeNum <= sz /\ onDisk = catalog
    BY <1>0, <1>6 DEF Pop, PhaseInv, DiskInv, CountCovered, CoverInv
  <2>2. catalog'.maxFileId = catalog.maxFileId /\ catalog'.freeNum = catalog.freeNum - 1
    <3>1. catalog.freeNum - 1 \in Nat
      BY <1>f, <2>1
    <3> QED BY <1>f, <1>6, <3>1, StoreEffect DEF Pop
  <2>3. /\ sz' = sz - 1 /\ cells' = cells /\ sz' + 1 = sz /\ arg' = cells[sz]
        /\ cells[sz] \in Leaves
    BY <1>0, <1>f, <1>6, <2>1, Fields DEF Pop
  <2> QED BY <1>0, <1>f, <1>6, <2>1, <2>2, <2>3 DEF Pop, PhaseInv, DiskInv, CountCovered, CoverInv
<1>7. CASE CountUsed \/ MarkUsed \/ MarkFree
  BY <1>0, <1>f, <1>7 DEF CountUsed, MarkUsed, MarkFree, PhaseInv, DiskInv, CountCovered, CoverInv
<1>9. CASE SetStart
  <2>1. catalog'.maxFileId = catalog.maxFileId /\ catalog'.freeNum = catalog.freeNum
    <3>1. arg \in Leaves
      BY <1>0, <1>9 DEF SetStart, PhaseInv
    <3>2. CASE UNCHANGED catalog
      BY <3>2
    <3>3. CASE catalog' = [catalog EXCEPT !.startLeaf = arg]
      BY <1>f, <3>1, <3>3, StoreEffect
    <3> QED BY <1>9, <3>2, <3>3 DEF SetStart
  <2> QED BY <1>0, <1>f, <1>9, <2>1 DEF SetStart, PhaseInv, DiskInv, CountCovered, CoverInv
<1>10. CASE ReturnLeaf
  BY <1>0, <1>f, <1>10 DEF ReturnLeaf, PhaseInv, DiskInv, CountCovered, CoverInv
<1>11. ASSUME NEW p \in owned, CallFreeLeaf(p) PROVE CoverInv'
  <2>1. p \in Leaves
    BY <1>0 DEF DurableTypeOK
  <2> QED BY <1>0, <1>f, <1>11, <2>1 DEF CallFreeLeaf, PhaseInv, DiskInv, CountCovered, CoverInv
<1>13. CASE PushFreed
  <2>1. arg \in Leaves
    BY <1>0, <1>13 DEF PushFreed, PhaseInv
  <2>2. sz' = sz + 1 /\ Len(cells') \in Nat /\ Len(cells) <= Len(cells')
    BY <1>0, <1>13, <2>1, PushEffect DEF PushFreed
  <2> QED BY <1>0, <1>f, <1>13, <2>2 DEF PushFreed, PhaseInv, DiskInv, CountCovered, CoverInv
<1>19. CASE CountFreed \/ RestoreCount
  BY <1>0, <1>f, <1>19, RecountEffect DEF PhaseInv, DiskInv, CountCovered, CoverInv
<1>14. ASSUME NEW p \in owned \cup {NoLeaf}, CallSetStart(p) PROVE CoverInv'
  <2>1. catalog'.maxFileId = catalog.maxFileId /\ catalog'.freeNum = catalog.freeNum
    BY <1>0, <1>f, <1>14, StoreEffect DEF CallSetStart, DurableTypeOK
  <2> QED BY <1>0, <1>f, <1>14, <2>1
          DEF CallSetStart, PhaseInv, DiskInv, CountCovered, CoverInv
<1>15. CASE FlushCatalog
  BY <1>0, <1>f, <1>15 DEF FlushCatalog, PhaseInv, DiskInv, CountCovered, CoverInv
<1>16. CASE Evict
  BY <1>0, <1>f, <1>16 DEF Evict, PhaseInv, DiskInv, CountCovered, CoverInv
<1>17. CASE Restart \/ Crash
  <2>1. Recover
    BY <1>17, Zenon DEF Restart, Crash
  <2>2. Len(cells') = onDisk.freeNum
    BY <2>1, RecoverEffect
  <2> QED BY <1>0, <1>f, <2>1, <2>2 DEF Recover, PhaseInv, DiskInv, CountCovered, CoverInv
<1>18. CASE UNCHANGED durableVars
  BY <1>0, <1>18 DEF durableVars, PhaseInv, DiskInv, CountCovered, CoverInv
<1> QED BY <1>0, <1>1, <1>2, <1>3, <1>4, <1>5, <1>6, <1>7, <1>9, <1>10, <1>11,
           <1>13, <1>14, <1>15, <1>16, <1>17, <1>18, <1>19 DEF DurableNext, CoverInv
-----------------------------------------------------------------------------
\* What a process that starts now would find: a leaf in hand may be popped and
\* still be on its stack, unless the catalog it reads starts the tree with it.
LEMMA OfferedClear ==
  ASSUME CoverInv, PlaceInv
  PROVE  /\ Distinct(onDisk.freeNum)
         /\ \A i \in 1 .. onDisk.freeNum :
              cells[i] \notin owned /\ cells[i] # onDisk.startLeaf
<1> DEFINE k == onDisk.freeNum
<1>1. /\ catalog.freeNum \in Nat /\ k \in Nat /\ sz \in Nat /\ Len(cells) \in Nat
      /\ catalog.freeNum <= sz /\ PhaseInv /\ DiskInv
  BY Fields DEF CoverInv, CountCovered
<1>2. CASE k <= sz
  <2>1. \A i \in 1 .. k : i \in 1 .. sz
    BY <1>1, <1>2
  <2> HIDE DEF k
  <2> QED BY <2>1 DEF PlaceInv, Distinct, k
<1>3. CASE ~(k <= sz)
  <2>1. InHand /\ k = sz + 1 /\ onDisk.freeNum > catalog.freeNum
    BY <1>1, <1>3 DEF DiskInv, PhaseInv
  <2>2. /\ cells[k] = arg /\ arg \notin owned /\ arg # onDisk.startLeaf
        /\ \A i \in 1 .. sz : cells[i] # arg
    BY <1>1, <2>1 DEF PhaseInv, PlaceInv
  <2>3. \A i \in 1 .. k : i \in 1 .. sz \/ i = k
    BY <1>1, <2>1
  <2> HIDE DEF k
  <2>4. Distinct(k)
    BY <2>2, <2>3 DEF PlaceInv, Distinct
  <2>5. \A i \in 1 .. k : cells[i] \notin owned /\ cells[i] # onDisk.startLeaf
    BY <2>2, <2>3 DEF PlaceInv
  <2> QED BY <2>4, <2>5 DEF k
<1> QED BY <1>2, <1>3

\* It finds them in files that it maps, unless the crash is of those that tear.
LEMMA OfferedNamed ==
  ASSUME CoverInv, PlaceInv,
         ~(pc = "name" /\ onDisk = catalog),
         ~(/\ pc = "flushGroup" /\ onDisk.freeNum = catalog.freeNum
           /\ onDisk.maxFileId < catalog.maxFileId),
         NEW i \in 1 .. onDisk.freeNum
  PROVE  cells[i][1] < onDisk.maxFileId
<1>1. /\ catalog.freeNum \in Nat /\ onDisk.freeNum \in Nat /\ sz \in Nat
      /\ catalog.freeNum <= sz /\ PhaseInv /\ DiskInv /\ onDisk.freeNum > 0
  BY Fields DEF CoverInv, CountCovered
<1>2. /\ onDisk.maxFileId = catalog.maxFileId
      /\ pc \notin {"push", "count", "name"}
  <2>1. pc \notin {"push", "count", "name", "create", "flushNew"}
    BY <1>1 DEF PhaseInv, DiskInv, InHand
  <2>2. CASE pc = "flushGroup"
    <3>1. onDisk.maxFileId \in Nat /\ catalog.maxFileId \in Nat
      BY Fields DEF CoverInv
    <3> QED BY <1>1, <2>1, <2>2, <3>1 DEF DiskInv
  <2>3. CASE pc # "flushGroup"
    BY <1>1, <2>1, <2>3 DEF DiskInv
  <2> QED BY <2>1, <2>2, <2>3
<1>3. CASE i <= sz
  <2>1. i \in 1 .. sz
    BY <1>1, <1>3
  <2> QED BY <1>2, <2>1 DEF PlaceInv, Known
<1>4. CASE ~(i <= sz)
  <2>1. InHand /\ i = sz + 1
    BY <1>1, <1>4 DEF DiskInv, PhaseInv
  <2> QED BY <1>1, <1>2, <2>1 DEF PhaseInv, PlaceInv
<1> QED BY <1>3, <1>4

\* No leaf gets two places, as long as no crash has torn the catalog.
LEMMA PlaceStep ==
  ASSUME CoverInv, CoverInv', PlaceInv, ~torn', [DurableNext]_durableVars
  PROVE  PlaceInv'
<1> USE DEF Step, Store, stackVars, groupVars, historyVars, InHand, Leaving
<1>0. /\ DurableTypeOK /\ PhaseInv /\ DiskInv /\ PhaseInv' /\ DiskInv'
  BY DEF CoverInv
<1>f. /\ catalog.maxFileId \in Nat /\ onDisk.maxFileId \in Nat
      /\ catalog.maxFileId \in 0 .. (MaxFiles + 1)
      /\ catalog.freeNum \in Nat /\ onDisk.freeNum \in Nat
      /\ catalog.startLeaf \in Leaves \cup {NoLeaf}
      /\ sz \in Nat /\ Len(cells) \in Nat /\ sz <= Len(cells)
      /\ \A i \in 1 .. sz : cells[i] \in Leaves
      /\ MaxFiles \in Nat /\ GroupSize \in Nat \ {0} /\ catalog \in Catalogs
      /\ owned \subseteq Leaves
  BY <1>0, Fields DEF DurableTypeOK
<1>p. /\ NoLeaf \notin Leaves /\ NoLeaf[1] = 0
      /\ \A p \in Leaves : p[1] \in Nat /\ p[2] \in Nat
  <2>1. NoLeaf[1] = 0
    BY DEF NoLeaf
  <2> QED BY <2>1, <1>f, LeafParts DEF Files
<1>1. CASE InitCatalog
  <2>1. catalog'.maxFileId = 1 /\ catalog'.startLeaf = catalog.startLeaf
        /\ catalog'.freeNum = catalog.freeNum
    <3>1. 1 \in 0 .. (MaxFiles + 1)
      BY <1>f
    <3> QED BY <1>f, <1>1, <3>1, StoreEffect DEF InitCatalog
  <2>2. sz = 0
    <3>1. catalog.maxFileId = 0 /\ pc = "create"
      BY <1>0, <1>1 DEF InitCatalog, DiskInv
    <3>2. ASSUME NEW i \in 1 .. sz PROVE FALSE
      BY <1>f, <1>p, <3>1 DEF PlaceInv, Known
    <3> QED BY <1>f, <3>2
  <2>3. Distinct(sz)' /\ \A i \in 1 .. sz : FALSE
    BY <1>1, <2>2 DEF Distinct, InitCatalog
  <2> QED BY <1>0, <1>f, <1>1, <2>1, <2>3 DEF InitCatalog, PlaceInv, Kept
<1>2. CASE CallGetLeaf
  BY <1>0, <1>f, <1>2 DEF CallGetLeaf, BeginGroup, PlaceInv, Known, Kept, Distinct
<1>3. CASE PushGroupLeaf
  <2>1. /\ pc = "push" /\ arg[1] \in Files /\ arg[2] \in 1 .. GroupSize
        /\ arg[1] = catalog.maxFileId /\ onDisk = catalog
    BY <1>0, <1>3 DEF PushGroupLeaf, PhaseInv, DiskInv
  <2>2. arg = <<arg[1], arg[2]>> /\ arg \in Leaves
    BY <1>0, <2>1, LeafParts DEF DurableTypeOK
  <2>3. /\ sz' = sz + 1 /\ cells'[sz + 1] = arg /\ \A i \in 1 .. sz : cells'[i] = cells[i]
    BY <1>0, <1>3, <2>2, PushEffect DEF PushGroupLeaf
  <2>4. arg'[1] = arg[1] /\ arg'[2] = arg[2] + 1 /\ (arg[2] = GroupSize \/ pc' = "push")
        /\ (arg[2] = GroupSize => pc' = "count")
    BY <1>3 DEF PushGroupLeaf
  <2>5. \A i \in 1 .. sz : cells[i] # arg
    BY <1>f, <1>p, <2>1 DEF PlaceInv, Known
  <2>6. arg \notin owned /\ arg # catalog.startLeaf /\ arg # onDisk.startLeaf
    BY <1>f, <1>p, <2>1, <2>2 DEF PlaceInv, Kept
  <2>7. \A i \in 1 .. (sz + 1) : i \in 1 .. sz \/ i = sz + 1
    BY <1>f
  <2>8. Distinct(sz)'
    BY <2>3, <2>5, <2>7 DEF PlaceInv, Distinct
  <2>9. UNCHANGED <<catalog, onDisk, owned>>
    BY <1>3 DEF PushGroupLeaf
  <2>10. ASSUME NEW i \in 1 .. sz' PROVE Known(cells[i])'
    <3>1. CASE i = sz + 1
      BY <1>f, <2>1, <2>2, <2>3, <2>4, <2>9, <3>1 DEF Known
    <3>2. CASE i \in 1 .. sz
      <4>1. Known(cells[i]) /\ cells'[i] = cells[i] /\ cells[i] \in Leaves
        BY <1>f, <2>3, <3>2 DEF PlaceInv
      <4>2. arg[2] \in Nat /\ cells[i][2] \in Nat
        BY <1>p, <2>2, <4>1
      <4> QED BY <1>f, <2>1, <2>4, <2>9, <4>1, <4>2 DEF Known
    <3> QED BY <2>3, <2>7, <3>1, <3>2
  <2>11. ~InHand' /\ ~Leaving'
    BY <1>3 DEF PushGroupLeaf
  <2> QED BY <2>3, <2>6, <2>7, <2>8, <2>9, <2>10, <2>11 DEF PlaceInv, Kept
<1>4. CASE CountGroup
  <2>1. /\ catalog'.maxFileId = catalog.maxFileId /\ catalog'.startLeaf = catalog.startLeaf
        /\ catalog.freeNum + GroupSize \in Nat
    <3>1. catalog.freeNum + GroupSize \in Nat
      BY <1>f
    <3> QED BY <1>f, <1>4, <3>1, StoreEffect DEF CountGroup
  <2> QED BY <1>0, <1>f, <1>4, <2>1 DEF CountGroup, PlaceInv, Known, Kept, Distinct
<1>5. CASE NameGroup
  <2>1. /\ catalog'.maxFileId = catalog.maxFileId + 1
        /\ catalog'.startLeaf = catalog.startLeaf
    <3>1. catalog.maxFileId + 1 \in 0 .. (MaxFiles + 1)
      BY <1>0, <1>f, <1>5 DEF NameGroup, PhaseInv, Files
    <3> QED BY <1>f, <1>5, <3>1, StoreEffect DEF NameGroup
  <2>2. ASSUME NEW i \in 1 .. sz PROVE Known(cells[i])'
    <3>1. cells[i][1] \in Nat /\ cells[i][1] <= catalog.maxFileId /\ cells' = cells
      BY <1>f, <1>p, <1>5 DEF NameGroup, PlaceInv, Known
    <3> QED BY <1>f, <2>1, <3>1 DEF Known
  <2> QED BY <1>0, <1>f, <1>5, <2>1, <2>2 DEF NameGroup, PlaceInv, Kept, Distinct
<1>6. CASE Pop
  <2>1. catalog.freeNum > 0 /\ catalog.freeNum <= sz /\ onDisk = catalog
    BY <1>0, <1>6 DEF Pop, PhaseInv, DiskInv, CoverInv, CountCovered
  <2>2. /\ catalog'.maxFileId = catalog.maxFileId /\ catalog'.startLeaf = catalog.startLeaf
        /\ catalog'.freeNum = catalog.freeNum - 1
    <3>1. catalog.freeNum - 1 \in Nat
      BY <1>f, <2>1
    <3> QED BY <1>f, <1>6, <3>1, StoreEffect DEF Pop
  <2>3. /\ sz' = sz - 1 /\ sz \in 1 .. sz /\ arg' = cells[sz]
        /\ \A i \in 1 .. (sz - 1) : i \in 1 .. sz /\ i # sz
    BY <1>f, <1>6, <2>1 DEF Pop
  <2>4. UNCHANGED <<cells, owned, onDisk>> /\ pc = "pop" /\ pc' = "countUsed"
    BY <1>6 DEF Pop
  <2>5. \A i \in 1 .. (sz - 1) : cells[i] # cells[sz]
    BY <2>3 DEF PlaceInv, Distinct
  <2>6. \A i \in 1 .. sz : cells[i][1] < catalog.maxFileId
    BY <2>4 DEF PlaceInv, Known
  <2> QED BY <2>2, <2>3, <2>4, <2>5, <2>6 DEF PlaceInv, Known, Kept, Distinct
<1>7. CASE CountUsed \/ MarkUsed \/ MarkFree
  BY <1>7 DEF CountUsed, MarkUsed, MarkFree, PlaceInv, Known, Kept, Distinct
<1>9. CASE SetStart
  <2>1. arg \in Leaves /\ onDisk.maxFileId = catalog.maxFileId
    BY <1>0, <1>9 DEF SetStart, PhaseInv, DiskInv
  <2>2. CASE UNCHANGED catalog
    BY <1>9, <2>2 DEF SetStart, PlaceInv, Known, Kept, Distinct
  <2>3. CASE catalog' = [catalog EXCEPT !.startLeaf = arg]
    <3>1. /\ catalog'.maxFileId = catalog.maxFileId /\ catalog'.startLeaf = arg
          /\ catalog'.freeNum = catalog.freeNum
      BY <1>f, <2>1, <2>3, StoreEffect
    <3>2. arg[1] < onDisk.maxFileId /\ \A i \in 1 .. sz : cells[i] # arg
      BY <1>9, <2>1 DEF SetStart, PlaceInv
    <3> QED BY <1>9, <3>1, <3>2 DEF SetStart, PlaceInv, Known, Kept, Distinct
  <2> QED BY <1>9, <2>2, <2>3 DEF SetStart
<1>10. CASE ReturnLeaf
  <2>1. onDisk.maxFileId = catalog.maxFileId
    BY <1>0, <1>10 DEF ReturnLeaf, DiskInv
  <2> QED BY <1>10, <2>1 DEF ReturnLeaf, PlaceInv, Known, Kept, Distinct
<1>11. ASSUME NEW p \in owned, CallFreeLeaf(p) PROVE PlaceInv'
  <2>1. p \in Leaves /\ p # NoLeaf /\ onDisk = catalog /\ p # catalog.startLeaf
    BY <1>0, <1>f, <1>p, <1>11 DEF CallFreeLeaf, DiskInv
  <2>2. p[1] < catalog.maxFileId /\ \A i \in 1 .. sz : cells[i] # p
    BY <2>1 DEF PlaceInv, Kept
  <2>3. /\ arg' = p /\ owned' = owned \ {p} /\ pc = "idle" /\ pc' = "unmark"
        /\ UNCHANGED <<catalog, onDisk, cells, sz>>
    BY <1>11 DEF CallFreeLeaf
  <2> QED BY <2>1, <2>2, <2>3 DEF PlaceInv, Known, Kept, Distinct
<1>13. CASE PushFreed
  <2>1. arg \in Leaves /\ onDisk = catalog /\ pc = "pushFreed" /\ pc' = "countFreed"
    BY <1>0, <1>13 DEF PushFreed, PhaseInv, DiskInv
  <2>2. sz' = sz + 1 /\ cells'[sz + 1] = arg /\ \A i \in 1 .. sz : cells'[i] = cells[i]
    BY <1>0, <1>13, <2>1, PushEffect DEF PushFreed
  <2>3. /\ \A i \in 1 .. sz : cells[i] # arg
        /\ arg \notin owned /\ arg[1] < catalog.maxFileId /\ arg # catalog.startLeaf
    BY <2>1 DEF PlaceInv
  <2>4. \A i \in 1 .. (sz + 1) : i \in 1 .. sz \/ i = sz + 1
    BY <1>f
  <2>5. UNCHANGED <<catalog, onDisk, owned>>
    BY <1>13 DEF PushFreed
  <2>6. Distinct(sz)'
    BY <2>2, <2>3, <2>4 DEF PlaceInv, Distinct
  <2> QED BY <2>1, <2>2, <2>3, <2>4, <2>5, <2>6 DEF PlaceInv, Known, Kept
<1>19. CASE CountFreed \/ RestoreCount
  BY <1>19, RecountEffect DEF PlaceInv, Known, Kept, Distinct
<1>14. ASSUME NEW p \in owned \cup {NoLeaf}, CallSetStart(p) PROVE PlaceInv'
  <2>1. p \in Leaves \cup {NoLeaf} /\ \A i \in 1 .. sz : cells[i] # p
    BY <1>f, <1>p DEF PlaceInv
  <2>2. Kept(p)
    BY DEF PlaceInv, Kept
  <2>3. /\ catalog'.maxFileId = catalog.maxFileId /\ catalog'.startLeaf = p
        /\ UNCHANGED <<onDisk, cells, sz, owned>> /\ pc = "idle" /\ pc' = "flushSet"
    BY <1>f, <1>14, <2>1, StoreEffect DEF CallSetStart
  <2> QED BY <2>1, <2>2, <2>3 DEF PlaceInv, Known, Kept, Distinct
<1>15. CASE FlushCatalog \/ Evict
  <2>1. /\ onDisk' = catalog /\ UNCHANGED <<catalog, cells, sz, arg, owned>>
        /\ pc \notin {"push", "count"} /\ pc' \notin {"push", "count"}
        /\ pc' = "name" => pc = "name"
        /\ pc = "name" => pc' = "name"
        /\ InHand' => InHand
        /\ Leaving' => Leaving
    BY <1>0, <1>15 DEF FlushCatalog, Evict, DiskInv
  <2>2. onDisk.maxFileId <= catalog.maxFileId
    BY <1>0 DEF DiskInv
  <2>3. ASSUME NEW p, p \in Leaves \cup {NoLeaf}, Kept(p) PROVE Kept(p)'
    BY <1>f, <1>p, <2>1, <2>2, <2>3 DEF Kept
  <2>4. /\ \A p \in owned : Kept(p)'
        /\ Kept(catalog.startLeaf)' /\ Kept(onDisk.startLeaf)'
    BY <1>f, <2>1, <2>3 DEF PlaceInv
  <2>5. \A i \in 1 .. sz : Known(cells[i])'
    BY <2>1 DEF PlaceInv, Known
  <2>6. ~(onDisk'.freeNum > catalog'.freeNum)
    BY <1>f, <2>1
  <2> QED BY <2>1, <2>4, <2>5, <2>6 DEF PlaceInv, Distinct
<1>17. CASE Restart \/ Crash
  <2>1. Recover
    BY <1>17, Zenon DEF Restart, Crash
  <2>2. /\ ~(pc = "name" /\ onDisk = catalog)
        /\ ~(/\ pc = "flushGroup" /\ onDisk.freeNum = catalog.freeNum
             /\ onDisk.maxFileId < catalog.maxFileId)
    BY <1>17 DEF Restart, Crash
  <2>3. \A i \in 1 .. onDisk.freeNum : cells'[i] = cells[i]
    BY <2>1, RecoverEffect
  <2>4. /\ catalog' = onDisk /\ onDisk' = onDisk /\ sz' = onDisk.freeNum /\ pc' = "idle"
        /\ \A p \in owned' : p \in owned \/ p = onDisk.startLeaf
    BY <2>1 DEF Recover
  <2>5. Distinct(onDisk.freeNum)'
    BY <2>3, <2>4, OfferedClear DEF Distinct
  <2>6. \A i \in 1 .. onDisk.freeNum : cells[i][1] < onDisk.maxFileId
    BY <2>2, OfferedNamed
  <2>7. \A i \in 1 .. onDisk.freeNum : cells[i] \notin owned /\ cells[i] # onDisk.startLeaf
    BY OfferedClear
  <2>8. \A p \in owned' : Kept(p)
    BY <2>4 DEF PlaceInv
  <2> QED BY <2>3, <2>4, <2>5, <2>6, <2>7, <2>8 DEF PlaceInv, Known, Kept
<1>18. CASE UNCHANGED durableVars
  BY <1>18 DEF durableVars, PlaceInv, Known, Kept, Distinct
<1> QED BY <1>1, <1>2, <1>3, <1>4, <1>5, <1>6, <1>7, <1>9, <1>10, <1>11,
           <1>13, <1>14, <1>15, <1>17, <1>18, <1>19 DEF DurableNext

\* A crash that tears the catalog is not undone.
LEMMA TornStays == [DurableNext]_durableVars /\ torn => torn'
<1> SUFFICES ASSUME [DurableNext]_durableVars, torn PROVE torn'
  OBVIOUS
<1> USE DEF historyVars
<1>1. CASE InitCatalog \/ CallGetLeaf \/ PushGroupLeaf \/ CountGroup \/ NameGroup
  BY <1>1 DEF InitCatalog, CallGetLeaf, BeginGroup, PushGroupLeaf, CountGroup, NameGroup
<1>2. CASE Pop \/ CountUsed \/ MarkUsed \/ SetStart \/ ReturnLeaf
  BY <1>2 DEF Pop, CountUsed, MarkUsed, SetStart, ReturnLeaf
<1>3. CASE \E p \in owned : CallFreeLeaf(p)
  BY <1>3 DEF CallFreeLeaf
<1>4. CASE \/ MarkFree \/ PushFreed \/ CountFreed \/ RestoreCount
           \/ \E p \in owned \cup {NoLeaf} : CallSetStart(p)
  BY <1>4 DEF MarkFree, PushFreed, CountFreed, RestoreCount, CallSetStart
<1>5. CASE FlushCatalog \/ Evict \/ UNCHANGED durableVars
  BY <1>5 DEF FlushCatalog, Evict, durableVars
<1>6. CASE Restart
  BY <1>6 DEF Restart
<1>7. CASE Crash
  BY <1>7, Zenon DEF Crash
<1> QED BY <1>1, <1>2, <1>3, <1>4, <1>5, <1>6, <1>7 DEF DurableNext
-----------------------------------------------------------------------------
\* What each point of a call relies on holds in every reachable state, and where
\* each leaf may be in every one that no crash has torn.
THEOREM CrashSound == DurableSpec => []CrashInv
<1>1. CrashInv /\ [DurableNext]_durableVars => CrashInv'
  BY CoverStep, PlaceStep, TornStays DEF CrashInv
<1> QED BY <1>1, InitCrash, PTL DEF DurableSpec

\* The state keeps its types, for groups and file systems of any size.
THEOREM DurableTypes == DurableSpec => []DurableTypeOK
<1>1. CrashInv => DurableTypeOK
  BY DEF CrashInv, CoverInv
<1> QED BY <1>1, CrashSound, PTL

\* Neither this process nor the next one, whenever the crash comes, counts more
\* free leaves than the stack has cells for.
THEOREM CountAlwaysCovered == DurableSpec => []CountCovered
<1>1. CrashInv => CountCovered
  BY DEF CrashInv, CoverInv
<1> QED BY <1>1, CrashSound, PTL

\* No leaf gets two owners, whatever process asks for it and after any crashes
\* that come outside the two windows in which the catalog is torn.
THEOREM OwnersAlwaysApart == DurableSpec => []OwnedNeverOffered
<1>1. CrashInv => OwnedNeverOffered
  <2>1. SUFFICES ASSUME CoverInv, PlaceInv PROVE OwnedNeverOffered
    BY DEF CrashInv, OwnedNeverOffered
  <2>2. owned \cap OnStack = {} /\ Distinct(sz)
    BY <2>1 DEF OnStack, PlaceInv
  <2>3. owned \cap Offered = {} /\ onDisk.startLeaf \notin Offered /\ Distinct(onDisk.freeNum)
    BY <2>1, OfferedClear DEF Offered
  <2> QED BY <2>2, <2>3 DEF OwnedNeverOffered
<1> QED BY <1>1, CrashSound, PTL
-----------------------------------------------------------------------------
\* Every file the catalog names is mapped, and no leaf is of file 0, which only
\* a catalog that was never initialised gives out.
MapInv ==
  /\ pc # "create" => catalog.maxFileId >= 1
  /\ \A f \in Files : 1 <= f /\ f < catalog.maxFileId => f \in mapped
  /\ pc = "name" => catalog.maxFileId \in mapped
  /\ \A i \in 1 .. sz : cells[i][1] # 0
  /\ \A p \in owned : p[1] # 0
  /\ InHand \/ Leaving => arg[1] # 0

\* A file is mapped before it is named, and named before its leaves are popped.
LEMMA MapStep ==
  ASSUME CoverInv, CoverInv', MapInv, ~torn', [DurableNext]_durableVars
  PROVE  MapInv'
<1> USE DEF Step, Store, stackVars, groupVars, historyVars, InHand, Leaving
<1>0. /\ DurableTypeOK /\ PhaseInv /\ DiskInv /\ CountCovered
  BY DEF CoverInv
<1>f. /\ catalog.maxFileId \in Nat /\ onDisk.maxFileId \in Nat
      /\ catalog.freeNum \in Nat /\ onDisk.freeNum \in Nat
      /\ sz \in Nat /\ Len(cells) \in Nat /\ sz <= Len(cells)
      /\ MaxFiles \in Nat /\ GroupSize \in Nat \ {0} /\ catalog \in Catalogs
      /\ owned \subseteq Leaves
  BY <1>0, Fields DEF DurableTypeOK
<1>1. CASE InitCatalog
  <2>1. catalog'.maxFileId = 1
    <3>1. 1 \in 0 .. (MaxFiles + 1)
      BY <1>f
    <3> QED BY <1>f, <1>1, <3>1, StoreEffect DEF InitCatalog
  <2>2. \A f \in Files : ~(1 <= f /\ f < 1)
    BY <1>f DEF Files
  <2> QED BY <1>1, <2>1, <2>2 DEF InitCatalog, MapInv
<1>2. CASE CallGetLeaf
  BY <1>2 DEF CallGetLeaf, BeginGroup, MapInv
<1>3. CASE PushGroupLeaf
  <2>1. /\ pc = "push" /\ arg[1] \in Files /\ arg[2] \in 1 .. GroupSize
        /\ arg[1] = catalog.maxFileId
    BY <1>0, <1>3 DEF PushGroupLeaf, PhaseInv
  <2>2. arg = <<arg[1], arg[2]>> /\ arg \in Leaves /\ arg[1] # 0
    BY <1>0, <1>f, <2>1, LeafParts DEF DurableTypeOK, MapInv
  <2>3. sz' = sz + 1 /\ cells'[sz + 1] = arg /\ \A i \in 1 .. sz : cells'[i] = cells[i]
    BY <1>0, <1>3, <2>2, PushEffect DEF PushGroupLeaf
  <2>4. \A i \in 1 .. (sz + 1) : i \in 1 .. sz \/ i = sz + 1
    BY <1>f
  <2> QED BY <1>3, <2>2, <2>3, <2>4 DEF PushGroupLeaf, MapInv
<1>4. CASE CountGroup
  <2>1. catalog'.maxFileId = catalog.maxFileId
    <3>1. catalog.freeNum + GroupSize \in Nat
      BY <1>f
    <3> QED BY <1>f, <1>4, <3>1, StoreEffect DEF CountGroup
  <2> QED BY <1>4, <2>1 DEF CountGroup, MapInv
<1>5. CASE NameGroup
  <2>1. catalog'.maxFileId = catalog.maxFileId + 1
    <3>1. catalog.maxFileId + 1 \in 0 .. (MaxFiles + 1)
      BY <1>0, <1>f, <1>5 DEF NameGroup, PhaseInv, Files
    <3> QED BY <1>f, <1>5, <3>1, StoreEffect DEF NameGroup
  <2>2. ASSUME NEW f \in Files, 1 <= f, f < catalog'.maxFileId PROVE f \in mapped'
    <3>1. f < catalog.maxFileId \/ f = catalog.maxFileId
      BY <1>f, <2>1, <2>2 DEF Files
    <3> QED BY <1>5, <2>2, <3>1 DEF NameGroup, MapInv
  <2>3. catalog'.maxFileId >= 1
    BY <1>f, <2>1
  <2> QED BY <1>5, <2>2, <2>3 DEF NameGroup, MapInv
<1>6. CASE Pop
  <2>1. catalog.freeNum > 0 /\ catalog.freeNum <= sz
    BY <1>0, <1>6 DEF Pop, PhaseInv, CountCovered
  <2>2. catalog'.maxFileId = catalog.maxFileId
    <3>1. catalog.freeNum - 1 \in Nat
      BY <1>f, <2>1
    <3> QED BY <1>f, <1>6, <3>1, StoreEffect DEF Pop
  <2>3. sz \in 1 .. sz /\ \A i \in 1 .. (sz - 1) : i \in 1 .. sz
    BY <1>f, <2>1
  <2> QED BY <1>6, <2>2, <2>3 DEF Pop, MapInv
<1>7. CASE CountUsed \/ MarkUsed \/ MarkFree
  BY <1>7 DEF CountUsed, MarkUsed, MarkFree, MapInv
<1>8. CASE SetStart
  <2>1. arg \in Leaves
    BY <1>0, <1>8 DEF SetStart, PhaseInv
  <2>2. catalog'.maxFileId = catalog.maxFileId
    <3>1. CASE UNCHANGED catalog
      BY <3>1
    <3>2. CASE catalog' = [catalog EXCEPT !.startLeaf = arg]
      BY <1>f, <2>1, <3>2, StoreEffect
    <3> QED BY <1>8, <3>1, <3>2 DEF SetStart
  <2> QED BY <1>8, <2>2 DEF SetStart, MapInv
<1>9. CASE ReturnLeaf
  BY <1>9 DEF ReturnLeaf, MapInv
<1>10. CASE \E p \in owned : CallFreeLeaf(p)
  BY <1>10 DEF CallFreeLeaf, MapInv
<1>11. CASE PushFreed
  <2>1. arg \in Leaves /\ arg[1] # 0
    BY <1>0, <1>11 DEF PushFreed, PhaseInv, MapInv
  <2>2. sz' = sz + 1 /\ cells'[sz + 1] = arg /\ \A i \in 1 .. sz : cells'[i] = cells[i]
    BY <1>0, <1>11, <2>1, PushEffect DEF PushFreed
  <2>3. \A i \in 1 .. (sz + 1) : i \in 1 .. sz \/ i = sz + 1
    BY <1>f
  <2> QED BY <1>11, <2>1, <2>2, <2>3 DEF PushFreed, MapInv
<1>16. CASE CountFreed \/ RestoreCount
  BY <1>16, RecountEffect DEF MapInv
<1>12. ASSUME NEW p \in owned \cup {NoLeaf}, CallSetStart(p) PROVE MapInv'
  <2>1. catalog'.maxFileId = catalog.maxFileId
    BY <1>f, <1>12, StoreEffect DEF CallSetStart
  <2> QED BY <1>12, <2>1 DEF CallSetStart, MapInv
<1>13. CASE FlushCatalog \/ Evict
  BY <1>13 DEF FlushCatalog, Evict, MapInv
<1>14. CASE Restart \/ Crash
  <2>1. Recover
    BY <1>14, Zenon DEF Restart, Crash
  <2>2. onDisk.maxFileId >= 1
    <3>1. CASE Restart
      BY <1>0, <3>1 DEF Restart, DiskInv, MapInv
    <3>2. CASE Crash
      <4>1. onDisk.maxFileId # 0
        BY <3>2, Zenon DEF Crash
      <4> QED BY <1>f, <4>1
    <3> QED BY <1>14, <3>1, <3>2
  <2>3. /\ catalog' = onDisk /\ mapped' = Named(onDisk) /\ pc' = "idle"
        /\ sz' = onDisk.freeNum
        /\ \A p \in owned' : p \in owned \/ p[1] # 0
    BY <2>1 DEF Recover, IsNull
  <2>4. \A i \in 1 .. onDisk.freeNum : cells'[i] = cells[i] /\ cells[i][1] # 0
    <3>1. ASSUME NEW i \in 1 .. onDisk.freeNum PROVE cells[i][1] # 0
      <4>1. CASE i \in 1 .. sz
        BY <4>1 DEF MapInv
      <4>2. CASE i \notin 1 .. sz
        <5>1. InHand /\ i = sz + 1
          BY <1>0, <1>f, <4>2 DEF CountCovered, DiskInv, PhaseInv
        <5> QED BY <1>0, <5>1 DEF PhaseInv, MapInv
      <4> QED BY <4>1, <4>2
    <3> QED BY <2>1, <3>1, RecoverEffect
  <2> QED BY <2>2, <2>3, <2>4 DEF Named, MapInv
<1>15. CASE UNCHANGED durableVars
  BY <1>15 DEF durableVars, MapInv
<1> QED BY <1>1, <1>2, <1>3, <1>4, <1>5, <1>6, <1>7, <1>8, <1>9, <1>10, <1>11,
           <1>12, <1>13, <1>14, <1>15, <1>16 DEF DurableNext

\* Nothing is named in files of zeros.
LEMMA MapInit == DurableInit => MapInv
<1> SUFFICES ASSUME DurableInit PROVE MapInv
  OBVIOUS
<1>1. \A f \in Files : ~(1 <= f /\ f < 0)
  BY DurableAssumption DEF DurableAssumption, Files
<1> QED BY <1>1 DEF DurableInit, MapInv, InHand, Leaving

\* Also after a crash has torn the catalog: every file below the next one to be
\* made, but 0, is mapped, no other than those and the next is, and the stack of
\* this process and of one that starts now has leaves of none beyond.
FileInv ==
  /\ \A f \in Files : 1 <= f /\ f < catalog.maxFileId => f \in mapped
  /\ pc = "name" => catalog.maxFileId \in mapped
  /\ \A f \in mapped : f <= catalog.maxFileId
  /\ \A i \in 1 .. sz : cells[i][1] <= catalog.maxFileId
  /\ \A i \in 1 .. onDisk.freeNum : cells[i][1] <= onDisk.maxFileId
  /\ Leaving => arg[1] <= catalog.maxFileId

LEMMA FileInit == DurableInit => FileInv
<1> SUFFICES ASSUME DurableInit PROVE FileInv
  OBVIOUS
<1>1. \A f \in Files : ~(1 <= f /\ f < 0)
  BY DurableAssumption DEF DurableAssumption, Files
<1> QED BY <1>1 DEF DurableInit, FileInv, Leaving

\* No crash is an exception: what is flushed with the counts, and what is lost,
\* is of the files below the next one or of that one.
LEMMA FileStep ==
  ASSUME CoverInv, CoverInv', FileInv, [DurableNext]_durableVars
  PROVE  FileInv'
<1> USE DEF Step, Store, stackVars, groupVars, historyVars, InHand, Leaving
<1>0. /\ DurableTypeOK /\ PhaseInv /\ DiskInv /\ CountCovered
  BY DEF CoverInv
<1>f. /\ catalog.maxFileId \in Nat /\ onDisk.maxFileId \in Nat
      /\ catalog.freeNum \in Nat /\ onDisk.freeNum \in Nat
      /\ sz \in Nat /\ Len(cells) \in Nat /\ sz <= Len(cells)
      /\ catalog.freeNum <= sz /\ onDisk.freeNum <= Len(cells)
      /\ MaxFiles \in Nat /\ GroupSize \in Nat \ {0} /\ catalog \in Catalogs
      /\ mapped \subseteq Files
      /\ \A i \in 1 .. Len(cells) : cells[i][1] \in Nat
  <2>1. \A p \in Leaves : p[1] \in Nat
    BY LeafParts, DurableAssumption DEF Files, DurableAssumption
  <2> QED BY <1>0, <2>1, Fields DEF DurableTypeOK, CountCovered
<1>1. ASSUME UNCHANGED <<onDisk, cells, mapped>>, sz' <= sz, sz' \in Nat,
             catalog'.maxFileId = catalog.maxFileId, pc' # "name", ~Leaving'
      PROVE  FileInv'
  BY <1>f, <1>1 DEF FileInv
<1>2. CASE InitCatalog
  <2>1. catalog'.maxFileId = 1 /\ catalog.maxFileId = 0
    <3>1. 1 \in 0 .. (MaxFiles + 1)
      BY <1>f
    <3> QED BY <1>0, <1>f, <1>2, <3>1, StoreEffect DEF InitCatalog, DiskInv
  <2>2. \A f \in Files : ~(1 <= f /\ f < 1)
    BY <1>f DEF Files
  <2>3. \A i \in 1 .. sz : i \in 1 .. Len(cells)
    BY <1>f
  <2>4. \A f \in mapped : f \in Nat
    BY <1>f DEF Files
  <2>5. UNCHANGED <<onDisk, cells, sz, mapped>> /\ pc' = "flushNew"
    BY <1>2 DEF InitCatalog
  <2>6. \A i \in 1 .. sz : cells[i][1] <= 1
    BY <1>f, <2>1, <2>3 DEF FileInv
  <2>7. \A f \in mapped : f <= 1
    BY <2>1, <2>4 DEF FileInv
  <2> QED BY <2>1, <2>2, <2>5, <2>6, <2>7 DEF FileInv
<1>3. CASE CallGetLeaf
  BY <1>1, <1>f, <1>3 DEF CallGetLeaf, BeginGroup
<1>4. CASE PushGroupLeaf \/ PushFreed
  <2>1. arg \in Leaves /\ arg[1] <= catalog.maxFileId /\ onDisk = catalog
    <3>1. CASE PushGroupLeaf
      <4>1. /\ pc = "push" /\ arg[1] \in Files /\ arg[2] \in 1 .. GroupSize
            /\ arg[1] = catalog.maxFileId /\ arg = <<arg[1], arg[2]>>
        BY <1>0, <3>1 DEF PushGroupLeaf, PhaseInv, DurableTypeOK
      <4>2. arg \in Leaves
        BY <4>1, LeafParts
      <4> QED BY <1>0, <1>f, <4>1, <4>2 DEF DiskInv
    <3>2. CASE PushFreed
      BY <1>0, <3>2 DEF PushFreed, PhaseInv, DiskInv, FileInv
    <3> QED BY <1>4, <3>1, <3>2
  <2>2. sz' = sz + 1 /\ cells'[sz + 1] = arg /\ \A i \in 1 .. sz : cells'[i] = cells[i]
    BY <1>0, <1>4, <2>1, PushEffect DEF PushGroupLeaf, PushFreed
  <2>3. /\ UNCHANGED <<catalog, onDisk, mapped>>
        /\ pc' \in {"push", "count", "countFreed"}
    BY <1>4 DEF PushGroupLeaf, PushFreed
  <2>4. \A i \in 1 .. (sz + 1) : i \in 1 .. sz \/ i = sz + 1
    BY <1>f
  <2>5. \A i \in 1 .. onDisk.freeNum : i \in 1 .. sz
    BY <1>f, <2>1
  <2> QED BY <2>1, <2>2, <2>3, <2>4, <2>5 DEF FileInv
<1>5. CASE CountGroup
  <2>1. catalog'.maxFileId = catalog.maxFileId
    <3>1. catalog.freeNum + GroupSize \in Nat
      BY <1>f
    <3> QED BY <1>f, <1>5, <3>1, StoreEffect DEF CountGroup
  <2>2. /\ UNCHANGED <<onDisk, cells, sz>> /\ pc' = "name"
        /\ mapped' = mapped \cup {catalog.maxFileId}
    BY <1>5 DEF CountGroup
  <2> QED BY <1>f, <2>1, <2>2 DEF FileInv
<1>6. CASE NameGroup
  <2>1. catalog'.maxFileId = catalog.maxFileId + 1
    <3>1. catalog.maxFileId + 1 \in 0 .. (MaxFiles + 1)
      BY <1>0, <1>f, <1>6 DEF NameGroup, PhaseInv, Files
    <3> QED BY <1>f, <1>6, <3>1, StoreEffect DEF NameGroup
  <2>2. UNCHANGED <<onDisk, cells, sz, mapped>> /\ pc = "name" /\ pc' = "flushGroup"
    BY <1>6 DEF NameGroup
  <2>3. ASSUME NEW f \in Files, 1 <= f, f < catalog'.maxFileId PROVE f \in mapped
    <3>1. f < catalog.maxFileId \/ f = catalog.maxFileId
      BY <1>f, <2>1, <2>3 DEF Files
    <3> QED BY <2>2, <2>3, <3>1 DEF FileInv
  <2>4. \A i \in 1 .. sz : cells[i][1] <= catalog'.maxFileId
    <3>1. \A i \in 1 .. sz : cells[i][1] \in Nat /\ cells[i][1] <= catalog.maxFileId
      BY <1>f DEF FileInv
    <3> QED BY <1>f, <2>1, <3>1
  <2>5. \A f \in mapped : f <= catalog'.maxFileId
    <3>1. \A f \in mapped : f \in Nat
      BY <1>f DEF Files
    <3>2. \A f \in mapped : f <= catalog.maxFileId
      BY DEF FileInv
    <3> QED BY <1>f, <2>1, <3>1, <3>2
  <2>6. onDisk'.freeNum = onDisk.freeNum /\ onDisk'.maxFileId = onDisk.maxFileId
    BY <2>2
  <2> QED BY <2>2, <2>3, <2>4, <2>5, <2>6 DEF FileInv
<1>7. CASE Pop
  <2>1. catalog'.maxFileId = catalog.maxFileId /\ sz' \in Nat /\ sz' <= sz
    <3>1. catalog.freeNum - 1 \in Nat /\ sz - 1 \in Nat
      BY <1>0, <1>f, <1>7 DEF Pop, PhaseInv
    <3> QED BY <1>f, <1>7, <3>1, StoreEffect DEF Pop
  <2> QED BY <1>1, <1>7, <2>1 DEF Pop
<1>8. CASE CountUsed \/ MarkUsed \/ MarkFree
  BY <1>8 DEF CountUsed, MarkUsed, MarkFree, FileInv
<1>9. CASE SetStart
  <2>1. catalog'.maxFileId = catalog.maxFileId
    BY <1>f, <1>9 DEF SetStart, Catalogs
  <2> QED BY <1>1, <1>f, <1>9, <2>1 DEF SetStart
<1>10. CASE ReturnLeaf \/ FlushCatalog \/ Evict
  <2>1. /\ onDisk' = catalog /\ UNCHANGED <<catalog, cells, sz, mapped, arg>>
        /\ Leaving' => Leaving
        /\ pc' = "name" => pc = "name"
    BY <1>10 DEF ReturnLeaf, FlushCatalog, Evict
  <2>2. \A i \in 1 .. catalog.freeNum : i \in 1 .. sz
    BY <1>f
  <2> QED BY <2>1, <2>2 DEF FileInv
<1>11. ASSUME NEW p \in owned, CallFreeLeaf(p) PROVE FileInv'
  BY <1>11 DEF CallFreeLeaf, FileInv
<1>12. CASE CountFreed \/ RestoreCount
  BY <1>12, RecountEffect DEF FileInv
<1>13. ASSUME NEW p \in owned \cup {NoLeaf}, CallSetStart(p) PROVE FileInv'
  <2>1. catalog'.maxFileId = catalog.maxFileId
    BY <1>f, <1>13 DEF CallSetStart, Catalogs
  <2> QED BY <1>1, <1>f, <1>13, <2>1 DEF CallSetStart
<1>14. CASE Restart \/ Crash
  <2>1. Recover
    BY <1>14, Zenon DEF Restart, Crash
  <2>2. \A i \in 1 .. onDisk.freeNum : cells'[i] = cells[i]
    BY <2>1, RecoverEffect
  <2>3. /\ catalog' = onDisk /\ onDisk' = onDisk /\ sz' = onDisk.freeNum /\ pc' = "idle"
        /\ mapped' = Named(onDisk)
    BY <2>1 DEF Recover
  <2>4. \A f \in Named(onDisk) : f <= onDisk.maxFileId
    BY <1>f DEF Named, Files
  <2> QED BY <2>2, <2>3, <2>4 DEF FileInv, Named
<1>15. CASE UNCHANGED durableVars
  BY <1>15 DEF durableVars, FileInv
<1> QED BY <1>2, <1>3, <1>4, <1>5, <1>6, <1>7, <1>8, <1>9, <1>10, <1>11, <1>12,
           <1>13, <1>14, <1>15 DEF DurableNext

\* getLeaf pops leaves of mapped files only, unless a crash has torn the catalog, in
\* newLeafGroup or before the first flush of all: even then only file 0 and the
\* next file to be made are not mapped, whatever else crashes after it.
THEOREM PopsAlwaysMapped == DurableSpec => []PopsMapped
<1> DEFINE I == CrashInv /\ (~torn => MapInv) /\ FileInv
<1>1. DurableInit => I
  BY InitCrash, MapInit, FileInit
<1>2. I /\ [DurableNext]_durableVars => I'
  BY CoverStep, PlaceStep, MapStep, FileStep, TornStays DEF CrashInv
<1>3. I => PopsMapped
  <2> SUFFICES ASSUME I, pc = "pop"
               PROVE  \/ cells[sz][1] \in mapped
                      \/ torn /\ cells[sz][1] \in {0, catalog.maxFileId}
    BY DEF PopsMapped
  <2>1. sz \in 1 .. sz /\ cells[sz] \in Leaves
    <3>1. sz \in Nat /\ catalog.freeNum \in Nat /\ catalog.freeNum > 0 /\ catalog.freeNum <= sz
      BY Fields DEF CrashInv, CoverInv, PhaseInv, CountCovered
    <3> QED BY <3>1, Fields DEF CrashInv, CoverInv
  <2>2. cells[sz][1] \in Files /\ cells[sz][1] \in Nat /\ catalog.maxFileId \in Nat
    <3>1. cells[sz][1] \in Files
      BY <2>1, LeafParts
    <3>2. \A f \in Files : f \in Nat
      BY DurableAssumption DEF Files, DurableAssumption
    <3>3. catalog.maxFileId \in Nat
      BY Fields DEF CrashInv, CoverInv
    <3> QED BY <3>1, <3>2, <3>3
  <2>3. CASE ~torn
    <3>1. cells[sz][1] # 0 /\ cells[sz][1] < catalog.maxFileId
      BY <2>1, <2>3 DEF CrashInv, PlaceInv, Known, MapInv
    <3> QED BY <2>2, <2>3, <3>1 DEF MapInv
  <2>4. CASE torn
    <3>1. cells[sz][1] <= catalog.maxFileId
      BY <2>1 DEF FileInv
    <3> QED BY <2>2, <2>4, <3>1 DEF FileInv
  <2>5. torn \/ ~torn
    OBVIOUS
  <2> QED BY <2>3, <2>4, <2>5
<1> QED BY <1>1, <1>2, <1>3, PTL DEF DurableSpec
-----------------------------------------------------------------------------
InUse(f) == {p \in used : p[1] = f}

\* Between its two stores getLeaf counts a leaf more than it has marked.
CountInv ==
  /\ IsFiniteSet(used) /\ UsedNumCovers
  /\ pc = "mark" => Cardinality(InUse(arg[1])) + 1 <= usedNum[arg[1]]

\* A leaf is counted before it is marked, and never uncounted.
LEMMA CountStep ==
  ASSUME CoverInv, CountInv, [DurableNext]_durableVars
  PROVE  CountInv'
<1> USE DEF Step, Store, stackVars, groupVars, historyVars
<1>0. /\ DurableTypeOK /\ PhaseInv /\ IsFiniteSet(used) /\ usedNum \in [Files -> Nat]
      /\ \A f \in Files : Cardinality(InUse(f)) <= usedNum[f]
  BY DEF CoverInv, DurableTypeOK, CountInv, UsedNumCovers, InUse
<1>c. \A f \in Files : IsFiniteSet(InUse(f)) /\ Cardinality(InUse(f)) \in Nat
  <2>1. ASSUME NEW f \in Files PROVE IsFiniteSet(InUse(f)) /\ Cardinality(InUse(f)) \in Nat
    <3>1. InUse(f) \subseteq used
      BY DEF InUse
    <3> QED BY <1>0, <3>1, FS_Subset, FS_CardinalityType
  <2> QED BY <2>1
<1>1. CASE CountUsed
  <2>1. arg \in Leaves /\ arg[1] \in Files
    BY <1>0, <1>1, LeafParts DEF CountUsed, PhaseInv, InHand
  <2>2. /\ UNCHANGED <<used, arg>> /\ usedNum' = [usedNum EXCEPT ![arg[1]] = @ + 1]
        /\ \A f \in Files : InUse(f)' = InUse(f)
    BY <1>1 DEF CountUsed, InUse
  <2>3. \A f \in Files : Cardinality(InUse(f)) <= usedNum'[f]
    BY <1>0, <1>c, <2>1, <2>2
  <2>4. Cardinality(InUse(arg[1])) + 1 <= usedNum'[arg[1]]
    BY <1>0, <1>c, <2>1, <2>2
  <2>5. InUse(arg[1])' = InUse(arg[1])
    BY <2>2 DEF InUse
  <2> QED BY <1>0, <2>2, <2>3, <2>4, <2>5 DEF CountInv, UsedNumCovers, InUse
<1>2. CASE MarkUsed
  <2>1. arg \in Leaves /\ arg[1] \in Files
    BY <1>0, <1>2, LeafParts DEF MarkUsed, PhaseInv, InHand
  <2>2. used' = used \cup {arg} /\ UNCHANGED usedNum /\ pc' = "start"
    BY <1>2 DEF MarkUsed
  <2>3. IsFiniteSet(used')
    BY <1>0, <2>2, FS_AddElement
  <2>4. ASSUME NEW f \in Files PROVE Cardinality(InUse(f)') <= usedNum[f]
    <3>1. CASE f = arg[1]
      <4>1. InUse(f)' = InUse(f) \cup {arg}
        BY <2>2, <3>1 DEF InUse
      <4>2. Cardinality(InUse(f) \cup {arg}) <= Cardinality(InUse(f)) + 1
        <5>1. IsFiniteSet(InUse(f)) /\ Cardinality(InUse(f)) \in Nat
          BY <1>c
        <5>2. \/ Cardinality(InUse(f) \cup {arg}) = Cardinality(InUse(f))
              \/ Cardinality(InUse(f) \cup {arg}) = Cardinality(InUse(f)) + 1
          BY <5>1, FS_AddElement, Zenon
        <5> QED BY <5>1, <5>2
      <4>3. Cardinality(InUse(f)) + 1 <= usedNum[f] /\ usedNum[f] \in Nat
        BY <1>0, <1>2, <3>1 DEF CountInv, MarkUsed
      <4>4. Cardinality(InUse(f) \cup {arg}) \in Nat
        BY <1>c, FS_AddElement, FS_CardinalityType
      <4> QED BY <1>c, <4>1, <4>2, <4>3, <4>4
    <3>2. CASE f # arg[1]
      <4>1. InUse(f)' = InUse(f)
        BY <2>2, <3>2 DEF InUse
      <4> QED BY <1>0, <4>1
    <3> QED BY <3>1, <3>2
  <2> QED BY <2>2, <2>3, <2>4 DEF CountInv, UsedNumCovers, InUse
<1>3. CASE MarkFree
  <2>1. used' = used \ {arg} /\ UNCHANGED usedNum /\ pc' = "pushFreed"
    BY <1>3 DEF MarkFree
  <2>2. IsFiniteSet(used')
    BY <1>0, <2>1, FS_RemoveElement
  <2>3. ASSUME NEW f \in Files PROVE Cardinality(InUse(f)') <= usedNum[f]
    <3>1. InUse(f)' \subseteq InUse(f)
      BY <2>1 DEF InUse
    <3>2. /\ Cardinality(InUse(f)') <= Cardinality(InUse(f))
          /\ Cardinality(InUse(f)') \in Nat
      BY <1>c, <3>1, FS_Subset, FS_CardinalityType
    <3> QED BY <1>0, <1>c, <3>2
  <2> QED BY <2>1, <2>2, <2>3 DEF CountInv, UsedNumCovers, InUse
<1>4. CASE Evict \/ UNCHANGED durableVars
  <2>1. UNCHANGED <<used, usedNum, pc, arg>>
    BY <1>4 DEF Evict, durableVars
  <2> QED BY <2>1 DEF CountInv, UsedNumCovers, InUse
<1>5. CASE \/ InitCatalog \/ CallGetLeaf \/ PushGroupLeaf \/ CountGroup \/ NameGroup
           \/ Pop \/ SetStart \/ ReturnLeaf \/ PushFreed \/ CountFreed \/ RestoreCount
           \/ FlushCatalog \/ \E p \in owned : CallFreeLeaf(p)
           \/ \E p \in owned \cup {NoLeaf} : CallSetStart(p)
           \/ Restart \/ Crash
  <2>1. UNCHANGED <<used, usedNum>> /\ pc' # "mark"
    BY <1>5 DEF InitCatalog, CallGetLeaf, BeginGroup, PushGroupLeaf, CountGroup, NameGroup,
                Pop, SetStart, ReturnLeaf, PushFreed, CountFreed, RestoreCount,
                FlushCatalog, CallFreeLeaf, CallSetStart, Restart, Crash, Recover
  <2> QED BY <2>1 DEF CountInv, UsedNumCovers, InUse
<1> QED BY <1>1, <1>2, <1>3, <1>4, <1>5 DEF DurableNext

\* A group counts at least its leaves in use, at every point and whatever crashes.
THEOREM UsedNumAlwaysCovers == DurableSpec => []UsedNumCovers
<1>1. DurableInit => CountInv
  <2> SUFFICES ASSUME DurableInit PROVE CountInv
    OBVIOUS
  <2>1. used = {} /\ usedNum = [f \in Files |-> 0] /\ pc = "create"
    BY DEF DurableInit
  <2>2. IsFiniteSet(used) /\ \A f \in Files : Cardinality({p \in used : p[1] = f}) = 0
    <3>1. \A f \in Files : {p \in used : p[1] = f} = {}
      BY <2>1
    <3> QED BY <2>1, <3>1, FS_EmptySet
  <2> QED BY <2>1, <2>2 DEF CountInv, UsedNumCovers
<1>2. CoverInv /\ CountInv /\ [DurableNext]_durableVars => CountInv'
  BY CountStep
<1>3. CrashInv => CoverInv
  BY DEF CrashInv
<1>4. CountInv => UsedNumCovers
  BY DEF CountInv
<1> QED BY <1>1, <1>2, <1>3, <1>4, CrashSound, PTL DEF DurableSpec
-----------------------------------------------------------------------------
\* The leaves of the files up to m, and how many they are.
FilesBelow(m) == {f \in Files : 1 <= f /\ f < m}
Cap(m) == Cardinality(FilesBelow(m) \X (1 .. GroupSize))

\* A crash now would keep one of newLeafGroup's two counts and lose the other.
Tearing ==
  \/ pc = "name" /\ onDisk = catalog
  \/ /\ pc = "flushGroup" /\ onDisk.freeNum = catalog.freeNum
     /\ onDisk.maxFileId < catalog.maxFileId

\* The leaves there are, of the files named and of the one that is about to be,
\* are owned, counted free, lost, or the one in hand.
LeakInv ==
  /\ IsFiniteSet(owned)
  /\ Cap(catalog.maxFileId)
       + (IF pc = "name" THEN GroupSize ELSE IF pc = "restoreCount" THEN 1 ELSE 0) <=
       Cardinality(owned) + catalog.freeNum + freed + crashes + (IF InHand THEN 1 ELSE 0)
  /\ ~Tearing =>
       Cap(onDisk.maxFileId) <=
         Cardinality(owned) + onDisk.freeNum + freed + crashes + (IF pc = "idle" THEN 0 ELSE 1)

\* A file more is GroupSize leaves more.
LEMMA CapFacts ==
  /\ \A m \in 0 .. (MaxFiles + 1) :
       /\ IsFiniteSet(FilesBelow(m) \X (1 .. GroupSize))
       /\ Cap(m) \in Nat
  /\ Cap(0) = 0 /\ Cap(1) = 0
  /\ \A m \in Files \ {0} : Cap(m + 1) = Cap(m) + GroupSize
<1>1. MaxFiles \in Nat /\ GroupSize \in Nat \ {0}
  BY DurableAssumption DEF DurableAssumption
<1>2. IsFiniteSet(Files) /\ IsFiniteSet(1 .. GroupSize) /\ Cardinality(1 .. GroupSize) = GroupSize
  BY <1>1, FS_Interval DEF Files
<1>3. ASSUME NEW m
      PROVE  /\ IsFiniteSet(FilesBelow(m) \X (1 .. GroupSize))
             /\ Cap(m) \in Nat
  <2>1. FilesBelow(m) \subseteq Files
    BY DEF FilesBelow
  <2>2. IsFiniteSet(FilesBelow(m))
    BY <1>2, <2>1, FS_Subset
  <2>3. IsFiniteSet(FilesBelow(m) \X (1 .. GroupSize))
    BY <1>2, <2>2, FS_Product
  <2> QED BY <2>3, FS_CardinalityType DEF Cap
<1>4. ASSUME NEW m \in {0, 1} PROVE Cap(m) = 0
  <2>1. FilesBelow(m) = {}
    BY <1>1 DEF FilesBelow, Files
  <2>2. FilesBelow(m) \X (1 .. GroupSize) = {}
    BY <2>1
  <2> QED BY <2>2, FS_EmptySet DEF Cap
<1>5. ASSUME NEW m \in Files \ {0} PROVE Cap(m + 1) = Cap(m) + GroupSize
  <2> DEFINE A == FilesBelow(m) \X (1 .. GroupSize)
             B == {m} \X (1 .. GroupSize)
  <2>1. FilesBelow(m + 1) = FilesBelow(m) \cup {m} /\ m \notin FilesBelow(m)
    BY <1>1, <1>5 DEF FilesBelow, Files
  <2>2. FilesBelow(m + 1) \X (1 .. GroupSize) = A \cup B /\ A \cap B = {}
    BY <2>1
  <2>3. IsFiniteSet(B) /\ Cardinality(B) = GroupSize
    <3>1. IsFiniteSet({m}) /\ Cardinality({m}) = 1
      BY FS_Singleton
    <3>2. IsFiniteSet(B) /\ Cardinality(B) = 1 * GroupSize
      BY <1>2, <3>1, FS_Product
    <3> QED BY <1>1, <3>2
  <2>4. IsFiniteSet(A) /\ Cardinality(A) \in Nat
    BY <1>3 DEF Cap
  <2> HIDE DEF A, B
  <2>5. Cardinality(A \cup B) = Cardinality(A) + Cardinality(B) - Cardinality(A \cap B)
    BY <2>3, <2>4, FS_Union
  <2>6. Cardinality(A \cap B) = 0
    BY <2>2, FS_EmptySet
  <2>7. Cardinality(A \cup B) = Cardinality(A) + GroupSize
    BY <1>1, <2>3, <2>4, <2>5, <2>6
  <2> QED BY <2>2, <2>7 DEF Cap, A
<1> QED BY <1>3, <1>4, <1>5

\* What a step takes from the leaves owned or counted free, it loses or has in
\* hand.
LEMMA LeakStep ==
  ASSUME CoverInv, CoverInv', PlaceInv, MapInv, LeakInv, ~torn', [DurableNext]_durableVars
  PROVE  LeakInv'
<1> USE DEF Step, Store, stackVars, groupVars, historyVars, InHand
<1>0. /\ DurableTypeOK /\ DurableTypeOK' /\ PhaseInv /\ DiskInv /\ CountCovered
      /\ IsFiniteSet(owned)
  BY DEF CoverInv, LeakInv
<1>f. /\ catalog.maxFileId \in Nat /\ onDisk.maxFileId \in Nat
      /\ catalog.freeNum \in Nat /\ onDisk.freeNum \in Nat
      /\ freed \in Nat /\ crashes \in Nat /\ freed' \in Nat /\ crashes' \in Nat
      /\ MaxFiles \in Nat /\ GroupSize \in Nat \ {0} /\ catalog \in Catalogs
      /\ Cardinality(owned) \in Nat
      /\ Cap(catalog.maxFileId) \in Nat /\ Cap(onDisk.maxFileId) \in Nat
  <2>1. freed \in Nat /\ crashes \in Nat /\ freed' \in Nat /\ crashes' \in Nat
    BY <1>0, DurableAssumption DEF DurableTypeOK, DurableAssumption
  <2>2. Cardinality(owned) \in Nat
    BY <1>0, FS_CardinalityType
  <2>3. Cap(catalog.maxFileId) \in Nat /\ Cap(onDisk.maxFileId) \in Nat
    BY <1>0, Fields, CapFacts
  <2> QED BY <1>0, <2>1, <2>2, <2>3, Fields DEF DurableTypeOK
<1>1. CASE InitCatalog
  <2>1. catalog'.maxFileId = 1 /\ catalog'.freeNum = catalog.freeNum
    <3>1. 1 \in 0 .. (MaxFiles + 1)
      BY <1>f
    <3> QED BY <1>f, <1>1, <3>1, StoreEffect DEF InitCatalog
  <2>2. UNCHANGED <<onDisk, owned, freed, crashes>> /\ pc = "create" /\ pc' = "flushNew"
    BY <1>1 DEF InitCatalog
  <2>3. Cap(catalog'.maxFileId) = 0
    BY <2>1, CapFacts
  <2> QED BY <1>0, <1>f, <2>1, <2>2, <2>3 DEF LeakInv, Tearing
<1>2. CASE CallGetLeaf
  BY <1>f, <1>2 DEF CallGetLeaf, BeginGroup, LeakInv, Tearing
<1>3. CASE PushGroupLeaf
  BY <1>f, <1>3 DEF PushGroupLeaf, LeakInv, Tearing
<1>4. CASE CountGroup
  <2>1. /\ catalog'.maxFileId = catalog.maxFileId
        /\ catalog'.freeNum = catalog.freeNum + GroupSize
    <3>1. catalog.freeNum + GroupSize \in Nat
      BY <1>f
    <3> QED BY <1>f, <1>4, <3>1, StoreEffect DEF CountGroup
  <2>2. UNCHANGED <<onDisk, owned, freed, crashes>> /\ pc = "count" /\ pc' = "name"
    BY <1>4 DEF CountGroup
  <2> QED BY <1>f, <2>1, <2>2 DEF LeakInv, Tearing
<1>5. CASE NameGroup
  <2>1. /\ catalog'.maxFileId = catalog.maxFileId + 1 /\ catalog'.freeNum = catalog.freeNum
        /\ catalog.maxFileId \in Files \ {0}
    <3>1. catalog.maxFileId \in Files \ {0} /\ catalog.maxFileId + 1 \in 0 .. (MaxFiles + 1)
      BY <1>0, <1>f, <1>5 DEF NameGroup, PhaseInv, Files, MapInv
    <3> QED BY <1>f, <1>5, <3>1, StoreEffect DEF NameGroup
  <2>2. UNCHANGED <<onDisk, owned, freed, crashes>> /\ pc = "name" /\ pc' = "flushGroup"
    BY <1>5 DEF NameGroup
  <2>3. Cap(catalog'.maxFileId) = Cap(catalog.maxFileId) + GroupSize
    BY <2>1, CapFacts
  <2>4. Tearing => Tearing'
    BY <1>f, <2>1, <2>2 DEF Tearing
  <2> QED BY <1>f, <2>1, <2>2, <2>3, <2>4 DEF LeakInv
<1>6. CASE Pop
  <2>1. catalog'.maxFileId = catalog.maxFileId /\ catalog'.freeNum = catalog.freeNum - 1
    <3>1. catalog.freeNum - 1 \in Nat
      BY <1>0, <1>f, <1>6 DEF Pop, PhaseInv
    <3> QED BY <1>f, <1>6, <3>1, StoreEffect DEF Pop
  <2>2. UNCHANGED <<onDisk, owned, freed, crashes>> /\ pc = "pop" /\ pc' = "countUsed"
    BY <1>6 DEF Pop
  <2> QED BY <1>f, <2>1, <2>2 DEF LeakInv, Tearing
<1>7. CASE CountUsed \/ MarkUsed \/ MarkFree \/ PushFreed
  BY <1>f, <1>7 DEF CountUsed, MarkUsed, MarkFree, PushFreed, LeakInv, Tearing
<1>15. CASE CountFreed \/ RestoreCount
  BY <1>0, <1>f, <1>15, RecountEffect DEF LeakInv, Tearing
<1>8. CASE SetStart
  <2>1. arg \in Leaves
    BY <1>0, <1>8 DEF SetStart, PhaseInv
  <2>2. catalog'.maxFileId = catalog.maxFileId /\ catalog'.freeNum = catalog.freeNum
    <3>1. CASE UNCHANGED catalog
      BY <3>1
    <3>2. CASE catalog' = [catalog EXCEPT !.startLeaf = arg]
      BY <1>f, <2>1, <3>2, StoreEffect
    <3> QED BY <1>8, <3>1, <3>2 DEF SetStart
  <2> QED BY <1>f, <1>8, <2>2 DEF SetStart, LeakInv, Tearing
<1>9. CASE ReturnLeaf
  <2>1. /\ onDisk' = catalog /\ owned' = owned \cup {arg} /\ arg \notin owned
        /\ UNCHANGED <<catalog, freed, crashes>> /\ pc = "return" /\ pc' = "idle"
    BY <1>9 DEF ReturnLeaf, PlaceInv
  <2>2. IsFiniteSet(owned') /\ Cardinality(owned') = Cardinality(owned) + 1
    BY <1>0, <2>1, FS_AddElement
  <2> QED BY <1>f, <2>1, <2>2 DEF LeakInv, Tearing
<1>10. ASSUME NEW p \in owned, CallFreeLeaf(p) PROVE LeakInv'
  <2>1. /\ owned' = owned \ {p} /\ freed' = freed + 1
        /\ UNCHANGED <<catalog, onDisk, crashes>> /\ pc = "idle" /\ pc' = "unmark"
    BY <1>10 DEF CallFreeLeaf
  <2>2. IsFiniteSet(owned') /\ Cardinality(owned') = Cardinality(owned) - 1
    BY <1>0, <2>1, FS_RemoveElement
  <2> QED BY <1>f, <2>1, <2>2 DEF LeakInv, Tearing
<1>11. ASSUME NEW p \in owned \cup {NoLeaf}, CallSetStart(p) PROVE LeakInv'
  <2>1. catalog'.maxFileId = catalog.maxFileId /\ catalog'.freeNum = catalog.freeNum
    BY <1>0, <1>f, <1>11, StoreEffect DEF CallSetStart, DurableTypeOK
  <2> QED BY <1>f, <1>11, <2>1 DEF CallSetStart, LeakInv, Tearing
<1>12. CASE FlushCatalog \/ Evict
  <2>1. /\ onDisk' = catalog /\ UNCHANGED <<catalog, owned, freed, crashes>>
        /\ InHand' <=> InHand
        /\ InHand => pc' # "idle"
        /\ pc = "name" <=> pc' = "name"
        /\ pc' = "restoreCount" => pc = "restoreCount"
        /\ pc = "name" => Tearing'
    BY <1>12 DEF FlushCatalog, Evict, Tearing
  <2>2. pc' = "idle" => ~InHand
    BY <2>1
  <2>3. CASE pc = "name"
    BY <1>0, <1>f, <2>1, <2>3 DEF LeakInv
  <2>4. CASE pc # "name"
    BY <1>0, <1>f, <2>1, <2>2, <2>4 DEF LeakInv
  <2> QED BY <2>3, <2>4
<1>13. CASE Restart \/ Crash
  <2>1. Recover
    BY <1>13, Zenon DEF Restart, Crash
  <2>2. ~Tearing /\ crashes' = crashes + (IF pc = "idle" THEN 0 ELSE 1)
    <3>1. CASE Restart
      BY <1>f, <3>1 DEF Restart, Tearing
    <3>2. CASE Crash
      <4>1. pc # "idle" /\ crashes' = crashes + 1
        BY <3>2, Zenon DEF Crash
      <4>2. ~Tearing
        BY <3>2 DEF Crash, Tearing
      <4> QED BY <4>1, <4>2
    <3> QED BY <1>13, <3>1, <3>2
  <2>3. /\ catalog' = onDisk /\ onDisk' = onDisk /\ pc' = "idle" /\ freed' = freed
        /\ owned' = owned \cup {p \in {onDisk.startLeaf} : ~IsNull(p)}
    BY <2>1 DEF Recover
  <2>4. /\ IsFiniteSet(owned') /\ Cardinality(owned') \in Nat
        /\ Cardinality(owned) <= Cardinality(owned')
    <3>1. owned' = owned \/ owned' = owned \cup {onDisk.startLeaf}
      BY <2>3
    <3>2. IsFiniteSet(owned \cup {onDisk.startLeaf})
      BY <1>0, FS_AddElement
    <3>3. IsFiniteSet(owned') /\ owned \in SUBSET owned'
      BY <1>0, <3>1, <3>2
    <3> QED BY <3>3, FS_Subset, FS_CardinalityType
  <2> QED BY <1>f, <2>2, <2>3, <2>4 DEF LeakInv
<1>14. CASE UNCHANGED durableVars
  BY <1>14 DEF durableVars, LeakInv, Tearing
<1> QED BY <1>1, <1>2, <1>3, <1>4, <1>5, <1>6, <1>7, <1>8, <1>9, <1>10, <1>11,
           <1>12, <1>13, <1>14, <1>15 DEF DurableNext

\* Between calls every leaf of a file the catalog names is owned or on the stack
\* of the next process, but for one for each freeLeaf and one for each crash.
LEMMA LeaksFollow ==
  ASSUME CoverInv, PlaceInv, MapInv, LeakInv, pc = "idle"
  PROVE  Cardinality(Existing(onDisk) \ (owned \cup Offered)) <= freed + crashes
<1> DEFINE S == Existing(onDisk)
           k == onDisk.freeNum
<1>1. /\ onDisk = catalog /\ k \in Nat /\ k <= sz /\ sz \in Nat /\ sz <= Len(cells)
      /\ \A i \in 1 .. sz : cells[i] \in Leaves
      /\ owned \subseteq Leaves /\ IsFiniteSet(owned) /\ Cardinality(owned) \in Nat
      /\ freed \in Nat /\ crashes \in Nat /\ onDisk.maxFileId \in 0 .. (MaxFiles + 1)
  <2>1. DurableTypeOK /\ onDisk = catalog /\ catalog.freeNum <= sz /\ IsFiniteSet(owned)
    BY DEF CoverInv, DiskInv, CountCovered, LeakInv
  <2>2. freed \in Nat /\ crashes \in Nat
    BY <2>1, DurableAssumption DEF DurableTypeOK, DurableAssumption
  <2> QED BY <2>1, <2>2, Fields, FS_CardinalityType
<1>2. IsFiniteSet(S) /\ Cardinality(S) = Cap(onDisk.maxFileId) /\ Cardinality(S) \in Nat
  BY <1>1, CapFacts DEF Existing, Named, Cap, FilesBelow
<1>3. ASSUME NEW p \in Leaves, p[1] < onDisk.maxFileId, p[1] # 0 PROVE p \in S
  BY <1>3, DurableAssumption DEF Existing, Named, Leaves, Files, DurableAssumption
<1>4. owned \subseteq S
  <2>1. ASSUME NEW p \in owned PROVE p[1] < onDisk.maxFileId /\ p[1] # 0
    BY <1>1, LeafParts DEF PlaceInv, Kept, MapInv
  <2> QED BY <1>1, <1>3, <2>1
<1>5. ASSUME NEW i \in 1 .. k PROVE cells[i] \in S /\ cells[i] \notin owned
  <2>1. i \in 1 .. sz
    BY <1>1
  <2> QED BY <1>1, <1>3, <2>1 DEF PlaceInv, Known, MapInv
<1>6. IsFiniteSet(Offered) /\ Cardinality(Offered) = k
  <2> DEFINE f == [i \in 1 .. k |-> cells[i]]
  <2>1. IsFiniteSet(1 .. k) /\ Cardinality(1 .. k) = k
    <3>1. k \in Int /\ 1 \in Int /\ (IF 1 > k THEN 0 ELSE k - 1 + 1) = k
      BY <1>1
    <3> HIDE DEF k
    <3>2. IsFiniteSet(1 .. k) /\ Cardinality(1 .. k) = IF 1 > k THEN 0 ELSE k - 1 + 1
      BY <3>1, FS_Interval
    <3> QED BY <3>1, <3>2
  <2>2. \A i, j \in 1 .. k : cells[i] = cells[j] => i = j
    BY OfferedClear DEF Distinct
  <2> HIDE DEF k
  <2>3. f \in Surjection(1 .. k, Offered)
    BY DEF Surjection, Offered, k
  <2>4. f \in Injection(1 .. k, Offered)
    BY <2>2 DEF Injection, IsInjective, Offered, k
  <2> HIDE DEF f
  <2> QED BY <2>1, <2>3, <2>4, FS_Surjection
<1>7. owned \cap Offered = {} /\ Offered \subseteq S
  BY <1>5 DEF Offered
<1> HIDE DEF S, k
<1>8. /\ IsFiniteSet(owned \cup Offered)
      /\ Cardinality(owned \cup Offered) = Cardinality(owned) + k
  <2>1. Cardinality(owned \cup Offered)
          = Cardinality(owned) + Cardinality(Offered) - Cardinality(owned \cap Offered)
    BY <1>1, <1>6, FS_Union
  <2>2. Cardinality(owned \cap Offered) = 0
    BY <1>7, FS_EmptySet
  <2>3. IsFiniteSet(owned \cup Offered)
    BY <1>1, <1>6, FS_Union
  <2> QED BY <1>1, <1>6, <2>1, <2>2, <2>3
<1>9. Cardinality(S \ (owned \cup Offered)) = Cardinality(S) - Cardinality(owned \cup Offered)
  <2>1. S \cap (owned \cup Offered) = owned \cup Offered
    BY <1>4, <1>7
  <2>2. Cardinality(S \ (owned \cup Offered))
          = Cardinality(S) - Cardinality(S \cap (owned \cup Offered))
    BY <1>2, FS_Difference
  <2> QED BY <2>1, <2>2
<1>10. Cap(onDisk.maxFileId) <= Cardinality(owned) + k + freed + crashes
  BY <1>1 DEF LeakInv, Tearing, k
<1> QED BY <1>1, <1>2, <1>8, <1>9, <1>10 DEF S

\* A crash costs at most one leaf, as each freeLeaf does.
THEOREM LeaksAlwaysBounded == DurableSpec => []LeaksBounded
<1> DEFINE I == CrashInv /\ (~torn => MapInv /\ LeakInv)
<1>1. DurableInit => I
  <2> SUFFICES ASSUME DurableInit PROVE MapInv /\ LeakInv
    BY InitCrash
  <2>1. MapInv
    BY MapInit
  <2>2. /\ Cap(catalog.maxFileId) = 0 /\ Cap(onDisk.maxFileId) = 0
        /\ IsFiniteSet(owned) /\ Cardinality(owned) = 0
    <3>1. catalog.maxFileId = 0 /\ onDisk = catalog /\ owned = {}
      BY DEF DurableInit
    <3> QED BY <3>1, CapFacts, FS_EmptySet
  <2>3. catalog.freeNum = 0 /\ onDisk = catalog /\ pc = "create" /\ freed = 0 /\ crashes = 0
    BY DEF DurableInit
  <2> QED BY <2>1, <2>2, <2>3 DEF LeakInv, InHand
<1>2. I /\ [DurableNext]_durableVars => I'
  BY CoverStep, PlaceStep, MapStep, LeakStep, TornStays DEF CrashInv
<1>3. I => LeaksBounded
  BY LeaksFollow DEF CrashInv, LeaksBounded
<1> QED BY <1>1, <1>2, <1>3, PTL DEF DurableSpec
-----------------------------------------------------------------------------
\* Whatever belongs to somebody, or starts the tree, is marked used.
UsedInv ==
  /\ owned \subseteq used
  /\ \A s \in {catalog.startLeaf, onDisk.startLeaf} : s = NoLeaf \/ (s \in used /\ s[1] # 0)
  /\ pc \in {"start", "flushStart", "return"} => arg \in used

\* The leaves below a height of the stack, and the first n of a group's.
Below(n) == SubSeq(cells, 1, n)
GroupPart(f, n) == [i \in 1 .. n |-> <<f, i>>]
Counts == [f \in 1 .. MaxFiles |-> usedNum[f]]

\* The stack that getLeaf pops and the number of leaves it has, before the pop:
\* the free list, or what a group was just pushed to.
Height == IF InHand THEN sz + 1 ELSE sz
Number == IF InHand THEN catalog.freeNum + 1 ELSE catalog.freeNum
FromList ==
  /\ base.freeNum > 0
  /\ catalog.maxFileId = base.maxFileId /\ Number = base.freeNum
  /\ Below(Height) = base.freeList
FromGroup ==
  /\ base.freeNum = 0 /\ base.maxFileId \in 1 .. MaxFiles
  /\ catalog.maxFileId = base.maxFileId + 1 /\ Number = GroupSize
  /\ Below(Height) = base.freeList \o GroupPart(base.maxFileId, GroupSize)

\* How far from the state before the call the stores of it have come.
GroupBase ==
  /\ base.maxFileId = catalog.maxFileId /\ base.freeNum = 0
  /\ base.freeList \in Seq(Leaves)
  /\ Below(sz) = base.freeList \o
       GroupPart(base.maxFileId, IF pc = "push" THEN arg[2] - 1 ELSE GroupSize)
  /\ pc = "name" => catalog.freeNum = GroupSize
GetBase ==
  /\ FromGroup \/ (pc # "flushGroup" /\ FromList)
  /\ base.freed = freed
  /\ base.usedNum \in [1 .. MaxFiles -> Nat]
  /\ Counts = IF pc \in {"flushGroup", "pop", "countUsed"} THEN base.usedNum
              ELSE [base.usedNum EXCEPT ![arg[1]] = @ + 1]
  /\ used = IF pc \in {"flushGroup", "pop", "countUsed", "mark"} THEN base.used
            ELSE base.used \cup {arg}
  /\ catalog.startLeaf = IF pc \in {"flushStart", "return"} /\ base.startLeaf = NoLeaf THEN arg
                         ELSE base.startLeaf
FreeBase ==
  /\ arg \in base.used /\ arg[1] # 0 /\ arg \in Leaves /\ base.freed < MaxFrees
  /\ freed = base.freed + 1
  /\ catalog.maxFileId = base.maxFileId
  /\ base.freeNum = IF pc = "restoreCount" THEN catalog.freeNum - 1 ELSE catalog.freeNum
  /\ catalog.startLeaf = base.startLeaf /\ Counts = base.usedNum
  /\ used = IF pc = "unmark" THEN base.used ELSE base.used \ {arg}
  /\ Below(sz) = IF pc \in {"countFreed", "restoreCount", "flushFreed"}
                 THEN Append(base.freeList, arg) ELSE base.freeList
SetBase ==
  /\ catalog.startLeaf \in base.used \cup {NoLeaf}
  /\ catalog.maxFileId = base.maxFileId /\ catalog.freeNum = base.freeNum
  /\ used = base.used /\ Counts = base.usedNum /\ freed = base.freed
  /\ Below(sz) = base.freeList

BaseInv ==
  /\ pc = "create" => base = [View EXCEPT !.maxFileId = 1]
  /\ pc \in {"idle", "flushNew"} => base = View
  /\ pc \in {"push", "count", "name"} =>
       GroupBase /\ base.startLeaf = catalog.startLeaf /\ base.used = used
       /\ base.usedNum = Counts /\ base.freed = freed
  /\ pc \in {"flushGroup", "pop"} \/ InHand => GetBase
  /\ pc \in {"unmark", "pushFreed", "countFreed", "restoreCount", "flushFreed"} => FreeBase
  /\ pc = "flushSet" => SetBase

\* Entries of the stack as it is pushed to and popped.
LEMMA BelowIsSeq ==
  ASSUME NEW c \in Seq(Leaves), NEW n \in 0 .. Len(c)
  PROVE  /\ SubSeq(c, 1, n) \in Seq(Leaves) /\ Len(SubSeq(c, 1, n)) = n
         /\ \A i \in 1 .. n : SubSeq(c, 1, n)[i] = c[i]
<1>1. n \in Nat /\ n <= Len(c) /\ Len(c) \in Nat /\ \A i \in 1 .. n : c[i] \in Leaves
  OBVIOUS
<1>2. /\ SubSeq(c, 1, n) \in Seq(Leaves)
      /\ Len(SubSeq(c, 1, n)) = IF 1 <= n THEN n - 1 + 1 ELSE 0
      /\ \A i \in 1 .. (n - 1 + 1) : SubSeq(c, 1, n)[i] = c[1 + i - 1]
  BY <1>1, SubSeqProperties
<1>3. /\ n - 1 + 1 = n /\ (IF 1 <= n THEN n - 1 + 1 ELSE 0) = n
      /\ \A i \in 1 .. n : 1 + i - 1 = i
  BY <1>1
<1> QED BY <1>2, <1>3

\* What two files share below a height is the same stack.
LEMMA BelowSame ==
  ASSUME NEW c \in Seq(Leaves), NEW d \in Seq(Leaves), NEW n \in Nat,
         n <= Len(c), n <= Len(d), \A i \in 1 .. n : c[i] = d[i]
  PROVE  SubSeq(c, 1, n) = SubSeq(d, 1, n)
<1>1. n \in 0 .. Len(c) /\ n \in 0 .. Len(d)
  OBVIOUS
<1>2. /\ SubSeq(c, 1, n) \in Seq(Leaves) /\ Len(SubSeq(c, 1, n)) = n
      /\ \A i \in 1 .. n : SubSeq(c, 1, n)[i] = c[i]
  BY <1>1, BelowIsSeq
<1>3. /\ SubSeq(d, 1, n) \in Seq(Leaves) /\ Len(SubSeq(d, 1, n)) = n
      /\ \A i \in 1 .. n : SubSeq(d, 1, n)[i] = d[i]
  BY <1>1, BelowIsSeq
<1> QED BY <1>2, <1>3, SeqEqual

LEMMA BelowOneMore ==
  ASSUME NEW c \in Seq(Leaves), NEW n \in Nat, n + 1 <= Len(c)
  PROVE  /\ SubSeq(c, 1, n + 1) = Append(SubSeq(c, 1, n), c[n + 1])
         /\ Len(SubSeq(c, 1, n + 1)) = n + 1
         /\ SubSeq(c, 1, n + 1)[n + 1] = c[n + 1]
         /\ SubSeq(SubSeq(c, 1, n + 1), 1, n) = SubSeq(c, 1, n)
<1> DEFINE s == SubSeq(c, 1, n)
           t == SubSeq(c, 1, n + 1)
<1>1. n \in 0 .. Len(c) /\ n + 1 \in 0 .. Len(c) /\ c[n + 1] \in Leaves
  OBVIOUS
<1>2. s \in Seq(Leaves) /\ Len(s) = n /\ \A i \in 1 .. n : s[i] = c[i]
  BY <1>1, BelowIsSeq
<1>3. t \in Seq(Leaves) /\ Len(t) = n + 1 /\ \A i \in 1 .. n + 1 : t[i] = c[i]
  BY <1>1, BelowIsSeq
<1> DEFINE a == Append(s, c[n + 1])
<1>4. /\ a \in Seq(Leaves) /\ Len(a) = n + 1 /\ a[n + 1] = c[n + 1]
      /\ \A i \in 1 .. n : a[i] = c[i]
  BY <1>1, <1>2, AppendProperties
<1> HIDE DEF a, s, t
<1>5. a = t
  <2>1. \A i \in 1 .. Len(a) : a[i] = t[i]
    BY <1>3, <1>4
  <2> QED BY <1>3, <1>4, <2>1, SeqEqual
<1>6. SubSeq(t, 1, n) = SubSeq(c, 1, n)
  BY <1>1, <1>3, BelowSame
<1> QED BY <1>3, <1>5, <1>6 DEF a, s, t

LEMMA GroupPartOneMore ==
  ASSUME NEW s \in Seq(Leaves), NEW f \in Files, NEW n \in Nat, n < GroupSize
  PROVE  Append(s \o GroupPart(f, n), <<f, n + 1>>) = s \o GroupPart(f, n + 1)
<1> DEFINE g == GroupPart(f, n)
           h == GroupPart(f, n + 1)
<1>0. GroupSize \in Nat
  BY DurableAssumption DEF DurableAssumption
<1>1. \A i \in 1 .. n + 1 : <<f, i>> \in Leaves
  BY <1>0, LeafParts
<1>2. g \in Seq(Leaves) /\ Len(g) = n /\ \A i \in 1 .. n : g[i] = <<f, i>>
  BY <1>1 DEF GroupPart
<1>3. h \in Seq(Leaves) /\ Len(h) = n + 1 /\ \A i \in 1 .. n + 1 : h[i] = <<f, i>>
  BY <1>1 DEF GroupPart
<1>4. <<f, n + 1>> \in Leaves
  BY <1>1
<1> HIDE DEF g, h
<1>5. h = Append(g, <<f, n + 1>>)
  <2>1. /\ Append(g, <<f, n + 1>>) \in Seq(Leaves)
        /\ Len(Append(g, <<f, n + 1>>)) = n + 1
        /\ \A i \in 1 .. n : Append(g, <<f, n + 1>>)[i] = <<f, i>>
        /\ Append(g, <<f, n + 1>>)[n + 1] = <<f, n + 1>>
    BY <1>2, <1>4, AppendProperties
  <2>2. ASSUME NEW i \in 1 .. Len(h) PROVE h[i] = Append(g, <<f, n + 1>>)[i]
    <3>1. i \in 1 .. n \/ i = n + 1
      BY <1>3
    <3>2. CASE i \in 1 .. n
      BY <1>3, <2>1, <3>2
    <3>3. CASE i = n + 1
      BY <1>3, <2>1, <3>3
    <3> QED BY <3>1, <3>2, <3>3
  <2> QED BY <1>3, <2>1, <2>2, SeqEqual
<1>6. Append(s \o g, <<f, n + 1>>) = s \o Append(g, <<f, n + 1>>)
  <2> DEFINE e == <<f, n + 1>>
  <2>1. e \in Leaves
    BY <1>4
  <2> HIDE DEF e
  <2>2. s \o g \in Seq(Leaves) /\ <<e>> \in Seq(Leaves)
    BY <1>2, <2>1, ConcatProperties
  <2>3. Append(s \o g, e) = (s \o g) \o <<e>>
    BY <2>1, <2>2, AppendIsConcat
  <2>4. Append(g, e) = g \o <<e>>
    BY <1>2, <2>1, AppendIsConcat
  <2>5. (s \o g) \o <<e>> = s \o (g \o <<e>>)
    BY <1>2, <2>2, ConcatAssociative
  <2>6. Append(s \o g, e) = s \o Append(g, e)
    BY <2>3, <2>4, <2>5
  <2> QED BY <2>6 DEF e
<1> QED BY <1>5, <1>6 DEF g, h

LEMMA GroupPartNone ==
  ASSUME NEW s \in Seq(Leaves), NEW f
  PROVE  s = s \o GroupPart(f, 0)
<1>1. GroupPart(f, 0) = <<>>
  BY DEF GroupPart
<1> QED BY <1>1, ConcatEmptySeq
-----------------------------------------------------------------------------
\* A leaf is marked before it is returned or started with, and is neither owned
\* nor started with any more when it is marked free.
LEMMA UsedStep ==
  ASSUME CoverInv, PlaceInv, MapInv, UsedInv, [DurableNext]_durableVars
  PROVE  UsedInv'
<1> USE DEF Step, Store, stackVars, groupVars, historyVars
<1>0. /\ DurableTypeOK /\ PhaseInv /\ DiskInv /\ catalog \in Catalogs
      /\ owned \subseteq used
      /\ catalog.startLeaf = NoLeaf \/ (catalog.startLeaf \in used /\ catalog.startLeaf[1] # 0)
      /\ onDisk.startLeaf = NoLeaf \/ (onDisk.startLeaf \in used /\ onDisk.startLeaf[1] # 0)
      /\ pc \in {"start", "flushStart", "return"} => arg \in used
  BY DEF CoverInv, DurableTypeOK, UsedInv
<1>1. ASSUME UNCHANGED <<onDisk, owned, used>>, catalog'.startLeaf = catalog.startLeaf,
             pc' \notin {"start", "flushStart", "return"}
      PROVE  UsedInv'
  BY <1>0, <1>1 DEF UsedInv
<1>2. CASE InitCatalog
  <2>1. catalog'.startLeaf = catalog.startLeaf
    BY <1>0, <1>2 DEF InitCatalog, Catalogs
  <2> QED BY <1>1, <1>2, <2>1 DEF InitCatalog
<1>3. CASE CallGetLeaf
  BY <1>1, <1>3 DEF CallGetLeaf, BeginGroup
<1>4. CASE PushGroupLeaf
  BY <1>1, <1>4 DEF PushGroupLeaf
<1>5. CASE CountGroup \/ NameGroup \/ Pop
  <2>1. catalog'.startLeaf = catalog.startLeaf
    BY <1>0, <1>5 DEF CountGroup, NameGroup, Pop, Catalogs
  <2> QED BY <1>1, <1>5, <2>1 DEF CountGroup, NameGroup, Pop
<1>6. CASE CountUsed \/ PushFreed
  BY <1>1, <1>6 DEF CountUsed, PushFreed
<1>16. CASE CountFreed \/ RestoreCount
  BY <1>1, <1>16, RecountEffect
<1>7. CASE MarkUsed
  BY <1>0, <1>7 DEF MarkUsed, UsedInv
<1>8. CASE SetStart
  <2>1. arg \in used /\ arg[1] # 0
    BY <1>0, <1>8 DEF SetStart, MapInv, InHand
  <2>2. catalog' = catalog \/ catalog'.startLeaf = arg
    BY <1>0, <1>8 DEF SetStart, Catalogs
  <2> QED BY <1>0, <1>8, <2>1, <2>2 DEF SetStart, UsedInv
<1>9. CASE ReturnLeaf
  BY <1>0, <1>9 DEF ReturnLeaf, UsedInv
<1>10. ASSUME NEW p \in owned, CallFreeLeaf(p) PROVE UsedInv'
  BY <1>0, <1>10 DEF CallFreeLeaf, UsedInv
<1>11. CASE MarkFree
  <2>1. arg \notin owned /\ arg # catalog.startLeaf /\ onDisk = catalog
    BY <1>0, <1>11 DEF MarkFree, PlaceInv, DiskInv, Leaving
  <2> QED BY <1>0, <1>11, <2>1 DEF MarkFree, UsedInv
<1>12. ASSUME NEW p \in owned \cup {NoLeaf}, CallSetStart(p) PROVE UsedInv'
  <2>1. catalog'.startLeaf = p /\ (p = NoLeaf \/ (p \in used /\ p[1] # 0))
    BY <1>0, <1>12 DEF CallSetStart, Catalogs, MapInv
  <2> QED BY <1>0, <1>12, <2>1 DEF CallSetStart, UsedInv
<1>13. CASE FlushCatalog \/ Evict
  BY <1>0, <1>13 DEF FlushCatalog, Evict, UsedInv
<1>14. CASE Restart \/ Crash
  <2>1. Recover
    BY <1>14, Zenon DEF Restart, Crash
  <2>2. owned' \subseteq used
    BY <1>0, <2>1 DEF Recover, IsNull, NoLeaf
  <2> QED BY <1>0, <2>1, <2>2 DEF Recover, UsedInv
<1>15. CASE UNCHANGED durableVars
  BY <1>15 DEF durableVars, UsedInv
<1> QED BY <1>2, <1>3, <1>4, <1>5, <1>6, <1>7, <1>8, <1>9, <1>10, <1>11, <1>12, <1>13,
           <1>14, <1>15, <1>16 DEF DurableNext

\* The group that newLeafGroup pushes, as PAllocator has it.
LEMMA SameGroup == ASSUME NEW f PROVE PA!GroupLeaves(f) = GroupPart(f, GroupSize)
BY DEF PA!GroupLeaves, GroupPart

LEMMA IdleBase == ASSUME pc' = "idle", base' = View' PROVE BaseInv'
BY DEF BaseInv, InHand

\* Each store takes the state from the point it starts from to the next: first
\* those of newLeafGroup.
LEMMA GroupBaseStep ==
  ASSUME CoverInv, MapInv, BaseInv, base' = base,
         InitCatalog \/ CallGetLeaf \/ PushGroupLeaf \/ CountGroup \/ NameGroup
  PROVE  BaseInv'
<1> USE DEF Step, Store, stackVars, groupVars, historyVars
<1>0. /\ DurableTypeOK /\ PhaseInv /\ catalog \in Catalogs
      /\ catalog.freeNum \in Nat /\ GroupSize \in Nat \ {0} /\ sz \in 0 .. Len(cells)
      /\ cells \in Seq(Leaves) /\ Len(cells) \in Nat /\ sz \in Nat
      /\ Below(sz) \in Seq(Leaves)
  BY Fields, BelowIsSeq DEF CoverInv, DurableTypeOK, Below
<1>1. CASE InitCatalog
  <2>1. base = [View EXCEPT !.maxFileId = 1] /\ pc' = "flushNew"
    BY <1>1 DEF InitCatalog, BaseInv
  <2>2. catalog' = [catalog EXCEPT !.maxFileId = 1] /\ UNCHANGED <<cells, sz, used, usedNum, freed>>
    BY <1>1 DEF InitCatalog
  <2>3. catalog'.maxFileId = 1 /\ catalog'.freeNum = catalog.freeNum
        /\ catalog'.startLeaf = catalog.startLeaf
    BY <1>0, <2>2 DEF Catalogs
  <2>4. base = View'
    BY <2>1, <2>2, <2>3 DEF View
  <2> QED BY <2>1, <2>4 DEF BaseInv, InHand
<1>2. CASE CallGetLeaf
  <2>1. /\ base = View /\ UNCHANGED <<catalog, cells, sz, used, usedNum, freed>>
        /\ \/ catalog.freeNum > 0 /\ pc' = "pop"
           \/ catalog.freeNum = 0 /\ pc' = "push" /\ arg' = <<catalog.maxFileId, 1>>
    BY <1>2 DEF CallGetLeaf, BeginGroup, BaseInv
  <2>2. /\ base.maxFileId = catalog.maxFileId /\ base.freeNum = catalog.freeNum
        /\ base.startLeaf = catalog.startLeaf /\ base.freeList = Below(sz)
        /\ base.used = used /\ base.usedNum = Counts /\ base.freed = freed
    BY <2>1 DEF View, Below, Counts
  <2>3. CASE pc' = "pop"
    <3>1. FromList'
      BY <1>0, <2>1, <2>2, <2>3 DEF FromList, Number, Height, InHand, Below
    <3>2. Counts \in [1 .. MaxFiles -> Nat]
      BY <1>0, DurableAssumption DEF Counts, DurableTypeOK, Files, DurableAssumption
    <3>3. Counts' = Counts
      BY <2>1 DEF Counts
    <3>4. GetBase'
      BY <2>1, <2>2, <2>3, <3>1, <3>2, <3>3 DEF GetBase
    <3> QED BY <2>3, <3>4 DEF BaseInv
  <2>4. CASE pc' = "push"
    <3>1. Below(sz) = base.freeList \o GroupPart(base.maxFileId, 0)
      BY <1>0, <2>2, GroupPartNone
    <3>2. arg'[2] - 1 = 0 /\ Below(sz)' = Below(sz) /\ Counts' = Counts
      BY <2>1, <2>4 DEF Below, Counts
    <3>3. GroupBase'
      BY <1>0, <2>1, <2>2, <2>4, <3>1, <3>2 DEF GroupBase
    <3> QED BY <2>1, <2>2, <2>4, <3>2, <3>3 DEF BaseInv, InHand
  <2> QED BY <2>1, <2>3, <2>4
<1>3. CASE PushGroupLeaf
  <2>1. /\ pc = "push" /\ arg[2] \in 1 .. GroupSize /\ arg[1] = catalog.maxFileId
        /\ arg[1] \in Files /\ arg = <<arg[1], arg[2]>>
    BY <1>0, <1>3 DEF PushGroupLeaf, PhaseInv, DurableTypeOK
  <2>2. /\ pc' = IF arg[2] = GroupSize THEN "count" ELSE "push"
        /\ arg'[2] = arg[2] + 1 /\ UNCHANGED <<catalog, used, usedNum, freed>> /\ Push(arg)
    BY <1>3 DEF PushGroupLeaf
  <2>3. arg \in Leaves
    BY <2>1, LeafParts
  <2>4. /\ cells' \in Seq(Leaves) /\ sz' = sz + 1 /\ sz' \in 0 .. Len(cells')
        /\ Len(cells) <= Len(cells')
        /\ cells'[sz + 1] = arg /\ \A i \in 1 .. sz : cells'[i] = cells[i]
    BY <1>0, <2>2, <2>3, PushEffect
  <2>5. Below(sz)' = Append(Below(sz), arg)
    <3>1. sz + 1 <= Len(cells')
      BY <2>4
    <3>2. SubSeq(cells', 1, sz + 1) = Append(SubSeq(cells', 1, sz), arg)
      BY <1>0, <2>4, <3>1, BelowOneMore
    <3>3. sz <= Len(cells) /\ sz <= Len(cells')
      BY <1>0, <3>1
    <3>4. SubSeq(cells', 1, sz) = SubSeq(cells, 1, sz)
      BY <1>0, <2>4, <3>3, BelowSame
    <3> QED BY <2>4, <3>2, <3>4 DEF Below
  <2>6. /\ GroupBase /\ base.startLeaf = catalog.startLeaf /\ base.used = used
        /\ base.usedNum = Counts /\ base.freed = freed
    BY <2>1 DEF BaseInv
  <2>7. Below(sz) = base.freeList \o GroupPart(arg[1], arg[2] - 1)
        /\ base.freeList \in Seq(Leaves)
    BY <2>1, <2>6 DEF GroupBase
  <2>8. Below(sz)' = base.freeList \o GroupPart(arg[1], arg[2])
    <3>1. arg[2] - 1 \in Nat /\ arg[2] - 1 < GroupSize /\ (arg[2] - 1) + 1 = arg[2]
      BY <1>0, <2>1
    <3>2. Append(base.freeList \o GroupPart(arg[1], arg[2] - 1), <<arg[1], (arg[2] - 1) + 1>>)
            = base.freeList \o GroupPart(arg[1], (arg[2] - 1) + 1)
      BY <2>1, <2>7, <3>1, GroupPartOneMore
    <3> QED BY <2>1, <2>5, <2>7, <3>1, <3>2
  <2>9. arg'[2] - 1 = arg[2] /\ Counts' = Counts
    BY <1>0, <2>1, <2>2 DEF Counts
  <2>10. GroupBase'
    <3>1. /\ base'.maxFileId = catalog'.maxFileId /\ base'.freeNum = 0
          /\ base'.freeList \in Seq(Leaves) /\ base.maxFileId = arg[1]
      BY <2>1, <2>2, <2>6 DEF GroupBase
    <3>2. CASE arg[2] = GroupSize
      <4>1. pc' = "count"
        BY <2>2, <3>2
      <4> QED BY <2>8, <3>1, <3>2, <4>1 DEF GroupBase
    <3>3. CASE arg[2] # GroupSize
      <4>1. pc' = "push"
        BY <2>2, <3>3
      <4> QED BY <2>8, <2>9, <3>1, <4>1 DEF GroupBase
    <3> QED BY <3>2, <3>3
  <2> QED BY <2>2, <2>6, <2>9, <2>10 DEF BaseInv, InHand
<1>4. CASE CountGroup
  <2>1. /\ pc = "count" /\ pc' = "name" /\ UNCHANGED <<cells, sz, used, usedNum, freed>>
        /\ catalog.freeNum = 0 /\ catalog' = [catalog EXCEPT !.freeNum = @ + GroupSize]
    BY <1>0, <1>4 DEF CountGroup, PhaseInv
  <2>2. /\ catalog'.maxFileId = catalog.maxFileId /\ catalog'.freeNum = GroupSize
        /\ catalog'.startLeaf = catalog.startLeaf
    BY <1>0, <2>1 DEF Catalogs
  <2>3. /\ GroupBase /\ base.startLeaf = catalog.startLeaf /\ base.used = used
        /\ base.usedNum = Counts /\ base.freed = freed
    BY <2>1 DEF BaseInv
  <2>4. GroupBase'
    BY <2>1, <2>2, <2>3 DEF GroupBase, Below
  <2> QED BY <2>1, <2>2, <2>3, <2>4 DEF BaseInv, InHand, Counts
<1>5. CASE NameGroup
  <2>1. /\ pc = "name" /\ pc' = "flushGroup" /\ UNCHANGED <<cells, sz, used, usedNum, freed>>
        /\ catalog' = [catalog EXCEPT !.maxFileId = @ + 1]
    BY <1>5 DEF NameGroup
  <2>2. /\ catalog'.maxFileId = catalog.maxFileId + 1 /\ catalog'.freeNum = catalog.freeNum
        /\ catalog'.startLeaf = catalog.startLeaf
    BY <1>0, <2>1 DEF Catalogs
  <2>3. /\ GroupBase /\ base.startLeaf = catalog.startLeaf /\ base.used = used
        /\ base.usedNum = Counts /\ base.freed = freed
    BY <2>1 DEF BaseInv
  <2>4. catalog.maxFileId \in 1 .. MaxFiles
    <3>1. catalog.maxFileId \in Files /\ catalog.maxFileId >= 1
      BY <1>0, <2>1 DEF PhaseInv, MapInv
    <3> QED BY <3>1, DurableAssumption DEF Files, DurableAssumption
  <2>5. FromGroup'
    BY <2>1, <2>2, <2>3, <2>4 DEF GroupBase, FromGroup, Below, Number, Height, InHand
  <2>6. Counts \in [1 .. MaxFiles -> Nat] /\ Counts' = Counts
    BY <1>0, <2>1, DurableAssumption DEF Counts, DurableTypeOK, Files, DurableAssumption
  <2>7. GetBase'
    BY <2>1, <2>2, <2>3, <2>5, <2>6 DEF GetBase
  <2> QED BY <2>1, <2>7 DEF BaseInv
<1> QED BY <1>1, <1>2, <1>3, <1>4, <1>5

\* Then those of getLeaf, on a leaf it has popped off what it found or pushed.
LEMMA GetBaseStep ==
  ASSUME CoverInv, MapInv, UsedInv, BaseInv, base' = base,
         Pop \/ CountUsed \/ MarkUsed \/ SetStart
  PROVE  BaseInv'
<1> USE DEF Step, Store, stackVars, groupVars, historyVars
<1>0. /\ DurableTypeOK /\ PhaseInv /\ catalog \in Catalogs
      /\ catalog.freeNum \in Nat /\ sz \in Nat /\ GetBase
      /\ pc \in {"pop", "countUsed", "mark", "start"}
  BY Fields DEF CoverInv, DurableTypeOK, BaseInv, InHand, Pop, CountUsed, MarkUsed, SetStart
<1>1. CASE Pop
  <2>1. /\ pc = "pop" /\ pc' = "countUsed" /\ sz' = sz - 1 /\ cells' = cells
        /\ catalog' = [catalog EXCEPT !.freeNum = @ - 1] /\ UNCHANGED <<used, usedNum, freed>>
    BY <1>1 DEF Pop
  <2>2. /\ catalog'.maxFileId = catalog.maxFileId /\ catalog'.freeNum = catalog.freeNum - 1
        /\ catalog'.startLeaf = catalog.startLeaf
    BY <1>0, <2>1 DEF Catalogs
  <2>3. Height' = Height /\ Number' = Number /\ Below(Height)' = Below(Height)
    BY <1>0, <2>1, <2>2 DEF Height, Number, InHand, Below
  <2>4. (FromList => FromList') /\ (FromGroup => FromGroup')
    BY <2>2, <2>3 DEF FromList, FromGroup
  <2>5. GetBase'
    BY <1>0, <2>1, <2>2, <2>4 DEF GetBase, Counts
  <2> QED BY <2>1, <2>5 DEF BaseInv, InHand
<1>2. ASSUME UNCHANGED <<catalog, cells, sz, freed>>, InHand, InHand'
      PROVE  (FromList => FromList') /\ (FromGroup => FromGroup')
  <2>1. Height' = Height /\ Number' = Number /\ Below(Height)' = Below(Height)
    BY <1>2 DEF Height, Number, Below
  <2> QED BY <1>2, <2>1 DEF FromList, FromGroup
<1>3. CASE CountUsed
  <2>1. /\ pc = "countUsed" /\ pc' = "mark" /\ InHand /\ InHand'
        /\ usedNum' = [usedNum EXCEPT ![arg[1]] = @ + 1]
        /\ UNCHANGED <<catalog, cells, sz, used, arg, freed>>
    BY <1>3 DEF CountUsed, InHand
  <2>2. arg[1] \in 1 .. MaxFiles
    <3>1. arg[1] \in Files /\ arg[1] # 0
      BY <1>0, <2>1, LeafParts DEF MapInv, PhaseInv
    <3> QED BY <3>1, DurableAssumption DEF Files, DurableAssumption
  <2>3. Counts' = [Counts EXCEPT ![arg[1]] = @ + 1]
    <3>1. \A f \in 1 .. MaxFiles : f \in Files
      BY DurableAssumption DEF Files, DurableAssumption
    <3> QED BY <1>0, <2>1, <2>2, <3>1 DEF Counts, DurableTypeOK
  <2>4. GetBase'
    BY <1>0, <1>2, <2>1, <2>3 DEF GetBase
  <2> QED BY <2>1, <2>4 DEF BaseInv, InHand
<1>4. CASE MarkUsed
  <2>1. /\ pc = "mark" /\ pc' = "start" /\ InHand /\ InHand'
        /\ used' = used \cup {arg}
        /\ UNCHANGED <<catalog, cells, sz, usedNum, arg, freed>>
    BY <1>4 DEF MarkUsed, InHand
  <2>2. Counts' = Counts
    BY <2>1 DEF Counts
  <2>3. GetBase'
    BY <1>0, <1>2, <2>1, <2>2 DEF GetBase
  <2> QED BY <2>1, <2>3 DEF BaseInv, InHand
<1>5. CASE SetStart
  <2>1. /\ pc = "start" /\ pc' \in {"return", "flushStart"} /\ InHand /\ InHand'
        /\ UNCHANGED <<cells, sz, used, usedNum, arg, freed>>
        /\ \/ ~IsNull(catalog.startLeaf) /\ catalog' = catalog
           \/ IsNull(catalog.startLeaf) /\ catalog' = [catalog EXCEPT !.startLeaf = arg]
    BY <1>5 DEF SetStart, InHand
  <2>2. /\ catalog'.maxFileId = catalog.maxFileId /\ catalog'.freeNum = catalog.freeNum
        /\ catalog'.startLeaf = IF IsNull(catalog.startLeaf) THEN arg ELSE catalog.startLeaf
    BY <1>0, <2>1 DEF Catalogs
  <2>3. (FromList => FromList') /\ (FromGroup => FromGroup')
    <3>1. Height' = Height /\ Number' = Number /\ Below(Height)' = Below(Height)
      BY <2>1, <2>2 DEF Height, Number, Below
    <3> QED BY <2>2, <3>1 DEF FromList, FromGroup
  <2>4. IsNull(catalog.startLeaf) <=> catalog.startLeaf = NoLeaf
    BY DEF UsedInv, IsNull, NoLeaf
  <2>5. catalog.startLeaf = base.startLeaf
    BY <1>0, <2>1 DEF GetBase
  <2>6. GetBase'
    BY <1>0, <2>1, <2>2, <2>3, <2>4, <2>5 DEF GetBase, Counts
  <2> QED BY <2>1, <2>6 DEF BaseInv, InHand
<1> QED BY <1>1, <1>3, <1>4, <1>5

\* Those of freeLeaf and setStartPointer.
LEMMA FreeBaseStep ==
  ASSUME CoverInv, MapInv, UsedInv, BaseInv, base' = base,
         \/ \E p \in owned : CallFreeLeaf(p)
         \/ MarkFree \/ PushFreed \/ CountFreed \/ RestoreCount
         \/ \E p \in owned \cup {NoLeaf} : CallSetStart(p)
  PROVE  BaseInv'
<1> USE DEF Step, Store, stackVars, groupVars, historyVars
<1>0. /\ DurableTypeOK /\ PhaseInv /\ catalog \in Catalogs /\ sz \in 0 .. Len(cells)
      /\ cells \in Seq(Leaves) /\ Len(cells) \in Nat /\ sz \in Nat /\ freed \in Nat
      /\ owned \subseteq Leaves
  BY Fields, DurableAssumption DEF CoverInv, DurableTypeOK, DurableAssumption
<1>1. ASSUME pc = "idle"
      PROVE  /\ base.maxFileId = catalog.maxFileId /\ base.freeNum = catalog.freeNum
             /\ base.startLeaf = catalog.startLeaf /\ base.freeList = Below(sz)
             /\ base.used = used /\ base.usedNum = Counts /\ base.freed = freed
  <2>1. base = View
    BY <1>1 DEF BaseInv
  <2> QED BY <2>1 DEF View, Below, Counts
<1>2. ASSUME NEW p \in owned, CallFreeLeaf(p) PROVE BaseInv'
  <2>1. /\ pc = "idle" /\ pc' = "unmark" /\ p \in used /\ freed < MaxFrees
        /\ arg' = p /\ freed' = freed + 1
        /\ UNCHANGED <<catalog, cells, sz, used, usedNum>>
    BY <1>2 DEF CallFreeLeaf
  <2>2. p \in Leaves /\ p[1] # 0
    BY <1>0 DEF MapInv
  <2>3. FreeBase'
    BY <1>1, <2>1, <2>2 DEF FreeBase, Below, Counts
  <2> QED BY <2>1, <2>3 DEF BaseInv, InHand
<1>3. CASE MarkFree
  <2>1. /\ pc = "unmark" /\ pc' = "pushFreed" /\ FreeBase /\ used' = used \ {arg}
        /\ UNCHANGED <<catalog, cells, sz, usedNum, arg, freed>>
    BY <1>3 DEF MarkFree, BaseInv
  <2>2. FreeBase'
    BY <2>1 DEF FreeBase, Below, Counts
  <2> QED BY <2>1, <2>2 DEF BaseInv, InHand
<1>4. CASE PushFreed
  <2>1. /\ pc = "pushFreed" /\ pc' = "countFreed" /\ FreeBase /\ Push(arg)
        /\ UNCHANGED <<catalog, used, usedNum, arg, freed>>
    BY <1>4 DEF PushFreed, BaseInv
  <2>2. arg \in Leaves
    BY <2>1 DEF FreeBase
  <2>3. Below(sz)' = Append(Below(sz), arg)
    <3>1. /\ cells' \in Seq(Leaves) /\ sz' = sz + 1 /\ sz' \in 0 .. Len(cells')
          /\ cells'[sz + 1] = arg /\ \A i \in 1 .. sz : cells'[i] = cells[i]
      BY <1>0, <2>1, <2>2, PushEffect
    <3>2. sz + 1 <= Len(cells')
      BY <3>1
    <3>3. SubSeq(cells', 1, sz + 1) = Append(SubSeq(cells', 1, sz), arg)
      BY <1>0, <3>1, <3>2, BelowOneMore
    <3>4. sz <= Len(cells) /\ sz <= Len(cells')
      BY <1>0, <3>1
    <3>5. SubSeq(cells', 1, sz) = SubSeq(cells, 1, sz)
      BY <1>0, <3>1, <3>4, BelowSame
    <3> QED BY <3>1, <3>3, <3>5 DEF Below
  <2>4. FreeBase'
    BY <2>1, <2>3 DEF FreeBase, Counts
  <2> QED BY <2>1, <2>4 DEF BaseInv, InHand
<1>5. ASSUME NEW p \in owned \cup {NoLeaf}, CallSetStart(p) PROVE BaseInv'
  <2>1. /\ pc = "idle" /\ pc' = "flushSet" /\ catalog' = [catalog EXCEPT !.startLeaf = p]
        /\ UNCHANGED <<cells, sz, used, usedNum, freed>>
    BY <1>5 DEF CallSetStart
  <2>2. /\ catalog'.maxFileId = catalog.maxFileId /\ catalog'.freeNum = catalog.freeNum
        /\ catalog'.startLeaf = p
    BY <1>0, <2>1 DEF Catalogs
  <2>3. p \in used \cup {NoLeaf}
    BY DEF UsedInv
  <2>4. SetBase'
    BY <1>1, <2>1, <2>2, <2>3 DEF SetBase, Below, Counts
  <2> QED BY <2>1, <2>4 DEF BaseInv, InHand
<1>6. CASE CountFreed \/ RestoreCount
  <2>1. /\ catalog'.maxFileId = catalog.maxFileId /\ catalog'.startLeaf = catalog.startLeaf
        /\ UNCHANGED <<cells, sz, used, usedNum, arg, freed>>
        /\ \/ /\ pc = "countFreed" /\ pc' = "restoreCount"
              /\ catalog'.freeNum = catalog.freeNum + 1
           \/ /\ pc = "restoreCount" /\ pc' = "flushFreed"
              /\ catalog'.freeNum = catalog.freeNum - 1
    BY <1>6, RecountEffect
  <2>2. FreeBase /\ catalog.freeNum \in Nat
    BY <2>1, Fields DEF BaseInv, CoverInv
  <2>3. Below(sz)' = Below(sz) /\ Counts' = Counts
    BY <2>1 DEF Below, Counts
  <2>4. base.freeNum = IF pc' = "restoreCount" THEN catalog'.freeNum - 1 ELSE catalog'.freeNum
    BY <2>1, <2>2 DEF FreeBase
  <2>5. FreeBase'
    BY <2>1, <2>2, <2>3, <2>4 DEF FreeBase
  <2> QED BY <2>1, <2>5 DEF BaseInv, InHand
<1> QED BY <1>2, <1>3, <1>4, <1>5, <1>6

LEMMA BaseStep ==
  ASSUME CoverInv, MapInv, UsedInv, BaseInv, [StepsNext]_<<durableVars, base>>
  PROVE  BaseInv'
<1> USE DEF Step, stackVars, groupVars, historyVars
<1>1. CASE pc' = "idle" /\ StepsNext
  BY <1>1, IdleBase DEF StepsNext
<1>2. CASE pc' # "idle" /\ StepsNext
  <2>1. base' = base /\ DurableNext
    BY <1>2 DEF StepsNext
  <2>2. CASE InitCatalog \/ CallGetLeaf \/ PushGroupLeaf \/ CountGroup \/ NameGroup
    BY <2>1, <2>2, GroupBaseStep
  <2>3. CASE Pop \/ CountUsed \/ MarkUsed \/ SetStart
    BY <2>1, <2>3, GetBaseStep
  <2>4. CASE \/ \E p \in owned : CallFreeLeaf(p)
             \/ MarkFree \/ PushFreed \/ CountFreed \/ RestoreCount
             \/ \E p \in owned \cup {NoLeaf} : CallSetStart(p)
    BY <2>1, <2>4, FreeBaseStep
  <2>5. CASE FlushCatalog
    <3>1. /\ UNCHANGED <<catalog, cells, sz, used, usedNum, arg, freed>>
          /\ \/ pc = "flushGroup" /\ pc' = "pop"
             \/ pc = "flushStart" /\ pc' = "return"
      BY <1>2, <2>5 DEF FlushCatalog
    <3>2. GetBase /\ (InHand' <=> InHand)
      BY <3>1 DEF BaseInv, InHand
    <3>3. Height' = Height /\ Number' = Number /\ Below(Height)' = Below(Height)
      BY <3>1, <3>2 DEF Height, Number, Below
    <3>4. (FromList => FromList') /\ (FromGroup => FromGroup')
      BY <2>1, <3>1, <3>3 DEF FromList, FromGroup
    <3>5. GetBase'
      BY <2>1, <3>1, <3>2, <3>4 DEF GetBase, Counts
    <3> QED BY <3>1, <3>5 DEF BaseInv, InHand
  <2>6. CASE Evict
    <3>1. UNCHANGED <<catalog, cells, sz, used, usedNum, pc, arg, freed>>
      BY <2>6 DEF Evict
    <3> QED BY <2>1, <3>1 DEF BaseInv, GroupBase, GetBase, FreeBase, SetBase, FromList,
               FromGroup, Height, Number, Below, Counts, InHand, View
  <2>7. CASE ReturnLeaf \/ Restart \/ Crash
    BY <1>2, <2>7 DEF ReturnLeaf, Restart, Crash, Recover
  <2> QED BY <2>1, <2>2, <2>3, <2>4, <2>5, <2>6, <2>7 DEF DurableNext
<1>3. CASE UNCHANGED <<durableVars, base>>
  BY <1>3 DEF durableVars, BaseInv, GroupBase, GetBase, FreeBase, SetBase, FromList,
              FromGroup, Height, Number, Below, Counts, InHand, View
<1> QED BY <1>1, <1>2, <1>3
-----------------------------------------------------------------------------
\* Each return is a step of PAllocator from the state before the call.
LEMMA ReturnIsGetLeaf ==
  ASSUME CoverInv, MapInv, UsedInv, BaseInv, ReturnLeaf, base' = View'
  PROVE  PA!AllocNext
<1> USE DEF Step, stackVars, groupVars, historyVars
<1>1. /\ pc = "return" /\ InHand /\ UNCHANGED <<catalog, cells, sz, used, usedNum, freed>>
      /\ GetBase
  BY DEF ReturnLeaf, InHand, BaseInv
<1>2. /\ base'.maxFileId = catalog.maxFileId /\ base'.freeNum = catalog.freeNum
      /\ base'.startLeaf = catalog.startLeaf /\ base'.freeList = Below(sz)
      /\ base'.used = used /\ base'.usedNum = Counts /\ base'.freed = freed
  BY <1>1 DEF View, Below, Counts
<1>3. /\ cells \in Seq(Leaves) /\ sz \in Nat /\ sz + 1 <= Len(cells) /\ cells[sz + 1] = arg
      /\ arg \in Leaves /\ catalog.freeNum \in Nat
  BY <1>1, Fields DEF CoverInv, PhaseInv
<1> DEFINE pool == Below(Height)
<1>4. Height = sz + 1 /\ Number = catalog.freeNum + 1
  BY <1>1 DEF Height, Number
<1>5. Len(pool) = sz + 1 /\ pool[sz + 1] = arg /\ SubSeq(pool, 1, sz) = Below(sz)
  BY <1>3, <1>4, BelowOneMore DEF Below
<1> HIDE DEF pool
<1>6. PA!TakeTop(pool, Number, arg)
  <2>1. arg = pool[Len(pool)] /\ base'.freeList = SubSeq(pool, 1, Len(pool) - 1)
    <3>1. Len(pool) - 1 = sz
      BY <1>3, <1>5
    <3> QED BY <1>2, <1>5, <3>1
  <2>2. base'.freeNum = Number - 1
    BY <1>2, <1>3, <1>4
  <2>3. /\ base'.used = base.used \cup {arg}
        /\ base'.usedNum = [base.usedNum EXCEPT ![arg[1]] = @ + 1]
        /\ base'.startLeaf = IF base.startLeaf = NoLeaf THEN arg ELSE base.startLeaf
    BY <1>1, <1>2 DEF GetBase
  <2> QED BY <2>1, <2>2, <2>3 DEF PA!TakeTop, PA!NoLeaf, NoLeaf
<1>7. arg \in PA!Leaves
  <2>1. arg[1] \in Files /\ arg[1] # 0 /\ arg = <<arg[1], arg[2]>> /\ arg[2] \in 1 .. GroupSize
    BY <1>1, <1>3, LeafParts DEF MapInv, Leaves
  <2>2. arg[1] \in 1 .. MaxFiles
    BY <2>1, DurableAssumption DEF Files, DurableAssumption
  <2> QED BY <2>1, <2>2 DEF PA!Leaves, PA!Files
<1>8. CASE FromList
  <2>1. PA!GetLeafFromList(arg)
    BY <1>1, <1>2, <1>6, <1>8 DEF FromList, GetBase, PA!GetLeafFromList, pool
  <2> QED BY <1>7, <2>1 DEF PA!AllocNext
<1>9. CASE FromGroup
  <2>1. pool = base.freeList \o PA!GroupLeaves(base.maxFileId) /\ Number = GroupSize
    BY <1>9, SameGroup DEF FromGroup, pool
  <2>2. PA!GetLeafFromNewGroup(arg)
    BY <1>1, <1>2, <1>6, <1>9, <2>1 DEF FromGroup, GetBase, PA!GetLeafFromNewGroup, PA!Files
  <2> QED BY <1>7, <2>2 DEF PA!AllocNext
<1> QED BY <1>1, <1>8, <1>9 DEF GetBase

LEMMA FlushIsFreeLeaf ==
  ASSUME CoverInv, MapInv, UsedInv, BaseInv, base' = View', pc = "flushFreed",
         UNCHANGED <<catalog, cells, sz, used, usedNum, freed>>
  PROVE  PA!AllocNext
<1>1. FreeBase
  BY DEF BaseInv
<1>2. /\ base'.maxFileId = catalog.maxFileId /\ base'.freeNum = catalog.freeNum
      /\ base'.startLeaf = catalog.startLeaf /\ base'.freeList = Below(sz)
      /\ base'.used = used /\ base'.usedNum = Counts /\ base'.freed = freed
  BY DEF View, Below, Counts
<1>3. arg \in PA!Leaves
  <2>1. arg[1] \in Files /\ arg[1] # 0 /\ arg = <<arg[1], arg[2]>> /\ arg[2] \in 1 .. GroupSize
    BY <1>1, LeafParts DEF FreeBase, Leaves
  <2>2. arg[1] \in 1 .. MaxFiles
    BY <2>1, DurableAssumption DEF Files, DurableAssumption
  <2> QED BY <2>1, <2>2 DEF PA!Leaves, PA!Files
<1>4. PA!FreeLeaf(arg)
  BY <1>1, <1>2 DEF FreeBase, PA!FreeLeaf, PA!ReleaseLeaf
<1> QED BY <1>3, <1>4 DEF PA!AllocNext

LEMMA FlushIsSetStart ==
  ASSUME BaseInv, base' = View', pc = "flushSet",
         UNCHANGED <<catalog, cells, sz, used, usedNum, freed>>
  PROVE  PA!AllocNext
<1>1. SetBase
  BY DEF BaseInv
<1>2. /\ base'.maxFileId = catalog.maxFileId /\ base'.freeNum = catalog.freeNum
      /\ base'.startLeaf = catalog.startLeaf /\ base'.freeList = Below(sz)
      /\ base'.used = used /\ base'.usedNum = Counts /\ base'.freed = freed
  BY DEF View, Below, Counts
<1>3. PA!SetStartPointer(catalog.startLeaf)
  BY <1>1, <1>2 DEF SetBase, PA!SetStartPointer
<1>4. catalog.startLeaf \in base.used \cup {PA!NoLeaf}
  BY <1>1 DEF SetBase, NoLeaf, PA!NoLeaf
<1> QED BY <1>3, <1>4 DEF PA!AllocNext

\* A constructor between two calls finds the stack as high as it was counted.
LEMMA RestartIsRestart ==
  ASSUME CoverInv, BaseInv, Restart, base' = View'
  PROVE  PA!AllocNext
<1>1. /\ pc = "idle" /\ base = View /\ catalog' = onDisk /\ sz' = onDisk.freeNum
      /\ cells' = SubSeq(cells, 1, onDisk.freeNum) /\ UNCHANGED <<used, usedNum, freed>>
  BY DEF Restart, Recover, BaseInv
<1>2. /\ onDisk = catalog /\ cells \in Seq(Leaves) /\ sz \in Nat /\ sz <= Len(cells)
      /\ Len(cells) \in Nat /\ catalog.freeNum \in Nat /\ catalog.freeNum <= sz
  BY <1>1, Fields DEF CoverInv, DiskInv, CountCovered
<1> DEFINE k == catalog.freeNum
           d == SubSeq(cells, 1, k)
           s == SubSeq(cells, 1, sz)
<1>3. /\ k \in 0 .. Len(cells) /\ sz \in 0 .. Len(cells) /\ k \in Nat /\ k <= sz
  BY <1>2
<1>4. d \in Seq(Leaves) /\ Len(d) = k /\ \A i \in 1 .. k : d[i] = cells[i]
  BY <1>2, <1>3, BelowIsSeq
<1>5. s \in Seq(Leaves) /\ Len(s) = sz /\ \A i \in 1 .. sz : s[i] = cells[i]
  BY <1>2, <1>3, BelowIsSeq
<1> HIDE DEF k, d, s
<1>6. SubSeq(d, 1, k) = SubSeq(s, 1, k)
  <2>1. k <= Len(d) /\ k <= Len(s) /\ \A i \in 1 .. k : d[i] = s[i]
    BY <1>2, <1>3, <1>4, <1>5
  <2> QED BY <1>3, <1>4, <1>5, <2>1, BelowSame
<1>7. base'.freeList = SubSeq(base.freeList, 1, base.freeNum)
  <2>1. base.freeList = s /\ base.freeNum = k
    BY <1>1 DEF View, s, k
  <2>2. base'.freeList = SubSeq(d, 1, k)
    BY <1>1, <1>2 DEF View, d, k
  <2> QED BY <1>6, <2>1, <2>2
<1>8. UNCHANGED <<base.maxFileId, base.freeNum, base.startLeaf, base.used, base.usedNum,
                  base.freed>>
  BY <1>1, <1>2 DEF View
<1>9. PA!RestartAllocator
  BY <1>7, <1>8 DEF PA!RestartAllocator
<1> QED BY <1>9 DEF PA!AllocNext

LEMMA StepsSimulated ==
  ASSUME CoverInv, MapInv, UsedInv, BaseInv, [StepsNext]_<<durableVars, base>>
  PROVE  [PA!AllocNext \/ crashes' > crashes \/ torn]_base
<1> USE DEF Step, Store, stackVars, groupVars, historyVars
<1>1. CASE UNCHANGED <<durableVars, base>>
  BY <1>1
<1>2. CASE StepsNext /\ pc' # "idle"
  BY <1>2 DEF StepsNext
<1>3. CASE StepsNext /\ pc' = "idle"
  <2>1. base' = View' /\ DurableNext
    BY <1>3 DEF StepsNext
  <2>2. CASE ReturnLeaf
    BY <2>1, <2>2, ReturnIsGetLeaf
  <2>3. CASE FlushCatalog \/ Evict
    <3>1. /\ UNCHANGED <<catalog, cells, sz, used, usedNum, freed>>
          /\ pc \in {"flushNew", "flushFreed", "flushSet", "idle"}
      BY <1>3, <2>3 DEF FlushCatalog, Evict
    <3>2. CASE pc \in {"flushNew", "idle"}
      <4>1. base = View
        BY <3>2 DEF BaseInv
      <4>2. View' = View
        BY <3>1 DEF View
      <4> QED BY <2>1, <4>1, <4>2
    <3>3. CASE pc = "flushFreed"
      BY <2>1, <3>1, <3>3, FlushIsFreeLeaf
    <3>4. CASE pc = "flushSet"
      BY <2>1, <3>1, <3>4, FlushIsSetStart
    <3> QED BY <3>1, <3>2, <3>3, <3>4
  <2>4. CASE Restart
    BY <2>1, <2>4, RestartIsRestart
  <2>5. CASE Crash
    <3>1. crashes' = crashes + 1
      BY <2>5, Zenon DEF Crash
    <3>2. crashes \in Nat
      BY DurableAssumption DEF CoverInv, DurableTypeOK, DurableAssumption
    <3> QED BY <3>1, <3>2
  <2>6. ASSUME \/ InitCatalog \/ CallGetLeaf \/ PushGroupLeaf \/ CountGroup \/ NameGroup
               \/ Pop \/ CountUsed \/ MarkUsed \/ SetStart \/ MarkFree \/ PushFreed
               \/ CountFreed \/ RestoreCount
               \/ \E p \in owned : CallFreeLeaf(p)
               \/ \E p \in owned \cup {NoLeaf} : CallSetStart(p)
        PROVE  FALSE
    BY <1>3, <2>6 DEF InitCatalog, CallGetLeaf, BeginGroup, PushGroupLeaf, CountGroup,
       NameGroup, Pop, CountUsed, MarkUsed, SetStart, MarkFree, PushFreed, CountFreed,
       RestoreCount, CallFreeLeaf, CallSetStart
  <2> QED BY <2>1, <2>2, <2>3, <2>4, <2>5, <2>6 DEF DurableNext
<1> QED BY <1>1, <1>2, <1>3

\* Store by store, with crashes anywhere, the allocator does the operations of
\* PAllocator: what is proved of those holds of the calls that return.
THEOREM StepsImplementOperations == StepsSpec => StepsAreOperations
<1> DEFINE I == CrashInv /\ (~torn => MapInv /\ UsedInv /\ BaseInv)
<1>1. StepsInit => I
  <2> SUFFICES ASSUME StepsInit PROVE I
    OBVIOUS
  <2>1. DurableInit
    BY DEF StepsInit
  <2>2. UsedInv /\ BaseInv
    BY <2>1 DEF StepsInit, DurableInit, UsedInv, BaseInv, InHand
  <2> QED BY <2>1, <2>2, InitCrash, MapInit
<1>2. I /\ [StepsNext]_<<durableVars, base>> => I'
  <2> SUFFICES ASSUME I, [StepsNext]_<<durableVars, base>> PROVE I'
    OBVIOUS
  <2>1. [DurableNext]_durableVars
    BY DEF StepsNext
  <2>2. CoverInv' /\ (~torn' => ~torn)
    BY <2>1, CoverStep, TornStays DEF CrashInv
  <2> QED BY <2>1, <2>2, PlaceStep, MapStep, UsedStep, BaseStep DEF CrashInv
<1>3. I /\ [StepsNext]_<<durableVars, base>>
        => [PA!AllocNext \/ crashes' > crashes \/ torn]_base
  BY StepsSimulated DEF CrashInv
<1>4. StepsInit => PA!AllocInit
  <2> SUFFICES ASSUME StepsInit PROVE PA!AllocInit
    OBVIOUS
  <2>1. SubSeq(<<>>, 1, 0) = <<>>
    BY SubSeqEmpty
  <2>2. \A f \in 1 .. MaxFiles : f \in Files
    BY DurableAssumption DEF Files, DurableAssumption
  <2>3. [f \in 1 .. MaxFiles |-> usedNum[f]] = [f \in PA!Files |-> 0]
    BY <2>2 DEF StepsInit, DurableInit, PA!Files
  <2> QED BY <2>1, <2>3 DEF StepsInit, DurableInit, View, PA!AllocInit, PA!NoLeaf, NoLeaf
<1> QED BY <1>1, <1>2, <1>3, <1>4, PTL DEF StepsSpec, StepsAreOperations
=============================================================================
