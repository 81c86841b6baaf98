--------------------------- MODULE LeafChainProofs ---------------------------
(***************************************************************************)
(* Theorems about the leaf allocator and about the chain of the leaves it  *)
(* hands out, for trees of any number of leaves, groups and file systems   *)
(* of any size and any number of calls.                                    *)
(***************************************************************************)
EXTENDS LeafChain, FiniteSetTheorems, SequenceTheorems, TLAPS

(***************************************************************************)
(* The allocator                                                           *)
(***************************************************************************)

AllocInv == AllocTypeOK /\ FreeListSound /\ FreeNumCovered

\* What a pool must satisfy for getLeaf to pop it: the stack as it stands, or
\* the stack with a new group on top.
PoolOK(pool, num, last) ==
  /\ pool \in Seq(Leaves)
  /\ num \in Nat \ {0}
  /\ num <= Len(pool)
  /\ last \in 1 .. (MaxFiles + 1)
  /\ maxFileId <= last
  /\ \A i \in 1 .. Len(pool) :
       pool[i] \in ((1 .. (last - 1)) \X (1 .. GroupSize)) \ used
  /\ \A i, j \in 1 .. Len(pool) : pool[i] = pool[j] => i = j

\* The stack itself is such a pool when the catalog counts a free leaf.
LEMMA ListIsPool ==
  ASSUME AllocInv, freeNum > 0
  PROVE  PoolOK(freeList, freeNum, maxFileId)
BY DEF AllocInv, AllocTypeOK, FreeListSound, FreeNumCovered, PoolOK, Existing

\* Pushing the leaves of a file that does not exist yet keeps the stack sound.
LEMMA GroupOnTop ==
  ASSUME AllocInv, maxFileId \in Files
  PROVE  /\ PoolOK(freeList \o GroupLeaves(maxFileId), GroupSize, maxFileId + 1)
         /\ Len(freeList \o GroupLeaves(maxFileId)) = Len(freeList) + GroupSize
<1> DEFINE g == GroupLeaves(maxFileId)
           pool == freeList \o g
<1> USE AllocatorAssumption DEF AllocatorAssumption
<1>1. g \in Seq(Leaves) /\ Len(g) = GroupSize
  BY DEF GroupLeaves, Leaves
<1>2. \A i \in 1 .. GroupSize : g[i] = <<maxFileId, i>>
  BY DEF GroupLeaves
<1>3. freeList \in Seq(Leaves)
  BY DEF AllocInv, AllocTypeOK
<1> HIDE DEF g
<1>4. /\ pool \in Seq(Leaves)
      /\ Len(pool) = Len(freeList) + GroupSize
      /\ \A i \in 1 .. Len(pool) :
           pool[i] = IF i <= Len(freeList) THEN freeList[i]
                     ELSE <<maxFileId, i - Len(freeList)>>
  <2>1. /\ pool \in Seq(Leaves)
        /\ Len(pool) = Len(freeList) + Len(g)
        /\ \A i \in 1 .. Len(freeList) + Len(g) :
             pool[i] = IF i <= Len(freeList) THEN freeList[i]
                       ELSE g[i - Len(freeList)]
    BY <1>1, <1>3, ConcatProperties, Zenon DEF pool
  <2>2. Len(freeList) \in Nat
    BY <1>3
  <2> HIDE DEF pool
  <2>3. \A i \in 1 .. Len(pool) :
          i > Len(freeList) => i - Len(freeList) \in 1 .. GroupSize
    BY <2>1, <2>2, <1>1
  <2>4. ASSUME NEW i \in 1 .. Len(pool)
        PROVE  pool[i] = IF i <= Len(freeList) THEN freeList[i]
                         ELSE <<maxFileId, i - Len(freeList)>>
    <3>1. CASE i <= Len(freeList)
      BY <3>1, <2>1, <1>1
    <3>2. CASE ~(i <= Len(freeList))
      <4>1. i - Len(freeList) \in 1 .. GroupSize
        BY <3>2, <2>1, <2>2, <2>3
      <4>2. pool[i] = g[i - Len(freeList)]
        BY <3>2, <2>1, <1>1
      <4> QED BY <3>2, <4>1, <4>2, <1>2
    <3> QED BY <3>1, <3>2
  <2> QED BY <2>1, <2>4, <1>1
<1> HIDE DEF pool
<1>5. /\ maxFileId \in 1 .. MaxFiles
      /\ used \subseteq (1 .. (maxFileId - 1)) \X (1 .. GroupSize)
      /\ \A i \in 1 .. Len(freeList) :
           freeList[i] \in ((1 .. (maxFileId - 1)) \X (1 .. GroupSize)) \ used
      /\ \A i, j \in 1 .. Len(freeList) : freeList[i] = freeList[j] => i = j
      /\ Len(freeList) \in Nat
  BY <1>3 DEF AllocInv, FreeListSound, Existing, Files
<1>6. \A i \in 1 .. Len(pool) :
        pool[i] \in ((1 .. maxFileId) \X (1 .. GroupSize)) \ used
  <2> TAKE i \in 1 .. Len(pool)
  <2>1. CASE i <= Len(freeList)
    BY <2>1, <1>4, <1>5
  <2>2. CASE i > Len(freeList)
    BY <2>2, <1>4, <1>5
  <2> QED BY <2>1, <2>2, <1>5
<1>7. \A i, j \in 1 .. Len(pool) : pool[i] = pool[j] => i = j
  <2> SUFFICES ASSUME NEW i \in 1 .. Len(pool), NEW j \in 1 .. Len(pool),
                      pool[i] = pool[j]
               PROVE  i = j
    OBVIOUS
  <2>1. CASE i <= Len(freeList) /\ j <= Len(freeList)
    BY <2>1, <1>4, <1>5
  <2>2. CASE i > Len(freeList) /\ j > Len(freeList)
    BY <2>2, <1>4, <1>5
  <2>3. CASE i <= Len(freeList) /\ j > Len(freeList)
    BY <2>3, <1>4, <1>5
  <2>4. CASE i > Len(freeList) /\ j <= Len(freeList)
    BY <2>4, <1>4, <1>5
  <2> QED BY <2>1, <2>2, <2>3, <2>4, <1>5
<1>8. /\ GroupSize \in Nat \ {0} /\ GroupSize <= Len(pool)
      /\ maxFileId + 1 \in 1 .. (MaxFiles + 1)
      /\ (maxFileId + 1) - 1 = maxFileId /\ maxFileId <= maxFileId + 1
  BY <1>4, <1>5
<1>9. PoolOK(pool, GroupSize, maxFileId + 1)
  BY <1>4, <1>6, <1>7, <1>8 DEF PoolOK
<1> QED BY <1>4, <1>9 DEF pool, g
-----------------------------------------------------------------------------
\* Popping a sound pool leaves a sound stack, and the leaf popped belonged to
\* nobody.
LEMMA TakeTopSound ==
  ASSUME AllocInv,
         NEW pool, NEW num, NEW last, NEW p,
         PoolOK(pool, num, last), TakeTop(pool, num, p),
         maxFileId' = last, freed' = freed
  PROVE  AllocInv' /\ p \notin used /\ p \in Leaves
<1> USE AllocatorAssumption DEF AllocatorAssumption
<1> DEFINE n == Len(pool)
<1>1. /\ pool \in Seq(Leaves) /\ n \in Nat \ {0} /\ num <= n
      /\ num \in Nat \ {0} /\ p = pool[n] /\ n \in 1 .. n
      /\ last \in 1 .. (MaxFiles + 1) /\ maxFileId <= last
  BY DEF PoolOK, TakeTop
<1>2. /\ \A i \in 1 .. n : pool[i] \in ((1 .. (last - 1)) \X (1 .. GroupSize)) \ used
      /\ \A i, j \in 1 .. n : pool[i] = pool[j] => i = j
      /\ \A i \in 1 .. n : pool[i] \in Leaves
  BY <1>1 DEF PoolOK
<1>3. /\ freeList' \in Seq(Leaves)
      /\ Len(freeList') = n - 1
      /\ \A i \in 1 .. (n - 1) : freeList'[i] = pool[i]
  <2>1. freeList' = SubSeq(pool, 1, n - 1)
    BY DEF TakeTop
  <2>2. \A i \in 1 .. (n - 1) : pool[i] \in Leaves
    BY <1>1, <1>2
  <2>3. /\ SubSeq(pool, 1, n - 1) \in Seq(Leaves)
        /\ Len(SubSeq(pool, 1, n - 1)) = IF 1 <= n - 1 THEN (n - 1) - 1 + 1 ELSE 0
        /\ \A i \in 1 .. ((n - 1) - 1 + 1) : SubSeq(pool, 1, n - 1)[i] = pool[1 + i - 1]
    BY <2>2, <1>1, SubSeqProperties
  <2> HIDE DEF n
  <2>4. /\ (n - 1) - 1 + 1 = n - 1
        /\ (IF 1 <= n - 1 THEN (n - 1) - 1 + 1 ELSE 0) = n - 1
        /\ \A i \in 1 .. (n - 1) : 1 + i - 1 = i
    BY <1>1
  <2> QED BY <2>1, <2>3, <2>4
<1>4. /\ p \in Leaves /\ p \notin used
      /\ p \in (1 .. (last - 1)) \X (1 .. GroupSize)
      /\ used' = used \cup {p}
      /\ freeNum' = num - 1
      /\ startLeaf' \in {startLeaf, p}
      /\ usedNum' = [usedNum EXCEPT ![p[1]] = @ + 1]
  BY <1>1, <1>2 DEF TakeTop
<1>5. AllocTypeOK'
  <2>1. startLeaf' \in Leaves \cup {NoLeaf} /\ used' \subseteq Leaves
    BY <1>4 DEF AllocInv, AllocTypeOK
  <2>2. usedNum' \in [Files -> Nat]
    BY <1>4 DEF AllocInv, AllocTypeOK, Leaves
  <2>3. freeNum' \in Nat /\ maxFileId' \in 1 .. (MaxFiles + 1) /\ freed' \in 0 .. MaxFrees
    BY <1>1, <1>4 DEF AllocInv, AllocTypeOK
  <2> QED BY <1>3, <2>1, <2>2, <2>3 DEF AllocTypeOK
<1>6. FreeListSound'
  <2>1. Existing' = (1 .. (last - 1)) \X (1 .. GroupSize)
    BY DEF Existing
  <2>2. Existing \subseteq Existing'
    BY <2>1, <1>1 DEF Existing, AllocInv, AllocTypeOK
  <2>3. used' \subseteq Existing'
    BY <2>1, <2>2, <1>4 DEF AllocInv, FreeListSound
  <2>4. \A i \in 1 .. Len(freeList') : freeList'[i] \in Existing' \ used'
    <3> SUFFICES ASSUME NEW i \in 1 .. (n - 1)
                 PROVE  freeList'[i] \in Existing' \ used'
      BY <1>3
    <3>1. i \in 1 .. n /\ i # n
      BY <1>1
    <3>2. pool[i] # p
      BY <3>1, <1>1, <1>2
    <3>3. freeList'[i] = pool[i] /\ pool[i] \in Existing' /\ pool[i] \notin used
      BY <3>1, <2>1, <1>2, <1>3
    <3> QED BY <3>2, <3>3, <1>4
  <2>5. \A i, j \in 1 .. Len(freeList') : freeList'[i] = freeList'[j] => i = j
    <3>1. \A i \in 1 .. (n - 1) : i \in 1 .. n
      BY <1>1
    <3> HIDE DEF n
    <3> QED BY <3>1, <1>2, <1>3
  <2> QED BY <2>3, <2>4, <2>5 DEF FreeListSound
<1>7. FreeNumCovered'
  BY <1>1, <1>3, <1>4 DEF FreeNumCovered
<1> QED BY <1>4, <1>5, <1>6, <1>7 DEF AllocInv

\* A freed leaf goes on top of a stack that did not hold it.
LEMMA ReleaseLeafSound ==
  ASSUME AllocInv, NEW p, ReleaseLeaf(p),
         startLeaf' \in Leaves \cup {NoLeaf}
  PROVE  AllocInv'
<1> USE AllocatorAssumption DEF AllocatorAssumption
<1> DEFINE n == Len(freeList)
<1>1. /\ freeList \in Seq(Leaves) /\ n \in Nat /\ p \in used /\ p \in Leaves
      /\ used \subseteq Existing /\ used \subseteq Leaves
      /\ freeNum \in Nat /\ freeNum <= n
  BY DEF AllocInv, AllocTypeOK, FreeListSound, FreeNumCovered, ReleaseLeaf
<1>2. /\ freeList' \in Seq(Leaves)
      /\ Len(freeList') = n + 1
      /\ \A i \in 1 .. n : freeList'[i] = freeList[i]
      /\ freeList'[n + 1] = p
  BY <1>1, AppendProperties DEF ReleaseLeaf
<1>3. AllocTypeOK'
  BY <1>1, <1>2 DEF AllocInv, AllocTypeOK, ReleaseLeaf
<1>4. FreeListSound'
  <2>1. Existing' = Existing /\ used' = used \ {p}
    BY DEF Existing, ReleaseLeaf
  <2>2. /\ \A i \in 1 .. n : freeList[i] \in Existing \ used
        /\ \A i, j \in 1 .. n : freeList[i] = freeList[j] => i = j
    BY DEF AllocInv, FreeListSound
  <2>3. \A i \in 1 .. (n + 1) : i \in 1 .. n \/ i = n + 1
    BY <1>1
  <2>4. \A i \in 1 .. (n + 1) : freeList'[i] \in Existing' \ used'
    BY <1>1, <1>2, <2>1, <2>2, <2>3
  <2>5. \A i, j \in 1 .. (n + 1) : freeList'[i] = freeList'[j] => i = j
    BY <1>1, <1>2, <2>2, <2>3
  <2> QED BY <1>1, <1>2, <2>1, <2>4, <2>5 DEF FreeListSound
<1>5. FreeNumCovered'
  BY <1>1, <1>2 DEF FreeNumCovered, ReleaseLeaf
<1> QED BY <1>3, <1>4, <1>5 DEF AllocInv

\* A restart forgets the top of the stack; what is left is still sound, and
\* high enough for the catalog's count because that count was never too big.
LEMMA RestartSound ==
  ASSUME AllocInv, RestartAllocator
  PROVE  AllocInv'
<1> USE AllocatorAssumption DEF AllocatorAssumption
<1> DEFINE n == Len(freeList)
<1>1. /\ freeList \in Seq(Leaves) /\ n \in Nat /\ freeNum \in Nat /\ freeNum <= n
      /\ \A i \in 1 .. n : freeList[i] \in Existing \ used /\ freeList[i] \in Leaves
      /\ \A i, j \in 1 .. n : freeList[i] = freeList[j] => i = j
  BY DEF AllocInv, AllocTypeOK, FreeListSound, FreeNumCovered
<1>2. /\ freeList' \in Seq(Leaves)
      /\ Len(freeList') = freeNum
      /\ \A i \in 1 .. freeNum : freeList'[i] = freeList[i]
  <2>1. freeList' = SubSeq(freeList, 1, freeNum)
    BY DEF RestartAllocator
  <2>2. \A i \in 1 .. freeNum : freeList[i] \in Leaves
    BY <1>1
  <2>3. /\ SubSeq(freeList, 1, freeNum) \in Seq(Leaves)
        /\ Len(SubSeq(freeList, 1, freeNum)) = IF 1 <= freeNum THEN freeNum - 1 + 1 ELSE 0
        /\ \A i \in 1 .. (freeNum - 1 + 1) :
             SubSeq(freeList, 1, freeNum)[i] = freeList[1 + i - 1]
    BY <2>2, <1>1, SubSeqProperties
  <2> QED BY <2>1, <2>3, <1>1
<1>3. /\ Existing' = Existing /\ used' = used /\ freeNum' = freeNum
  BY DEF RestartAllocator, Existing
<1>4. AllocTypeOK'
  BY <1>2 DEF AllocInv, AllocTypeOK, RestartAllocator
<1>5. FreeListSound'
  <2>1. \A i \in 1 .. freeNum : i \in 1 .. n
    BY <1>1
  <2> QED BY <2>1, <1>1, <1>2, <1>3 DEF AllocInv, FreeListSound
<1>6. FreeNumCovered'
  BY <1>1, <1>2, <1>3 DEF FreeNumCovered
<1> QED BY <1>4, <1>5, <1>6 DEF AllocInv
-----------------------------------------------------------------------------
LEMMA InitSound == AllocInit => AllocInv
<1> USE AllocatorAssumption DEF AllocatorAssumption
<1> SUFFICES ASSUME AllocInit PROVE AllocInv
  OBVIOUS
<1>1. freeList \in Seq(Leaves) /\ Len(freeList) = 0
  BY DEF AllocInit
<1>2. AllocTypeOK
  BY <1>1 DEF AllocInit, AllocTypeOK
<1>3. FreeListSound /\ FreeNumCovered
  BY <1>1 DEF AllocInit, FreeListSound, FreeNumCovered
<1> QED BY <1>2, <1>3 DEF AllocInv

\* getLeaf, from the list or from a group made for it.
LEMMA GetLeafSound ==
  ASSUME AllocInv, NEW p, GetLeaf(p)
  PROVE  AllocInv' /\ p \notin used /\ p \in Leaves
<1>1. CASE GetLeafFromList(p)
  <2>1. PoolOK(freeList, freeNum, maxFileId)
    BY <1>1, ListIsPool DEF GetLeafFromList
  <2>2. TakeTop(freeList, freeNum, p) /\ maxFileId' = maxFileId /\ freed' = freed
    BY <1>1 DEF GetLeafFromList
  <2> QED BY <2>1, <2>2, TakeTopSound
<1>2. CASE GetLeafFromNewGroup(p)
  <2>1. PoolOK(freeList \o GroupLeaves(maxFileId), GroupSize, maxFileId + 1)
    BY <1>2, GroupOnTop DEF GetLeafFromNewGroup
  <2>2. /\ TakeTop(freeList \o GroupLeaves(maxFileId), GroupSize, p)
        /\ maxFileId' = maxFileId + 1 /\ freed' = freed
    BY <1>2 DEF GetLeafFromNewGroup
  <2> QED BY <2>1, <2>2, TakeTopSound
<1> QED BY <1>1, <1>2 DEF GetLeaf

LEMMA NewLeafGroupSound ==
  ASSUME AllocInv, NewLeafGroup
  PROVE  AllocInv'
<1> USE AllocatorAssumption DEF AllocatorAssumption
<1>1. /\ PoolOK(freeList', GroupSize, maxFileId')
      /\ Len(freeList') = Len(freeList) + GroupSize
  BY GroupOnTop DEF NewLeafGroup
<1>2. /\ freeNum' = freeNum + GroupSize
      /\ UNCHANGED <<startLeaf, used, usedNum, freed>>
  BY DEF NewLeafGroup
<1>3. AllocTypeOK'
  BY <1>1, <1>2 DEF PoolOK, AllocInv, AllocTypeOK
<1>4. FreeListSound'
  <2>1. Existing \subseteq Existing'
    BY <1>1 DEF PoolOK, Existing, AllocInv, AllocTypeOK
  <2> QED BY <2>1, <1>1, <1>2 DEF PoolOK, AllocInv, FreeListSound, Existing
<1>5. FreeNumCovered'
  <2>1. Len(freeList) \in Nat /\ freeNum \in Nat /\ freeNum <= Len(freeList)
    BY DEF AllocInv, AllocTypeOK, FreeNumCovered
  <2> QED BY <2>1, <1>1, <1>2 DEF FreeNumCovered
<1> QED BY <1>3, <1>4, <1>5 DEF AllocInv

LEMMA StepSound == AllocInv /\ [AllocNext]_allocVars => AllocInv'
<1> SUFFICES ASSUME AllocInv, [AllocNext]_allocVars PROVE AllocInv'
  OBVIOUS
<1>1. CASE NewLeafGroup
  BY <1>1, NewLeafGroupSound
<1>2. ASSUME NEW p \in Leaves, GetLeafFromList(p) PROVE AllocInv'
  BY <1>2, GetLeafSound DEF GetLeaf
<1>3. ASSUME NEW p \in Leaves, GetLeafFromNewGroup(p) PROVE AllocInv'
  BY <1>3, GetLeafSound DEF GetLeaf
<1>4. ASSUME NEW p \in Leaves, FreeLeaf(p) PROVE AllocInv'
  <2>1. startLeaf' \in Leaves \cup {NoLeaf}
    BY <1>4 DEF FreeLeaf, AllocInv, AllocTypeOK
  <2> QED BY <1>4, <2>1, ReleaseLeafSound DEF FreeLeaf
<1>5. ASSUME NEW p \in used \cup {NoLeaf}, SetStartPointer(p) PROVE AllocInv'
  BY <1>5 DEF SetStartPointer, AllocInv, AllocTypeOK, FreeListSound,
              FreeNumCovered, Existing
<1>6. CASE RestartAllocator
  BY <1>6, RestartSound
<1>7. CASE UNCHANGED allocVars
  BY <1>7 DEF allocVars, AllocInv, AllocTypeOK, FreeListSound, FreeNumCovered,
              Existing
<1> QED BY <1>1, <1>2, <1>3, <1>4, <1>5, <1>6, <1>7 DEF AllocNext

\* For groups of any size, any number of files and any sequence of calls and
\* restarts the types hold, the free stack never holds a leaf twice or a leaf
\* in use, and the catalog never counts more leaves than the stack holds.
THEOREM AllocatorSound == AllocSpec => []AllocInv
BY InitSound, StepSound, PTL DEF AllocSpec

\* The allocator's types, for every value of the constants.
THEOREM AllocatorTypes == AllocSpec => []AllocTypeOK
<1>1. AllocInv => AllocTypeOK
  BY DEF AllocInv
<1> QED BY <1>1, AllocatorSound, PTL

\* No leaf is ever on the free stack twice, or there while it is used.
THEOREM FreeListAlwaysSound == AllocSpec => []FreeListSound
<1>1. AllocInv => FreeListSound
  BY DEF AllocInv
<1> QED BY <1>1, AllocatorSound, PTL

\* A pop, or a restart, never reads an entry that was not pushed.
THEOREM PopNeverUnderflows == AllocSpec => []FreeNumCovered
<1>1. AllocInv => FreeNumCovered
  BY DEF AllocInv
<1> QED BY <1>1, AllocatorSound, PTL
-----------------------------------------------------------------------------
\* Counting the leaves.  used is finite, and getLeaf and freeLeaf move exactly
\* one leaf into and out of it.
LEMMA UsedFinite ==
  ASSUME AllocInv
  PROVE  IsFiniteSet(used) /\ Cardinality(used) \in Nat
<1> USE AllocatorAssumption DEF AllocatorAssumption
<1>1. IsFiniteSet(Files) /\ IsFiniteSet(1 .. GroupSize)
  BY FS_Interval DEF Files
<1>2. IsFiniteSet(Leaves)
  BY <1>1, FS_Product DEF Leaves
<1>3. used \in SUBSET Leaves
  BY DEF AllocInv, AllocTypeOK
<1>4. IsFiniteSet(used)
  BY <1>2, <1>3, FS_Subset
<1> QED BY <1>4, FS_CardinalityType

\* Of GroupSize more leaves and one more group the product grows by GroupSize.
LEMMA OneMoreGroup ==
  ASSUME NEW n \in Nat
  PROVE  GroupSize * n = GroupSize * (n - 1) + GroupSize
BY AllocatorAssumption DEF AllocatorAssumption

LEMMA CountStep ==
  ASSUME AllocInv, OneLeafLostPerFree, [AllocNext]_allocVars
  PROVE  OneLeafLostPerFree'
<1> USE AllocatorAssumption DEF AllocatorAssumption
<1>1. IsFiniteSet(used) /\ Cardinality(used) \in Nat
  BY UsedFinite
<1>2. freeNum \in Nat /\ freed \in Nat /\ maxFileId \in Nat \ {0}
  BY DEF AllocInv, AllocTypeOK
<1>3. GroupSize * maxFileId = GroupSize * (maxFileId - 1) + GroupSize
  BY <1>2, OneMoreGroup
<1>4. /\ GroupSize * (maxFileId - 1) \in Int
      /\ freeNum + Cardinality(used) + freed = GroupSize * (maxFileId - 1)
  BY <1>2 DEF OneLeafLostPerFree
<1>5. ASSUME NEW p, NEW pool, NEW num \in Int, TakeTop(pool, num, p), p \notin used
      PROVE  freeNum' = num - 1 /\ Cardinality(used') = Cardinality(used) + 1
  BY <1>1, <1>5, FS_AddElement DEF TakeTop
<1>6. CASE NewLeafGroup
  BY <1>1, <1>2, <1>3, <1>4, <1>6 DEF NewLeafGroup, OneLeafLostPerFree
<1>7. ASSUME NEW p \in Leaves, GetLeafFromList(p) PROVE OneLeafLostPerFree'
  <2>1. p \notin used
    BY <1>7, GetLeafSound DEF GetLeaf
  <2>2. freeNum' = freeNum - 1 /\ Cardinality(used') = Cardinality(used) + 1
    BY <1>2, <1>5, <1>7, <2>1 DEF GetLeafFromList
  <2>3. maxFileId' = maxFileId /\ freed' = freed
    BY <1>7 DEF GetLeafFromList
  <2> QED BY <1>1, <1>2, <1>4, <2>2, <2>3 DEF OneLeafLostPerFree
<1>8. ASSUME NEW p \in Leaves, GetLeafFromNewGroup(p) PROVE OneLeafLostPerFree'
  <2>1. p \notin used
    BY <1>8, GetLeafSound DEF GetLeaf
  <2>2. freeNum' = GroupSize - 1 /\ Cardinality(used') = Cardinality(used) + 1
    BY <1>5, <1>8, <2>1 DEF GetLeafFromNewGroup
  <2>3. freeNum = 0 /\ maxFileId' - 1 = maxFileId /\ freed' = freed
    BY <1>2, <1>8 DEF GetLeafFromNewGroup
  <2>4. freeNum' + Cardinality(used') + freed' = GroupSize * maxFileId
    BY <1>1, <1>2, <1>3, <1>4, <2>2, <2>3
  <2> QED BY <2>3, <2>4 DEF OneLeafLostPerFree
<1>9. ASSUME NEW p \in Leaves, FreeLeaf(p) PROVE OneLeafLostPerFree'
  <2>1. Cardinality(used') = Cardinality(used) - 1
    BY <1>1, <1>9, FS_RemoveElement DEF FreeLeaf, ReleaseLeaf
  <2>2. /\ freed' = freed + 1 /\ freeNum' = freeNum
        /\ maxFileId' = maxFileId
    BY <1>9 DEF FreeLeaf, ReleaseLeaf
  <2>3. freeNum' + Cardinality(used') + freed' = freeNum + Cardinality(used) + freed
    BY <1>1, <1>2, <2>1, <2>2
  <2> QED BY <1>4, <2>2, <2>3 DEF OneLeafLostPerFree
<1>10. ASSUME NEW p \in used \cup {NoLeaf}, SetStartPointer(p)
       PROVE  OneLeafLostPerFree'
  BY <1>10 DEF SetStartPointer, OneLeafLostPerFree
<1>11. CASE RestartAllocator
  BY <1>11 DEF RestartAllocator, OneLeafLostPerFree
<1>12. CASE UNCHANGED allocVars
  BY <1>12 DEF allocVars, OneLeafLostPerFree
<1> QED BY <1>6, <1>7, <1>8, <1>9, <1>10, <1>11, <1>12 DEF AllocNext

\* The catalog's count is short by exactly the number of leaves ever freed,
\* whatever the calls and the restarts between them: the leak is one leaf per
\* freeLeaf, and there is no other.
THEOREM ExactlyOneLeafLostPerFree == AllocSpec => []OneLeafLostPerFree
<1>1. AllocInit => OneLeafLostPerFree
  BY AllocatorAssumption, FS_EmptySet
     DEF AllocInit, OneLeafLostPerFree, AllocatorAssumption
<1>2. AllocInv /\ OneLeafLostPerFree /\ [AllocNext]_allocVars => OneLeafLostPerFree'
  BY CountStep
<1> QED BY <1>1, <1>2, AllocatorSound, PTL DEF AllocSpec

-----------------------------------------------------------------------------
(***************************************************************************)
(* The chain                                                               *)
(***************************************************************************)

\* No leaf twice, none that is not used.
OwnedBy(s) ==
  /\ \A i, j \in 1 .. Len(s) : s[i] = s[j] => i = j
  /\ \A i \in 1 .. Len(s) : s[i] \in used

\* Every used leaf is in s.
AllIn(s) == \A p \in used : \E i \in 1 .. Len(s) : s[i] = p

\* The tree is being loaded, and has been so far.
PrefixLoaded ==
  /\ Len(leaves) \in 1 .. Len(saved)
  /\ \A i \in 1 .. Len(leaves) : leaves[i] = saved[i]
  /\ Linked(leaves)

\* Whatever happened, the tree holds used leaves, each of them once.
OwnInv ==
  /\ fault # "zombie" => OwnedBy(leaves)
  /\ mode = "open" => fault # "zombie"
  /\ mode = "closed" => leaves = <<>> /\ fault = "none"
  /\ mode = "loading" => leaves # <<>>

\* Where prev and next are the neighbours, and where they are null.
LinkInv ==
  /\ mode = "open" /\ ~split => Linked(leaves)
  /\ mode = "loading" => Linked(leaves)
  /\ mode # "open" =>
       \A p \in Leaves : (\A i \in 1 .. Len(leaves) : leaves[i] # p) =>
                           next[p] = NoLeaf /\ prev[p] = NoLeaf

\* Unless something made the chain unsafe, it is right: in the open tree, in
\* the closed one, and in what is loaded of it.
SafeInv ==
  ~unsafe =>
    /\ fault \notin {"zombie", "dangling"}
    /\ mode = "open" => IsDurableChain(leaves) /\ AllIn(leaves)
    /\ mode # "open" => IsDurableChain(saved) /\ OwnedBy(saved) /\ AllIn(saved)
    /\ mode = "loading" => PrefixLoaded

ChainInv == ChainTypeOK /\ AllocInv /\ OwnInv /\ LinkInv /\ SafeInv
-----------------------------------------------------------------------------
\* What InsertAt and RemoveAt return, element by element.
LEMMA InsertAtProperties ==
  ASSUME NEW S, NEW s \in Seq(S), NEW i \in 1 .. Len(s), NEW e \in S
  PROVE  /\ InsertAt(s, i + 1, e) \in Seq(S)
         /\ Len(InsertAt(s, i + 1, e)) = Len(s) + 1
         /\ \A j \in 1 .. i : InsertAt(s, i + 1, e)[j] = s[j]
         /\ InsertAt(s, i + 1, e)[i + 1] = e
         /\ \A j \in (i + 2) .. (Len(s) + 1) : InsertAt(s, i + 1, e)[j] = s[j - 1]
<1> DEFINE a == SubSeq(s, 1, i)
           c == SubSeq(s, i + 1, Len(s))
           ae == a \o <<e>>
           n == Len(s)
<1>1. n \in Nat /\ i \in Nat \ {0} /\ i <= n /\ \A j \in 1 .. n : s[j] \in S
  OBVIOUS
<1>2. a \in Seq(S) /\ Len(a) = i /\ \A j \in 1 .. i : a[j] = s[j]
  <2>1. \A j \in 1 .. i : s[j] \in S
    BY <1>1
  <2>2. /\ SubSeq(s, 1, i) \in Seq(S)
        /\ Len(SubSeq(s, 1, i)) = IF 1 <= i THEN i - 1 + 1 ELSE 0
        /\ \A j \in 1 .. (i - 1 + 1) : SubSeq(s, 1, i)[j] = s[1 + j - 1]
    BY <1>1, <2>1, SubSeqProperties
  <2>3. i - 1 + 1 = i /\ 1 <= i /\ \A j \in 1 .. i : 1 + j - 1 = j
    BY <1>1
  <2> QED BY <2>2, <2>3
<1>3. c \in Seq(S) /\ Len(c) = n - i /\ \A j \in 1 .. (n - i) : c[j] = s[i + j]
  <2>1. \A j \in (i + 1) .. n : s[j] \in S
    BY <1>1
  <2>2. /\ SubSeq(s, i + 1, n) \in Seq(S)
        /\ Len(SubSeq(s, i + 1, n)) = IF i + 1 <= n THEN n - (i + 1) + 1 ELSE 0
        /\ \A j \in 1 .. (n - (i + 1) + 1) : SubSeq(s, i + 1, n)[j] = s[(i + 1) + j - 1]
    BY <1>1, <2>1, SubSeqProperties
  <2> HIDE DEF n
  <2>3. /\ n - (i + 1) + 1 = n - i
        /\ (IF i + 1 <= n THEN n - (i + 1) + 1 ELSE 0) = n - i
        /\ \A j \in 1 .. (n - i) : (i + 1) + j - 1 = i + j
    BY <1>1
  <2>4. Len(SubSeq(s, i + 1, n)) = n - i
    BY <2>2, <2>3
  <2>5. \A j \in 1 .. (n - i) : SubSeq(s, i + 1, n)[j] = s[i + j]
    BY <2>2, <2>3
  <2> QED BY <2>2, <2>4, <2>5 DEF n
<1>4. <<e>> \in Seq(S) /\ Len(<<e>>) = 1 /\ <<e>>[1] = e
  OBVIOUS
<1> HIDE DEF a, c, n
<1>5. /\ ae \in Seq(S) /\ Len(ae) = i + 1
      /\ \A j \in 1 .. i : ae[j] = s[j]
      /\ ae[i + 1] = e
  <2>1. /\ a \o <<e>> \in Seq(S)
        /\ Len(a \o <<e>>) = Len(a) + Len(<<e>>)
        /\ \A j \in 1 .. Len(a) + Len(<<e>>) :
             (a \o <<e>>)[j] = IF j <= Len(a) THEN a[j] ELSE <<e>>[j - Len(a)]
    BY <1>2, <1>4, ConcatProperties, Zenon
  <2>2. \A j \in 1 .. i + 1 : (a \o <<e>>)[j] = IF j <= i THEN a[j] ELSE <<e>>[j - i]
    BY <2>1, <1>2, <1>4
  <2>3. \A j \in 1 .. i : j \in 1 .. i + 1 /\ j <= i
    BY <1>1
  <2>4. i + 1 \in 1 .. i + 1 /\ ~(i + 1 <= i) /\ (i + 1) - i = 1
    BY <1>1
  <2>5. (a \o <<e>>)[i + 1] = e
    BY <2>2, <2>4, <1>4
  <2> QED BY <2>1, <2>2, <2>3, <2>5, <1>2, <1>4
<1> HIDE DEF ae
<1>6. /\ ae \o c \in Seq(S)
      /\ Len(ae \o c) = Len(ae) + Len(c)
      /\ \A j \in 1 .. Len(ae) + Len(c) :
           (ae \o c)[j] = IF j <= Len(ae) THEN ae[j] ELSE c[j - Len(ae)]
  BY <1>3, <1>5, ConcatProperties, Zenon
<1>7. InsertAt(s, i + 1, e) = ae \o c
  <2>1. (i + 1) - 1 = i
    BY <1>1
  <2> QED BY <2>1 DEF InsertAt, ae, a, c
<1>8. Len(ae) + Len(c) = n + 1
  BY <1>1, <1>3, <1>5
<1>9. \A j \in 1 .. i + 1 : j \in 1 .. n + 1 /\ j <= i + 1
  BY <1>1
<1>10. \A j \in (i + 2) .. (n + 1) :
         /\ j \in 1 .. n + 1 /\ ~(j <= i + 1)
         /\ j - (i + 1) \in 1 .. (n - i) /\ i + (j - (i + 1)) = j - 1
  BY <1>1
<1>11. \A j \in 1 .. n + 1 :
         (ae \o c)[j] = IF j <= i + 1 THEN ae[j] ELSE c[j - (i + 1)]
  BY <1>5, <1>6, <1>8
<1>12. \A j \in 1 .. i + 1 : (ae \o c)[j] = ae[j]
  BY <1>9, <1>11
<1>13. \A j \in (i + 2) .. (n + 1) : (ae \o c)[j] = s[j - 1]
  BY <1>3, <1>10, <1>11
<1>14. i + 1 \in 1 .. i + 1 /\ \A j \in 1 .. i : j \in 1 .. i + 1
  BY <1>1
<1> QED BY <1>5, <1>6, <1>7, <1>8, <1>12, <1>13, <1>14 DEF n

LEMMA RemoveAtProperties ==
  ASSUME NEW S, NEW s \in Seq(S), NEW i \in 1 .. Len(s)
  PROVE  /\ RemoveAt(s, i) \in Seq(S)
         /\ Len(RemoveAt(s, i)) = Len(s) - 1
         /\ \A j \in 1 .. (i - 1) : RemoveAt(s, i)[j] = s[j]
         /\ \A j \in i .. (Len(s) - 1) : RemoveAt(s, i)[j] = s[j + 1]
<1> DEFINE a == SubSeq(s, 1, i - 1)
           c == SubSeq(s, i + 1, Len(s))
           n == Len(s)
<1>1. n \in Nat /\ i \in Nat \ {0} /\ i <= n /\ \A j \in 1 .. n : s[j] \in S
  OBVIOUS
<1>2. a \in Seq(S) /\ Len(a) = i - 1 /\ \A j \in 1 .. (i - 1) : a[j] = s[j]
  <2>1. \A j \in 1 .. (i - 1) : s[j] \in S
    BY <1>1
  <2>2. /\ SubSeq(s, 1, i - 1) \in Seq(S)
        /\ Len(SubSeq(s, 1, i - 1)) = IF 1 <= i - 1 THEN (i - 1) - 1 + 1 ELSE 0
        /\ \A j \in 1 .. ((i - 1) - 1 + 1) : SubSeq(s, 1, i - 1)[j] = s[1 + j - 1]
    BY <1>1, <2>1, SubSeqProperties
  <2> HIDE DEF n
  <2>3. /\ (i - 1) - 1 + 1 = i - 1
        /\ (IF 1 <= i - 1 THEN (i - 1) - 1 + 1 ELSE 0) = i - 1
        /\ \A j \in 1 .. (i - 1) : 1 + j - 1 = j
    BY <1>1
  <2> QED BY <2>2, <2>3
<1>3. c \in Seq(S) /\ Len(c) = n - i /\ \A j \in 1 .. (n - i) : c[j] = s[i + j]
  <2>1. \A j \in (i + 1) .. n : s[j] \in S
    BY <1>1
  <2>2. /\ SubSeq(s, i + 1, n) \in Seq(S)
        /\ Len(SubSeq(s, i + 1, n)) = IF i + 1 <= n THEN n - (i + 1) + 1 ELSE 0
        /\ \A j \in 1 .. (n - (i + 1) + 1) : SubSeq(s, i + 1, n)[j] = s[(i + 1) + j - 1]
    BY <1>1, <2>1, SubSeqProperties
  <2> HIDE DEF n
  <2>3. /\ n - (i + 1) + 1 = n - i
        /\ (IF i + 1 <= n THEN n - (i + 1) + 1 ELSE 0) = n - i
        /\ \A j \in 1 .. (n - i) : (i + 1) + j - 1 = i + j
    BY <1>1
  <2>4. Len(SubSeq(s, i + 1, n)) = n - i
    BY <2>2, <2>3
  <2>5. \A j \in 1 .. (n - i) : SubSeq(s, i + 1, n)[j] = s[i + j]
    BY <2>2, <2>3
  <2> QED BY <2>2, <2>4, <2>5 DEF n
<1> HIDE DEF a, c, n
<1>4. /\ a \o c \in Seq(S)
      /\ Len(a \o c) = Len(a) + Len(c)
      /\ \A j \in 1 .. Len(a) + Len(c) :
           (a \o c)[j] = IF j <= Len(a) THEN a[j] ELSE c[j - Len(a)]
  BY <1>2, <1>3, ConcatProperties, Zenon
<1>5. RemoveAt(s, i) = a \o c
  BY DEF RemoveAt, a, c
<1>6. Len(a) + Len(c) = n - 1
  BY <1>1, <1>2, <1>3
<1>7. \A j \in 1 .. (n - 1) : (a \o c)[j] = IF j <= i - 1 THEN a[j] ELSE c[j - (i - 1)]
  BY <1>2, <1>4, <1>6
<1>8. \A j \in 1 .. (i - 1) : j \in 1 .. (n - 1) /\ j <= i - 1
  BY <1>1
<1>9. \A j \in i .. (n - 1) :
        /\ j \in 1 .. (n - 1) /\ ~(j <= i - 1)
        /\ j - (i - 1) \in 1 .. (n - i) /\ i + (j - (i - 1)) = j + 1
  BY <1>1
<1>10. \A j \in 1 .. (i - 1) : (a \o c)[j] = s[j]
  BY <1>2, <1>7, <1>8
<1>11. \A j \in i .. (n - 1) : (a \o c)[j] = s[j + 1]
  BY <1>3, <1>7, <1>9
<1> QED BY <1>4, <1>5, <1>6, <1>10, <1>11 DEF n
-----------------------------------------------------------------------------
\* What every step needs of the types.
LEMMA Basics ==
  ASSUME ChainTypeOK
  PROVE  /\ NoLeaf \notin Leaves /\ Dangling \notin Leaves /\ NoLeaf # Dangling
         /\ leaves \in Seq(Leaves) /\ saved \in Seq(Leaves)
         /\ Len(leaves) \in Nat /\ Len(saved) \in Nat
         /\ \A i \in 1 .. Len(leaves) : leaves[i] \in Leaves
         /\ \A i \in 1 .. Len(saved) : saved[i] \in Leaves
         /\ next \in [Leaves -> Pointers] /\ prev \in [Leaves -> Pointers]
         /\ pNext \in [Leaves -> Leaves \cup {NoLeaf}]
<1>1. NoLeaf \notin Leaves /\ Dangling \notin Leaves /\ NoLeaf # Dangling
  BY AllocatorAssumption DEF AllocatorAssumption, NoLeaf, Dangling, Leaves, Files
<1> QED BY <1>1 DEF ChainTypeOK

LEMMA GetLeafEffect ==
  ASSUME NEW p, GetLeaf(p)
  PROVE  /\ used' = used \cup {p}
         /\ startLeaf' = IF startLeaf = NoLeaf THEN p ELSE startLeaf
BY DEF GetLeaf, GetLeafFromList, GetLeafFromNewGroup, TakeTop

LEMMA ChainInitSound == ChainInit => ChainInv
<1> SUFFICES ASSUME ChainInit PROVE ChainInv
  OBVIOUS
<1>1. AllocInv /\ AllocTypeOK
  BY InitSound DEF ChainInit, AllocInv
<1>2. /\ leaves = <<>> /\ saved = <<>> /\ Len(leaves) = 0 /\ Len(saved) = 0
      /\ leaves \in Seq(Leaves) /\ saved \in Seq(Leaves)
      /\ mode = "open" /\ fault = "none" /\ used = {} /\ startLeaf = NoLeaf
  BY DEF ChainInit, AllocInit
<1>3. ChainTypeOK
  BY <1>1, <1>2 DEF ChainInit, ChainTypeOK, Pointers
<1>4. OwnInv /\ LinkInv /\ SafeInv
  BY <1>2 DEF OwnInv, LinkInv, SafeInv, OwnedBy, Linked, IsDurableChain,
              AllIn, LeafAt
<1> QED BY <1>1, <1>3, <1>4 DEF ChainInv

LEMMA FirstInsertStep ==
  ASSUME ChainInv, NEW p, FirstInsert(p)
  PROVE  ChainInv'
<1>1. /\ AllocInv' /\ AllocTypeOK' /\ p \in Leaves /\ p \notin used
      /\ used' = used \cup {p}
      /\ startLeaf' = IF startLeaf = NoLeaf THEN p ELSE startLeaf
  BY GetLeafSound, GetLeafEffect DEF ChainInv, FirstInsert, AllocInv
<1>2. /\ leaves = <<>> /\ Len(leaves) = 0 /\ leaves' = <<p>> /\ Len(leaves') = 1
      /\ leaves'[1] = p /\ leaves' \in Seq(Leaves)
      /\ mode = "open" /\ mode' = "open" /\ fault = "none" /\ fault' = "none"
      /\ next' = [next EXCEPT ![p] = NoLeaf] /\ prev' = [prev EXCEPT ![p] = NoLeaf]
      /\ pNext' = pNext /\ saved' = saved /\ split' = split
      /\ unsafe' = (unsafe \/ pNext[p] # NoLeaf)
  BY <1>1 DEF FirstInsert, MarkUnsafe
<1>3. ChainTypeOK /\ NoLeaf \in Pointers
  BY DEF ChainInv, Pointers
<1>4. ChainTypeOK'
  BY <1>1, <1>2, <1>3 DEF ChainTypeOK
<1>5. next'[p] = NoLeaf /\ prev'[p] = NoLeaf
  BY <1>1, <1>2, <1>3 DEF ChainTypeOK
<1>6. /\ \A i \in 1 .. Len(leaves') : i = 1
      /\ LeafAt(leaves', 1) = p /\ LeafAt(leaves', 0) = NoLeaf
      /\ LeafAt(leaves', 2) = NoLeaf
  BY <1>2 DEF LeafAt
<1>7. OwnInv'
  BY <1>1, <1>2, <1>6 DEF OwnInv, OwnedBy
<1>8. Linked(leaves)'
  BY <1>2, <1>5, <1>6 DEF Linked, LeafAt
<1>9. LinkInv'
  BY <1>2, <1>8 DEF LinkInv
<1>10. SafeInv'
  <2> SUFFICES ASSUME ~unsafe'
               PROVE  IsDurableChain(leaves)' /\ AllIn(leaves)'
    BY <1>2 DEF SafeInv
  <2>1. ~unsafe /\ pNext[p] = NoLeaf
    BY <1>2
  <2>2. IsDurableChain(leaves) /\ AllIn(leaves)
    BY <1>2, <2>1 DEF ChainInv, SafeInv
  <2>3. startLeaf = NoLeaf /\ used = {}
    BY <1>2, <2>2 DEF IsDurableChain, AllIn, LeafAt
  <2> QED BY <1>1, <1>2, <1>6, <2>1, <2>3 DEF IsDurableChain, AllIn, LeafAt
<1> QED BY <1>1, <1>4, <1>7, <1>9, <1>10 DEF ChainInv

LEMMA SplitLeafStep ==
  ASSUME ChainInv, NEW i \in 1 .. Len(leaves), NEW q, SplitLeaf(i, q)
  PROVE  ChainInv'
<1> DEFINE n == Len(leaves)
           p == leaves[i]
<1>1. /\ AllocInv' /\ AllocTypeOK' /\ q \in Leaves /\ q \notin used
      /\ used' = used \cup {q}
      /\ startLeaf' = IF startLeaf = NoLeaf THEN q ELSE startLeaf
  BY GetLeafSound, GetLeafEffect DEF ChainInv, SplitLeaf, AllocInv
<1>2. /\ mode = "open" /\ mode' = "open" /\ fault = "none" /\ fault' = "none"
      /\ leaves' = InsertAt(leaves, i + 1, q)
      /\ pNext' = [pNext EXCEPT ![q] = pNext[p], ![p] = q]
      /\ next' = [next EXCEPT ![p] = q, ![q] = NoLeaf]
      /\ prev' = [prev EXCEPT ![q] = p]
      /\ saved' = saved /\ unsafe' = unsafe
      /\ split' = (split \/ i < n)
  BY DEF SplitLeaf
<1>3. ChainTypeOK /\ NoLeaf \in Pointers /\ Leaves \subseteq Pointers
  BY DEF ChainInv, Pointers
<1>4. /\ NoLeaf \notin Leaves /\ leaves \in Seq(Leaves) /\ n \in Nat
      /\ \A j \in 1 .. n : leaves[j] \in Leaves
      /\ p \in Leaves /\ i \in Nat \ {0} /\ i <= n
      /\ next \in [Leaves -> Pointers] /\ prev \in [Leaves -> Pointers]
      /\ pNext \in [Leaves -> Leaves \cup {NoLeaf}]
  BY <1>3, Basics
<1>5. /\ leaves' \in Seq(Leaves) /\ Len(leaves') = n + 1
      /\ \A j \in 1 .. i : leaves'[j] = leaves[j]
      /\ leaves'[i + 1] = q
      /\ \A j \in (i + 2) .. (n + 1) : leaves'[j] = leaves[j - 1]
  <2>1. /\ InsertAt(leaves, i + 1, q) \in Seq(Leaves)
        /\ Len(InsertAt(leaves, i + 1, q)) = Len(leaves) + 1
        /\ \A j \in 1 .. i : InsertAt(leaves, i + 1, q)[j] = leaves[j]
        /\ InsertAt(leaves, i + 1, q)[i + 1] = q
        /\ \A j \in (i + 2) .. (Len(leaves) + 1) :
             InsertAt(leaves, i + 1, q)[j] = leaves[j - 1]
    <3>1. leaves \in Seq(Leaves) /\ q \in Leaves /\ i \in 1 .. Len(leaves)
      BY <1>1, <1>4
    <3> HIDE DEF n, p
    <3> QED BY <3>1, InsertAtProperties
  <2>2. leaves' = InsertAt(leaves, i + 1, q)
    BY <1>2
  <2> QED BY <2>1, <2>2, Zenon
<1>6. OwnedBy(leaves)
  BY <1>2 DEF ChainInv, OwnInv
<1>7. p \in used /\ p # q /\ \A j \in 1 .. n : leaves[j] # q /\ leaves[j] \in used
  BY <1>1, <1>6 DEF OwnedBy
<1> HIDE DEF n, p
<1>8. ChainTypeOK'
  BY <1>1, <1>2, <1>3, <1>4, <1>5 DEF ChainTypeOK
<1>9. \A j \in 1 .. (n + 1) :
        \/ j \in 1 .. i /\ j \in 1 .. n
        \/ j = i + 1
        \/ j \in (i + 2) .. (n + 1) /\ j - 1 \in 1 .. n /\ j - 1 > i
  BY <1>4
<1>10. OwnedBy(leaves)'
  <2>1. \A j \in 1 .. (n + 1) : leaves'[j] \in used'
    BY <1>1, <1>5, <1>7, <1>9
  <2>2. ASSUME NEW j \in 1 .. (n + 1), NEW k \in 1 .. (n + 1), leaves'[j] = leaves'[k]
        PROVE  j = k
    <3>1. \A x, y \in 1 .. n : leaves[x] = leaves[y] => x = y
      BY <1>6 DEF OwnedBy, n
    <3>2. \A x \in 1 .. (n + 1) : leaves'[x] = q => x = i + 1
      BY <1>5, <1>7, <1>9
    <3>3. CASE j = i + 1 \/ k = i + 1
      BY <1>5, <2>2, <3>2, <3>3
    <3>4. CASE j \in 1 .. i
      <4>1. CASE k \in 1 .. i
        BY <1>5, <1>9, <2>2, <3>1, <3>4, <4>1
      <4>2. CASE k \in (i + 2) .. (n + 1)
        <5>1. leaves[j] = leaves[k - 1] /\ j \in 1 .. n /\ k - 1 \in 1 .. n /\ k - 1 > i
          BY <1>5, <1>9, <1>4, <2>2, <3>4, <4>2
        <5> QED BY <1>4, <3>1, <3>4, <5>1
      <4> QED BY <1>9, <3>3, <4>1, <4>2
    <3>5. CASE j \in (i + 2) .. (n + 1)
      <4>1. leaves'[j] = leaves[j - 1] /\ j - 1 \in 1 .. n /\ j - 1 > i
        BY <1>4, <1>5, <3>5
      <4>2. CASE k \in 1 .. i
        <5>1. leaves[k] = leaves[j - 1] /\ k \in 1 .. n
          <6>1. k \in 1 .. n
            BY <1>4, <4>2
          <6>2. leaves'[k] = leaves[k]
            BY <1>5, <4>2
          <6> QED BY <2>2, <4>1, <6>1, <6>2
        <5> QED BY <1>4, <3>1, <4>1, <4>2, <5>1
      <4>3. CASE k \in (i + 2) .. (n + 1)
        <5>1. leaves[k - 1] = leaves[j - 1] /\ k - 1 \in 1 .. n
          <6>1. k - 1 \in 1 .. n
            BY <1>4, <4>3
          <6>2. leaves'[k] = leaves[k - 1]
            BY <1>5, <4>3
          <6> QED BY <2>2, <4>1, <6>1, <6>2
        <5>2. k - 1 = j - 1
          BY <3>1, <4>1, <5>1
        <5> QED BY <1>4, <5>2
      <4> QED BY <1>9, <3>3, <4>2, <4>3
    <3> QED BY <1>9, <3>3, <3>4, <3>5
  <2> QED BY <1>5, <2>1, <2>2 DEF OwnedBy
<1>11. OwnInv'
  BY <1>2, <1>10 DEF OwnInv
<1>12. p = leaves[i] /\ n = Len(leaves)
  BY DEF p, n
<1>13. ASSUME NEW j \in 1 .. n PROVE leaves[j] = p => j = i
  BY <1>6, <1>12 DEF OwnedBy
<1>14. ASSUME NEW j \in 1 .. (n + 1)
       PROVE  LeafAt(leaves', j) = leaves'[j]
  BY <1>5 DEF LeafAt
<1>15. LeafAt(leaves', 0) = NoLeaf /\ LeafAt(leaves', n + 2) = NoLeaf
  BY <1>4, <1>5 DEF LeafAt
<1>16. LinkInv'
  <2>0. mode' = "open" /\ mode' # "loading"
    BY <1>2
  <2> SUFFICES ASSUME ~split' PROVE Linked(leaves)'
    BY <2>0 DEF LinkInv
  <2>1. i = n /\ ~split
    <3>1. ~(split \/ i < n)
      BY <1>2, Zenon
    <3> QED BY <1>4, <3>1
  <2>2. Linked(leaves)
    BY <1>2, <2>1 DEF ChainInv, LinkInv
  <2> SUFFICES ASSUME NEW j \in 1 .. (n + 1)
               PROVE  /\ prev'[leaves'[j]] = LeafAt(leaves', j - 1)
                      /\ next'[leaves'[j]] = LeafAt(leaves', j + 1)
    BY <1>5 DEF Linked, LeafAt
  <2>3. CASE j = n + 1
    <3>1. leaves'[j] = q /\ j - 1 = n /\ j + 1 = n + 2 /\ n \in 1 .. (n + 1)
      BY <1>4, <1>5, <2>1, <2>3
    <3>2. LeafAt(leaves', j - 1) = p
      BY <1>4, <1>5, <1>12, <1>14, <2>1, <3>1
    <3>3. LeafAt(leaves', j + 1) = NoLeaf
      BY <1>15, <3>1
    <3>4. prev'[q] = p /\ next'[q] = NoLeaf
      BY <1>1, <1>2, <1>4, <1>7
    <3> QED BY <3>1, <3>2, <3>3, <3>4
  <2>4. CASE j \in 1 .. n
    <3>1. leaves'[j] = leaves[j] /\ leaves[j] \in Leaves /\ leaves[j] # q
      BY <1>4, <1>5, <1>7, <2>1, <2>4
    <3>2. prev'[leaves[j]] = prev[leaves[j]]
      BY <1>2, <1>4, <3>1
    <3>3. prev[leaves[j]] = LeafAt(leaves, j - 1)
      BY <2>2, <2>4, <1>12 DEF Linked
    <3>4. LeafAt(leaves', j - 1) = LeafAt(leaves, j - 1)
      BY <1>4, <1>5, <1>12, <2>1, <2>4 DEF LeafAt
    <3>5. next'[leaves[j]] = LeafAt(leaves', j + 1)
      <4>1. CASE j = n
        BY <1>1, <1>2, <1>4, <1>5, <1>7, <1>12, <1>14, <2>1, <4>1
      <4>2. CASE j # n
        <5>1. j + 1 \in 1 .. n /\ leaves'[j + 1] = leaves[j + 1]
          BY <1>4, <1>5, <2>1, <2>4, <4>2
        <5>2. next[leaves[j]] = leaves[j + 1]
          BY <2>2, <2>4, <5>1, <1>12 DEF Linked, LeafAt
        <5>3. leaves[j] # p
          BY <1>13, <2>1, <2>4, <4>2
        <5>4. next'[leaves[j]] = next[leaves[j]]
          BY <1>2, <1>4, <3>1, <5>3
        <5>5. LeafAt(leaves', j + 1) = leaves'[j + 1]
          BY <1>14, <5>1, <1>4
        <5> QED BY <5>1, <5>2, <5>4, <5>5
      <4> QED BY <4>1, <4>2
    <3> QED BY <3>1, <3>2, <3>3, <3>4, <3>5
  <2> QED BY <1>4, <2>3, <2>4
<1>17. SafeInv'
  <2> SUFFICES ASSUME ~unsafe
               PROVE  IsDurableChain(leaves)' /\ AllIn(leaves)'
    BY <1>2 DEF SafeInv
  <2>1. IsDurableChain(leaves) /\ AllIn(leaves)
    BY <1>2 DEF ChainInv, SafeInv
  <2>2. startLeaf' = LeafAt(leaves', 1)
    <3>1. startLeaf = leaves[1] /\ leaves[1] # NoLeaf /\ leaves'[1] = leaves[1]
      BY <1>4, <1>5, <1>12, <2>1 DEF IsDurableChain, LeafAt
    <3>2. LeafAt(leaves', 1) = leaves'[1]
      BY <1>14, <1>4
    <3> QED BY <1>1, <3>1, <3>2
  <2>3. ASSUME NEW j \in 1 .. (n + 1)
        PROVE  pNext'[leaves'[j]] = LeafAt(leaves', j + 1)
    <3>1. \A k \in 1 .. n : pNext[leaves[k]] = LeafAt(leaves, k + 1)
      BY <1>12, <2>1 DEF IsDurableChain
    <3>2. CASE j = i + 1
      <4>1. leaves'[j] = q /\ pNext'[q] = LeafAt(leaves, i + 1)
        BY <1>1, <1>2, <1>4, <1>5, <1>7, <1>12, <3>1, <3>2
      <4>2. LeafAt(leaves', i + 2) = LeafAt(leaves, i + 1)
        BY <1>4, <1>5, <1>12 DEF LeafAt
      <4>3. j + 1 = i + 2
        BY <1>4, <3>2
      <4> QED BY <4>1, <4>2, <4>3
    <3>3. CASE j = i
      <4>1. leaves'[j] = p /\ pNext'[p] = q
        BY <1>1, <1>2, <1>4, <1>5, <1>7, <1>12, <3>3
      <4>2. LeafAt(leaves', j + 1) = q
        BY <1>4, <1>5, <1>14, <3>3
      <4> QED BY <4>1, <4>2
    <3>4. CASE j \in 1 .. i /\ j # i
      <4>1. /\ leaves'[j] = leaves[j] /\ j \in 1 .. n /\ j + 1 \in 1 .. n
            /\ leaves'[j + 1] = leaves[j + 1]
        BY <1>4, <1>5, <3>4
      <4>2. leaves[j] # p /\ leaves[j] # q /\ leaves[j] \in Leaves
        BY <1>4, <1>7, <1>13, <3>4, <4>1
      <4>3. pNext'[leaves[j]] = pNext[leaves[j]]
        BY <1>2, <1>4, <4>2
      <4>4. pNext[leaves[j]] = leaves[j + 1]
        BY <3>1, <4>1, <1>12 DEF LeafAt
      <4>5. LeafAt(leaves', j + 1) = leaves'[j + 1]
        BY <1>14, <4>1, <1>4
      <4> QED BY <4>1, <4>3, <4>4, <4>5
    <3>5. CASE j \in (i + 2) .. (n + 1)
      <4>1. leaves'[j] = leaves[j - 1] /\ j - 1 \in 1 .. n /\ j - 1 # i /\ (j - 1) + 1 = j
        BY <1>4, <1>5, <3>5
      <4>2. leaves[j - 1] # p /\ leaves[j - 1] # q /\ leaves[j - 1] \in Leaves
        BY <1>4, <1>7, <1>13, <4>1
      <4>3. pNext'[leaves[j - 1]] = LeafAt(leaves, j)
        BY <1>2, <1>4, <3>1, <4>1, <4>2
      <4>4. LeafAt(leaves', j + 1) = LeafAt(leaves, j)
        <5>1. CASE j = n + 1
          <6>1. LeafAt(leaves, j) = NoLeaf
            BY <1>4, <1>12, <5>1 DEF LeafAt
          <6>2. j + 1 = n + 2
            BY <1>4, <5>1
          <6> QED BY <1>15, <6>1, <6>2
        <5>2. CASE j # n + 1
          <6>1. /\ j \in 1 .. n /\ j + 1 \in (i + 2) .. (n + 1)
                /\ j + 1 \in 1 .. (n + 1) /\ (j + 1) - 1 = j
            BY <1>4, <3>5, <5>2
          <6>2. LeafAt(leaves', j + 1) = leaves'[j + 1] /\ leaves'[j + 1] = leaves[j]
            BY <1>5, <1>14, <6>1
          <6>3. LeafAt(leaves, j) = leaves[j]
            BY <1>12, <6>1 DEF LeafAt
          <6> QED BY <6>2, <6>3
        <5> QED BY <5>1, <5>2
      <4> QED BY <4>1, <4>3, <4>4
    <3> QED BY <1>9, <3>2, <3>3, <3>4, <3>5
  <2>4. AllIn(leaves)'
    <3> SUFFICES ASSUME NEW x \in used'
                 PROVE  \E j \in 1 .. (n + 1) : leaves'[j] = x
      BY <1>5 DEF AllIn
    <3>1. CASE x = q
      BY <1>4, <1>5, <3>1
    <3>2. CASE x \in used
      <4>1. PICK k \in 1 .. n : leaves[k] = x
        BY <1>12, <2>1, <3>2 DEF AllIn
      <4>2. CASE k <= i
        BY <1>4, <1>5, <4>1, <4>2
      <4>3. CASE k > i
        <5>1. k + 1 \in (i + 2) .. (n + 1) /\ (k + 1) - 1 = k /\ k + 1 \in 1 .. (n + 1)
          BY <1>4, <4>3
        <5> QED BY <1>5, <4>1, <5>1
      <4> QED BY <1>4, <4>2, <4>3
    <3> QED BY <1>1, <3>1, <3>2
  <2>5. IsDurableChain(leaves)'
    BY <1>5, <2>2, <2>3 DEF IsDurableChain, LeafAt
  <2> QED BY <2>4, <2>5
<1> QED BY <1>1, <1>8, <1>11, <1>16, <1>17 DEF ChainInv
-----------------------------------------------------------------------------
\* The neighbour of a position, once position i is gone.
LEMMA LeafAtAfterRemove ==
  ASSUME NEW s \in Seq(Leaves), NEW i \in 1 .. Len(s), NEW j \in 0 .. Len(s)
  PROVE  LeafAt(RemoveAt(s, i), j) = LeafAt(s, IF j < i THEN j ELSE j + 1)
<1> DEFINE n == Len(s)
           t == RemoveAt(s, i)
<1>1. /\ t \in Seq(Leaves) /\ Len(t) = n - 1
      /\ \A k \in 1 .. (i - 1) : t[k] = s[k]
      /\ \A k \in i .. (n - 1) : t[k] = s[k + 1]
  BY RemoveAtProperties
<1>2. n \in Nat /\ i \in Nat \ {0} /\ i <= n /\ j \in Nat /\ j <= n /\ n = Len(s)
  OBVIOUS
<1> HIDE DEF n, t
<1>3. CASE j = 0
  BY <1>1, <1>2, <1>3 DEF LeafAt
<1>4. CASE j \in 1 .. (i - 1)
  <2>1. j \in 1 .. (n - 1) /\ j \in 1 .. n /\ j < i
    BY <1>2, <1>4
  <2> QED BY <1>1, <1>2, <1>4, <2>1 DEF LeafAt, t
<1>5. CASE j \in i .. (n - 1)
  <2>1. j \in 1 .. (n - 1) /\ j + 1 \in 1 .. n /\ ~(j < i)
    BY <1>2, <1>5
  <2> QED BY <1>1, <1>2, <1>5, <2>1 DEF LeafAt, t
<1>6. CASE j = n
  <2>1. j \notin 1 .. (n - 1) /\ j + 1 \notin 1 .. n /\ ~(j < i)
    BY <1>2, <1>6
  <2> QED BY <1>1, <1>2, <2>1 DEF LeafAt, t
<1> QED BY <1>2, <1>3, <1>4, <1>5, <1>6

\* What remove's surgery does to the neighbours, when prev and next are right.
LEMMA UnlinkEffect ==
  ASSUME ChainTypeOK, OwnedBy(leaves), Linked(leaves),
         NEW i \in 1 .. Len(leaves), Unlink(leaves[i])
  PROVE  /\ \A k \in 1 .. Len(leaves) :
              k # i => /\ next'[leaves[k]] = LeafAt(leaves, IF k = i - 1 THEN i + 1 ELSE k + 1)
                       /\ prev'[leaves[k]] = LeafAt(leaves, IF k = i + 1 THEN i - 1 ELSE k - 1)
                       /\ pNext'[leaves[k]] = IF k = i - 1 THEN LeafAt(leaves, i + 1)
                                              ELSE pNext[leaves[k]]
         /\ startLeaf' = IF i = 1 THEN pNext[leaves[i]] ELSE startLeaf
<1> DEFINE n == Len(leaves)
           p == leaves[i]
           L == LeafAt(leaves, i - 1)
           R == LeafAt(leaves, i + 1)
           N == IF prev[p] = NoLeaf THEN next ELSE [next EXCEPT ![prev[p]] = next[p]]
           P == IF next[p] = NoLeaf THEN prev ELSE [prev EXCEPT ![next[p]] = prev[p]]
<1>1. /\ NoLeaf \notin Leaves /\ n \in Nat /\ i \in Nat \ {0} /\ i <= n
      /\ \A k \in 1 .. n : leaves[k] \in Leaves
      /\ p \in Leaves
      /\ next \in [Leaves -> Pointers] /\ prev \in [Leaves -> Pointers]
      /\ pNext \in [Leaves -> Leaves \cup {NoLeaf}]
  BY Basics
<1>2. prev[p] = L /\ next[p] = R
  BY DEF Linked
<1>3. /\ L = IF i = 1 THEN NoLeaf ELSE leaves[i - 1]
      /\ R = IF i = n THEN NoLeaf ELSE leaves[i + 1]
      /\ i # 1 => i - 1 \in 1 .. n
      /\ i # n => i + 1 \in 1 .. n
  BY <1>1 DEF LeafAt
<1>4. \A j, k \in 1 .. n : leaves[j] = leaves[k] => j = k
  BY DEF OwnedBy
<1>5. \A k \in 1 .. n : /\ prev[leaves[k]] = LeafAt(leaves, k - 1)
                        /\ next[leaves[k]] = LeafAt(leaves, k + 1)
  BY DEF Linked
<1>6. /\ next' = Forget(N, p) /\ prev' = Forget(P, p)
      /\ pNext' = IF L = NoLeaf THEN pNext ELSE [pNext EXCEPT ![L] = R]
      /\ startLeaf' = IF L = NoLeaf THEN pNext[p] ELSE startLeaf
  BY <1>2 DEF Unlink
<1> HIDE DEF n, p, L, R, N, P
<1>7. /\ L = NoLeaf <=> i = 1
      /\ R = NoLeaf <=> i = n
  BY <1>1, <1>3
<1>8. p = leaves[i] /\ n = Len(leaves)
      /\ L = LeafAt(leaves, i - 1) /\ R = LeafAt(leaves, i + 1)
  BY DEF p, n, L, R
<1>9. ASSUME NEW k \in 1 .. n, k # i
      PROVE  /\ next'[leaves[k]] = LeafAt(leaves, IF k = i - 1 THEN i + 1 ELSE k + 1)
             /\ prev'[leaves[k]] = LeafAt(leaves, IF k = i + 1 THEN i - 1 ELSE k - 1)
             /\ pNext'[leaves[k]] = IF k = i - 1 THEN R ELSE pNext[leaves[k]]
  <2> DEFINE x == leaves[k]
  <2>1. x \in Leaves /\ x # p /\ k \in Nat \ {0} /\ k <= n
    BY <1>1, <1>4, <1>8, <1>9
  <2>2. x = L <=> k = i - 1
    BY <1>1, <1>3, <1>4, <2>1
  <2>3. x = R <=> k = i + 1
    BY <1>1, <1>3, <1>4, <2>1
  <2>4. R # p /\ L # p
    BY <1>1, <1>3, <1>4, <1>8
  <2>5. prev[x] = LeafAt(leaves, k - 1) /\ next[x] = LeafAt(leaves, k + 1)
    BY <1>5
  <2>6. next[x] = p => k = i - 1
    <3> SUFFICES ASSUME next[x] = p PROVE k = i - 1
      OBVIOUS
    <3>1. k + 1 \in 1 .. n /\ leaves[k + 1] = leaves[i]
      BY <1>1, <1>8, <2>5 DEF LeafAt
    <3> QED BY <1>1, <1>4, <2>1, <3>1
  <2>7. prev[x] = p => k = i + 1
    <3> SUFFICES ASSUME prev[x] = p PROVE k = i + 1
      OBVIOUS
    <3>1. k - 1 \in 1 .. n /\ leaves[k - 1] = leaves[i]
      BY <1>1, <1>8, <2>5 DEF LeafAt
    <3> QED BY <1>1, <1>4, <2>1, <3>1
  <2> HIDE DEF x
  <2>8. N[x] = IF k = i - 1 THEN R ELSE next[x]
    BY <1>1, <1>2, <1>3, <1>7, <2>1, <2>2 DEF N
  <2>9. P[x] = IF k = i + 1 THEN L ELSE prev[x]
    BY <1>1, <1>2, <1>3, <1>7, <2>1, <2>3 DEF P
  <2>10. next'[x] = N[x]
    BY <1>6, <2>1, <2>4, <2>6, <2>8 DEF Forget
  <2>11. prev'[x] = P[x]
    BY <1>6, <2>1, <2>4, <2>7, <2>9 DEF Forget
  <2>12. pNext'[x] = IF k = i - 1 THEN R ELSE pNext[x]
    BY <1>1, <1>6, <1>7, <2>1, <2>2
  <2> QED BY <1>8, <2>5, <2>8, <2>9, <2>10, <2>11, <2>12 DEF x
<1> QED BY <1>6, <1>7, <1>8, <1>9

\* The types survive the surgery, whatever state the lists are in.
LEMMA UnlinkTypes ==
  ASSUME ChainTypeOK, NEW p \in Leaves, Unlink(p),
         Dangling \notin {prev[p], next[p]}
  PROVE  /\ next' \in [Leaves -> Pointers] /\ prev' \in [Leaves -> Pointers]
         /\ pNext' \in [Leaves -> Leaves \cup {NoLeaf}]
         /\ startLeaf' \in Leaves \cup {NoLeaf}
<1>1. /\ next \in [Leaves -> Pointers] /\ prev \in [Leaves -> Pointers]
      /\ pNext \in [Leaves -> Leaves \cup {NoLeaf}]
      /\ startLeaf \in Leaves \cup {NoLeaf}
  BY Basics DEF ChainTypeOK, AllocTypeOK
<1>2. prev[p] \in Leaves \cup {NoLeaf} /\ next[p] \in Leaves \cup {NoLeaf}
  BY <1>1 DEF Pointers
<1>3. ASSUME NEW f \in [Leaves -> Pointers]
      PROVE  Forget(f, p) \in [Leaves -> Pointers]
  BY DEF Forget, Pointers
<1>4. Leaves \subseteq Pointers /\ NoLeaf \in Pointers
  BY DEF Pointers
<1>5. next' \in [Leaves -> Pointers]
  <2>1. [next EXCEPT ![prev[p]] = next[p]] \in [Leaves -> Pointers]
    BY <1>1, <1>2, <1>4
  <2> QED BY <1>1, <1>3, <2>1 DEF Unlink
<1>6. prev' \in [Leaves -> Pointers]
  <2>1. [prev EXCEPT ![next[p]] = prev[p]] \in [Leaves -> Pointers]
    BY <1>1, <1>2, <1>4
  <2> QED BY <1>1, <1>3, <2>1 DEF Unlink
<1>7. pNext' \in [Leaves -> Leaves \cup {NoLeaf}] /\ startLeaf' \in Leaves \cup {NoLeaf}
  BY <1>1, <1>2 DEF Unlink
<1> QED BY <1>5, <1>6, <1>7

LEMMA EmptyLeafStep ==
  ASSUME ChainInv, NEW i \in 1 .. Len(leaves), EmptyLeaf(i)
  PROVE  ChainInv'
<1> DEFINE n == Len(leaves)
           p == leaves[i]
<1>1. /\ ChainTypeOK /\ AllocInv /\ OwnInv /\ LinkInv /\ SafeInv
      /\ mode = "open" /\ mode' = "open" /\ fault = "none"
      /\ saved' = saved /\ split' = split
      /\ split \in BOOLEAN /\ unsafe \in BOOLEAN
      /\ unsafe' = (unsafe \/ split)
  BY DEF ChainInv, EmptyLeaf, MarkUnsafe, ChainTypeOK
<1>2. /\ NoLeaf \notin Leaves /\ Dangling \notin Leaves /\ NoLeaf # Dangling
      /\ leaves \in Seq(Leaves) /\ n \in Nat
      /\ \A j \in 1 .. n : leaves[j] \in Leaves
      /\ p \in Leaves /\ i \in Nat \ {0} /\ i <= n
  BY <1>1, Basics
<1>3. OwnedBy(leaves) /\ \A j, k \in 1 .. n : leaves[j] = leaves[k] => j = k
  BY <1>1 DEF OwnInv, OwnedBy
<1>4. ~unsafe' => ~split /\ ~unsafe
  BY <1>1
<1>5. ~split => Linked(leaves)
  BY <1>1 DEF LinkInv
<1>6. ~split => Dangling \notin {prev[p], next[p]}
  <2> SUFFICES ASSUME ~split PROVE Dangling \notin {prev[p], next[p]}
    OBVIOUS
  <2>1. prev[p] = LeafAt(leaves, i - 1) /\ next[p] = LeafAt(leaves, i + 1)
    BY <1>5 DEF Linked
  <2> QED BY <1>2, <2>1 DEF LeafAt
<1>7. CASE Dangling \in {prev[p], next[p]}
  <2>1. /\ fault' = "dangling" /\ UNCHANGED <<allocVars, leaves, next, prev, pNext>>
    BY <1>7 DEF EmptyLeaf
  <2>2. split /\ unsafe'
    BY <1>1, <1>6, <1>7
  <2>3. ChainTypeOK' /\ AllocInv'
    BY <1>1, <2>1 DEF ChainTypeOK, AllocInv, AllocTypeOK, FreeListSound,
                      FreeNumCovered, Existing, allocVars
  <2>4. OwnInv'
    BY <1>1, <1>3, <2>1 DEF OwnInv, OwnedBy, allocVars
  <2>5. mode' = "open" /\ split'
    BY <1>1, <2>2
  <2>6. LinkInv'
    BY <2>5 DEF LinkInv
  <2>7. SafeInv'
    BY <2>2 DEF SafeInv
  <2> QED BY <2>3, <2>4, <2>6, <2>7 DEF ChainInv
<1>8. CASE Dangling \notin {prev[p], next[p]}
  <2>1. /\ Unlink(p) /\ ReleaseLeaf(p)
        /\ leaves' = RemoveAt(leaves, i) /\ fault' = fault
    BY <1>8 DEF EmptyLeaf
  <2>2. /\ next' \in [Leaves -> Pointers] /\ prev' \in [Leaves -> Pointers]
        /\ pNext' \in [Leaves -> Leaves \cup {NoLeaf}]
        /\ startLeaf' \in Leaves \cup {NoLeaf}
    BY <1>1, <1>2, <1>8, <2>1, UnlinkTypes
  <2>3. AllocInv' /\ AllocTypeOK' /\ used' = used \ {p}
    BY <1>1, <2>1, <2>2, ReleaseLeafSound DEF ReleaseLeaf, AllocInv
  <2>4. /\ leaves' \in Seq(Leaves) /\ Len(leaves') = n - 1
        /\ \A j \in 1 .. (i - 1) : leaves'[j] = leaves[j]
        /\ \A j \in i .. (n - 1) : leaves'[j] = leaves[j + 1]
    BY <1>2, <2>1, RemoveAtProperties
  <2>5. ChainTypeOK'
    BY <1>1, <2>1, <2>2, <2>3, <2>4 DEF ChainTypeOK
  <2>6. \A j \in 0 .. n : LeafAt(leaves', j) = LeafAt(leaves, IF j < i THEN j ELSE j + 1)
    BY <1>2, <2>1, LeafAtAfterRemove
  <2> DEFINE old(j) == IF j < i THEN j ELSE j + 1
  <2>7. ASSUME NEW j \in 1 .. (n - 1)
        PROVE  /\ old(j) \in 1 .. n /\ old(j) # i
               /\ leaves'[j] = leaves[old(j)]
    <3>1. CASE j < i
      BY <1>2, <2>4, <3>1
    <3>2. CASE ~(j < i)
      BY <1>2, <2>4, <3>2
    <3> QED BY <3>1, <3>2
  <2>8. \A j, k \in 1 .. (n - 1) : old(j) = old(k) => j = k
    BY <1>2
  <2> HIDE DEF old
  <2>9. OwnedBy(leaves)'
    <3>1. \A j, k \in 1 .. (n - 1) : leaves'[j] = leaves'[k] => j = k
      BY <1>3, <2>7, <2>8
    <3>2. \A j \in 1 .. (n - 1) : leaves'[j] \in used'
      BY <1>3, <2>3, <2>7 DEF OwnedBy
    <3> QED BY <2>4, <3>1, <3>2 DEF OwnedBy
  <2>10. OwnInv'
    BY <1>1, <2>1, <2>9 DEF OwnInv
  <2>11. ASSUME ~split
         PROVE  Linked(leaves)'
    <3>1. ASSUME NEW j \in 1 .. (n - 1)
          PROVE  /\ prev'[leaves'[j]] = LeafAt(leaves', j - 1)
                 /\ next'[leaves'[j]] = LeafAt(leaves', j + 1)
      <4> DEFINE k == old(j)
      <4>1. k \in 1 .. n /\ k # i /\ leaves'[j] = leaves[k]
        BY <2>7
      <4>2. /\ next'[leaves[k]] = LeafAt(leaves, IF k = i - 1 THEN i + 1 ELSE k + 1)
            /\ prev'[leaves[k]] = LeafAt(leaves, IF k = i + 1 THEN i - 1 ELSE k - 1)
        BY <1>1, <1>3, <1>5, <2>1, <2>11, <4>1, UnlinkEffect
      <4>3. /\ (IF k = i - 1 THEN i + 1 ELSE k + 1) = IF j + 1 < i THEN j + 1 ELSE (j + 1) + 1
            /\ (IF k = i + 1 THEN i - 1 ELSE k - 1) = IF j - 1 < i THEN j - 1 ELSE (j - 1) + 1
            /\ j + 1 \in 0 .. n /\ j - 1 \in 0 .. n
        BY <1>2 DEF old
      <4> QED BY <2>6, <4>1, <4>2, <4>3
    <3> QED BY <2>4, <3>1 DEF Linked, LeafAt
  <2>12. LinkInv'
    <3>1. mode' = "open" /\ mode' # "loading" /\ split' = split
      BY <1>1
    <3> QED BY <2>11, <3>1 DEF LinkInv
  <2>13. SafeInv'
    <3> SUFFICES ASSUME ~unsafe'
                 PROVE  IsDurableChain(leaves)' /\ AllIn(leaves)'
      BY <1>1, <2>1 DEF SafeInv
    <3>1. ~split /\ ~unsafe /\ IsDurableChain(leaves) /\ AllIn(leaves) /\ Linked(leaves)
      BY <1>1, <1>4, <1>5 DEF SafeInv
    <3>2. startLeaf' = LeafAt(leaves', 1)
      <4>1. startLeaf' = IF i = 1 THEN pNext[leaves[i]] ELSE startLeaf
        BY <1>1, <1>3, <2>1, <3>1, UnlinkEffect
      <4>2. startLeaf = LeafAt(leaves, 1) /\ pNext[leaves[i]] = LeafAt(leaves, i + 1)
        BY <3>1 DEF IsDurableChain
      <4>3. LeafAt(leaves', 1) = LeafAt(leaves, IF 1 < i THEN 1 ELSE 2)
        BY <1>2, <2>6
      <4> QED BY <1>2, <4>1, <4>2, <4>3
    <3>3. ASSUME NEW j \in 1 .. (n - 1)
          PROVE  pNext'[leaves'[j]] = LeafAt(leaves', j + 1)
      <4> DEFINE k == old(j)
      <4>1. k \in 1 .. n /\ k # i /\ leaves'[j] = leaves[k]
        BY <2>7
      <4>2. pNext'[leaves[k]] = IF k = i - 1 THEN LeafAt(leaves, i + 1) ELSE pNext[leaves[k]]
        BY <1>1, <1>3, <2>1, <3>1, <4>1, UnlinkEffect
      <4>3. pNext[leaves[k]] = LeafAt(leaves, k + 1)
        BY <3>1, <4>1 DEF IsDurableChain
      <4>4. /\ (IF k = i - 1 THEN i + 1 ELSE k + 1) = IF j + 1 < i THEN j + 1 ELSE (j + 1) + 1
            /\ j + 1 \in 0 .. n
        BY <1>2 DEF old
      <4>5. pNext'[leaves[k]] = LeafAt(leaves, IF k = i - 1 THEN i + 1 ELSE k + 1)
        BY <4>2, <4>3
      <4> QED BY <2>6, <4>1, <4>4, <4>5
    <3>4. AllIn(leaves)'
      <4> SUFFICES ASSUME NEW x \in used, x # p
                   PROVE  \E j \in 1 .. (n - 1) : leaves'[j] = x
        BY <2>3, <2>4 DEF AllIn
      <4>1. PICK k \in 1 .. n : leaves[k] = x
        BY <3>1 DEF AllIn
      <4>2. k # i
        BY <4>1
      <4>3. CASE k < i
        <5>1. k \in 1 .. (i - 1) /\ k \in 1 .. (n - 1)
          BY <1>2, <4>3
        <5> QED BY <2>4, <4>1, <5>1
      <4>4. CASE k > i
        <5>1. k - 1 \in i .. (n - 1) /\ k - 1 \in 1 .. (n - 1) /\ (k - 1) + 1 = k
          BY <1>2, <4>4
        <5> QED BY <2>4, <4>1, <5>1
      <4> QED BY <1>2, <4>2, <4>3, <4>4
    <3>5. IsDurableChain(leaves)'
      BY <2>4, <3>2, <3>3 DEF IsDurableChain, LeafAt
    <3> QED BY <3>4, <3>5
  <2> QED BY <2>3, <2>5, <2>10, <2>12, <2>13 DEF ChainInv
<1> QED BY <1>7, <1>8
-----------------------------------------------------------------------------
\* Closing and reopening.
LEMMA CloseStep ==
  ASSUME ChainInv, Close
  PROVE  ChainInv'
<1>1. /\ ChainTypeOK /\ AllocInv /\ OwnInv /\ LinkInv /\ SafeInv
      /\ mode = "open" /\ mode' = "closed" /\ fault = "none" /\ fault' = "none"
      /\ saved' = leaves /\ leaves' = <<>> /\ Len(leaves') = 0
      /\ next' = [p \in Leaves |-> NoLeaf] /\ prev' = [p \in Leaves |-> NoLeaf]
      /\ UNCHANGED <<allocVars, pNext, split, unsafe>>
  BY DEF ChainInv, Close
<1>2. AllocInv' /\ AllocTypeOK'
  BY <1>1 DEF AllocInv, AllocTypeOK, FreeListSound, FreeNumCovered, Existing, allocVars
<1>3. ChainTypeOK'
  BY <1>1, <1>2 DEF ChainTypeOK, Pointers
<1>4. OwnInv'
  BY <1>1 DEF OwnInv, OwnedBy
<1>5. LinkInv'
  BY <1>1 DEF LinkInv
<1>6. SafeInv'
  <2> SUFFICES ASSUME ~unsafe'
               PROVE  IsDurableChain(saved)' /\ OwnedBy(saved)' /\ AllIn(saved)'
    BY <1>1 DEF SafeInv
  <2>1. IsDurableChain(leaves) /\ OwnedBy(leaves) /\ AllIn(leaves)
    BY <1>1 DEF SafeInv, OwnInv
  <2> QED BY <1>1, <2>1 DEF IsDurableChain, OwnedBy, AllIn, LeafAt, allocVars
<1> QED BY <1>2, <1>3, <1>4, <1>5, <1>6 DEF ChainInv

LEMMA RestartStep ==
  ASSUME ChainInv, Restart
  PROVE  ChainInv'
<1>1. /\ ChainTypeOK /\ AllocInv /\ OwnInv /\ LinkInv /\ SafeInv
      /\ RestartAllocator /\ UNCHANGED chainVars
      /\ used' = used /\ startLeaf' = startLeaf
  BY DEF ChainInv, Restart, RestartAllocator
<1>2. AllocInv' /\ AllocTypeOK'
  BY <1>1, RestartSound DEF AllocInv
<1>3. ChainTypeOK'
  BY <1>1, <1>2 DEF ChainTypeOK, chainVars
<1>4. OwnInv'
  BY <1>1 DEF OwnInv, OwnedBy, chainVars
<1>5. LinkInv'
  BY <1>1 DEF LinkInv, Linked, LeafAt, chainVars
<1>6. SafeInv'
  BY <1>1 DEF SafeInv, IsDurableChain, OwnedBy, AllIn, LeafAt, PrefixLoaded,
              Linked, chainVars
<1> QED BY <1>2, <1>3, <1>4, <1>5, <1>6 DEF ChainInv

LEMMA OpenEmptyStep ==
  ASSUME ChainInv, OpenEmpty
  PROVE  ChainInv' /\ (~unsafe => leaves' = saved)
<1>1. /\ ChainTypeOK /\ AllocInv /\ OwnInv /\ LinkInv /\ SafeInv
      /\ mode = "closed" /\ mode' = "open" /\ startLeaf = NoLeaf /\ split' = FALSE
      /\ UNCHANGED <<allocVars, leaves, next, prev, pNext, saved, unsafe, fault>>
      /\ leaves = <<>> /\ Len(leaves) = 0 /\ fault = "none"
  BY DEF ChainInv, OpenEmpty, OwnInv
<1>2. AllocInv' /\ AllocTypeOK'
  BY <1>1 DEF AllocInv, AllocTypeOK, FreeListSound, FreeNumCovered, Existing, allocVars
<1>3. ChainTypeOK'
  BY <1>1, <1>2 DEF ChainTypeOK
<1>4. OwnInv'
  BY <1>1 DEF OwnInv, OwnedBy
<1>5. LinkInv'
  BY <1>1 DEF LinkInv, Linked
<1>6. ASSUME ~unsafe
      PROVE  saved = <<>> /\ IsDurableChain(saved) /\ AllIn(saved)
  <2>1. IsDurableChain(saved) /\ AllIn(saved)
    BY <1>1, <1>6 DEF SafeInv
  <2>2. /\ saved \in Seq(Leaves) /\ NoLeaf \notin Leaves /\ Len(saved) \in Nat
        /\ \A i \in 1 .. Len(saved) : saved[i] \in Leaves
    BY <1>1, Basics
  <2>3. Len(saved) = 0
    BY <1>1, <2>1, <2>2 DEF IsDurableChain, LeafAt
  <2> QED BY <2>1, <2>2, <2>3, EmptySeq
<1>7. SafeInv'
  <2> SUFFICES ASSUME ~unsafe
               PROVE  IsDurableChain(leaves)' /\ AllIn(leaves)'
    BY <1>1 DEF SafeInv
  <2>1. IsDurableChain(leaves) /\ AllIn(leaves)
    BY <1>1, <1>6
  <2> QED BY <1>1, <2>1 DEF IsDurableChain, AllIn, LeafAt, allocVars
<1> QED BY <1>1, <1>2, <1>3, <1>4, <1>5, <1>6, <1>7 DEF ChainInv

LEMMA LoadFirstStep ==
  ASSUME ChainInv, LoadFirst
  PROVE  ChainInv'
<1>1. /\ ChainTypeOK /\ AllocInv /\ OwnInv /\ LinkInv /\ SafeInv
      /\ mode = "closed" /\ mode' = "loading" /\ startLeaf # NoLeaf
      /\ leaves' = <<startLeaf>> /\ leaves = <<>> /\ Len(leaves) = 0
      /\ fault' = IF startLeaf \in used THEN "none" ELSE "zombie"
      /\ UNCHANGED <<allocVars, next, prev, pNext, saved, split, unsafe>>
  BY DEF ChainInv, LoadFirst, OwnInv
<1>2. AllocInv' /\ AllocTypeOK' /\ startLeaf \in Leaves
  BY <1>1 DEF AllocInv, AllocTypeOK, FreeListSound, FreeNumCovered, Existing, allocVars
<1>3. /\ leaves' \in Seq(Leaves) /\ Len(leaves') = 1 /\ leaves'[1] = startLeaf
      /\ leaves' # <<>> /\ \A i \in 1 .. 1 : i = 1
  BY <1>1, <1>2
<1>4. ChainTypeOK'
  BY <1>1, <1>2, <1>3 DEF ChainTypeOK
<1>5. OwnInv'
  BY <1>1, <1>3 DEF OwnInv, OwnedBy, allocVars
<1>6. \A p \in Leaves : next[p] = NoLeaf /\ prev[p] = NoLeaf
  BY <1>1 DEF LinkInv
<1>7. Linked(leaves)'
  BY <1>1, <1>2, <1>3, <1>6 DEF Linked, LeafAt
<1>8. LinkInv'
  BY <1>1, <1>6, <1>7 DEF LinkInv
<1>9. SafeInv'
  <2> SUFFICES ASSUME ~unsafe
               PROVE  /\ fault' = "none" /\ PrefixLoaded'
                      /\ IsDurableChain(saved)' /\ OwnedBy(saved)' /\ AllIn(saved)'
    BY <1>1 DEF SafeInv
  <2>1. IsDurableChain(saved) /\ OwnedBy(saved) /\ AllIn(saved)
    BY <1>1 DEF SafeInv
  <2>2. Len(saved) \in Nat /\ 1 \in 1 .. Len(saved) /\ startLeaf = saved[1]
    BY <1>1, <2>1, Basics DEF IsDurableChain, LeafAt
  <2>3. startLeaf \in used
    BY <2>1, <2>2 DEF OwnedBy
  <2>4. PrefixLoaded'
    BY <1>1, <1>3, <1>7, <2>2 DEF PrefixLoaded
  <2> QED BY <1>1, <2>1, <2>3, <2>4 DEF IsDurableChain, OwnedBy, AllIn, LeafAt, allocVars
<1> QED BY <1>2, <1>4, <1>5, <1>8, <1>9 DEF ChainInv

LEMMA LoadNextStep ==
  ASSUME ChainInv, LoadNext
  PROVE  ChainInv'
<1> DEFINE m == Len(leaves)
           last == leaves[m]
           q == pNext[last]
<1>1. /\ ChainTypeOK /\ AllocInv /\ OwnInv /\ LinkInv /\ SafeInv
      /\ mode = "loading" /\ mode' = "loading" /\ fault = "none" /\ q # NoLeaf
      /\ UNCHANGED <<allocVars, pNext, saved, split, unsafe>>
  BY DEF ChainInv, LoadNext
<1>2. /\ leaves \in Seq(Leaves) /\ m \in Nat \ {0} /\ NoLeaf \notin Leaves
      /\ \A j \in 1 .. m : leaves[j] \in Leaves
      /\ last \in Leaves /\ m \in 1 .. m /\ q \in Leaves
      /\ next \in [Leaves -> Pointers] /\ prev \in [Leaves -> Pointers]
      /\ Leaves \subseteq Pointers
  <2>1. leaves # <<>> /\ leaves \in Seq(Leaves)
    BY <1>1, Basics DEF OwnInv
  <2>2. m \in Nat \ {0}
    BY <2>1, EmptySeq
  <2>3. m \in 1 .. m
    BY <2>2
  <2> QED BY <1>1, <2>1, <2>2, <2>3, Basics DEF Pointers
<1>3. AllocInv' /\ AllocTypeOK'
  BY <1>1 DEF AllocInv, AllocTypeOK, FreeListSound, FreeNumCovered, Existing, allocVars
<1>4. OwnedBy(leaves) /\ Linked(leaves)
  BY <1>1 DEF OwnInv, LinkInv
<1>5. ASSUME ~unsafe
      PROVE  /\ m + 1 \in 1 .. Len(saved) /\ q = saved[m + 1]
             /\ PrefixLoaded /\ IsDurableChain(saved) /\ OwnedBy(saved) /\ AllIn(saved)
             /\ q \in used \ ToSet(leaves)
  <2>1. PrefixLoaded /\ IsDurableChain(saved) /\ OwnedBy(saved) /\ AllIn(saved)
    BY <1>1, <1>5 DEF SafeInv
  <2>2. m \in 1 .. Len(saved) /\ last = saved[m]
    BY <1>2, <2>1 DEF PrefixLoaded
  <2>3. q = LeafAt(saved, m + 1)
    BY <2>1, <2>2 DEF IsDurableChain
  <2>4. m + 1 \in 1 .. Len(saved) /\ q = saved[m + 1]
    BY <1>1, <2>3 DEF LeafAt
  <2>5. q \in used
    BY <2>1, <2>4 DEF OwnedBy
  <2>6. ASSUME NEW j \in 1 .. m PROVE leaves[j] # q
    <3>1. leaves[j] = saved[j] /\ j \in 1 .. Len(saved) /\ j # m + 1
      BY <1>2, <2>1, <2>2 DEF PrefixLoaded
    <3> QED BY <2>1, <2>4, <3>1 DEF OwnedBy
  <2> QED BY <1>2, <2>1, <2>4, <2>5, <2>6 DEF ToSet
<1>6. CASE q \notin used \ ToSet(leaves)
  <2>1. fault' = "zombie" /\ UNCHANGED <<leaves, next, prev>>
    BY <1>6 DEF LoadNext
  <2>2. unsafe /\ unsafe'
    BY <1>1, <1>5, <1>6 DEF ChainTypeOK
  <2>3. ChainTypeOK'
    BY <1>1, <1>3, <2>1 DEF ChainTypeOK
  <2>4. OwnInv'
    BY <1>1, <2>1 DEF OwnInv
  <2>5. LinkInv'
    BY <1>1, <2>1 DEF LinkInv, Linked, LeafAt
  <2>6. SafeInv'
    BY <2>2 DEF SafeInv
  <2> QED BY <1>3, <2>3, <2>4, <2>5, <2>6 DEF ChainInv
<1>7. CASE q \in used \ ToSet(leaves)
  <2>1. /\ leaves' = Append(leaves, q)
        /\ next' = [next EXCEPT ![last] = q]
        /\ prev' = [prev EXCEPT ![q] = last]
        /\ fault' = "none"
    BY <1>1, <1>7 DEF LoadNext
  <2>2. /\ leaves' \in Seq(Leaves) /\ Len(leaves') = m + 1
        /\ \A j \in 1 .. m : leaves'[j] = leaves[j]
        /\ leaves'[m + 1] = q
    BY <1>2, <2>1, AppendProperties
  <2>3. \A j \in 1 .. m : leaves[j] # q
    BY <1>2, <1>7 DEF ToSet
  <2>4. ChainTypeOK'
    BY <1>1, <1>2, <1>3, <2>1, <2>2 DEF ChainTypeOK
  <2>5. \A j \in 1 .. (m + 1) : j \in 1 .. m \/ j = m + 1
    BY <1>2
  <2>6. \A j, k \in 1 .. m : leaves[j] = leaves[k] => j = k
    BY <1>4 DEF OwnedBy
  <2> HIDE DEF m, last, q
  <2>7. m = Len(leaves) /\ last = leaves[m] /\ q = pNext[last]
    BY DEF m, last, q
  <2>8. OwnedBy(leaves)'
    <3>1. \A j, k \in 1 .. (m + 1) : leaves'[j] = leaves'[k] => j = k
      BY <2>2, <2>3, <2>5, <2>6
    <3>2. \A j \in 1 .. (m + 1) : leaves'[j] \in used'
      BY <1>1, <1>4, <1>7, <2>2, <2>5, <2>7 DEF OwnedBy, allocVars
    <3> QED BY <2>2, <3>1, <3>2 DEF OwnedBy
  <2>9. leaves' # <<>>
    BY <1>2, <2>2
  <2>10. OwnInv'
    BY <1>1, <2>1, <2>8, <2>9 DEF OwnInv
  <2>11. \A j \in 1 .. (m + 1) : LeafAt(leaves', j) = leaves'[j]
    BY <2>2 DEF LeafAt
  <2>12. LeafAt(leaves', 0) = NoLeaf /\ LeafAt(leaves', m + 2) = NoLeaf
    BY <1>2, <2>2 DEF LeafAt
  <2>13. Linked(leaves)'
    <3>1. \A j \in 1 .. m : /\ prev[leaves[j]] = LeafAt(leaves, j - 1)
                            /\ next[leaves[j]] = LeafAt(leaves, j + 1)
      BY <1>4, <2>7 DEF Linked
    <3>2. ASSUME NEW j \in 1 .. m
          PROVE  prev'[leaves'[j]] = LeafAt(leaves', j - 1)
      <4>1. prev'[leaves[j]] = prev[leaves[j]] /\ leaves'[j] = leaves[j]
        BY <1>2, <2>1, <2>2, <2>3
      <4>2. LeafAt(leaves', j - 1) = LeafAt(leaves, j - 1)
        <5>1. CASE j = 1
          BY <2>12, <5>1 DEF LeafAt
        <5>2. CASE j # 1
          <6>1. j - 1 \in 1 .. m /\ j - 1 \in 1 .. (m + 1)
            BY <1>2, <5>2
          <6> QED BY <2>2, <2>7, <2>11, <6>1 DEF LeafAt
        <5> QED BY <5>1, <5>2
      <4> QED BY <3>1, <4>1, <4>2
    <3>3. ASSUME NEW j \in 1 .. m
          PROVE  next'[leaves'[j]] = LeafAt(leaves', j + 1)
      <4>1. leaves'[j] = leaves[j] /\ leaves[j] \in Leaves
        BY <1>2, <2>2
      <4>2. CASE j = m
        <5>1. j + 1 \in 1 .. (m + 1)
          BY <1>2, <4>2
        <5>2. LeafAt(leaves', j + 1) = q
          BY <2>2, <2>11, <4>2, <5>1
        <5> QED BY <1>2, <2>1, <2>7, <4>1, <4>2, <5>2
      <4>3. CASE j # m
        <5>1. j + 1 \in 1 .. m /\ j + 1 \in 1 .. (m + 1) /\ m \in 1 .. m
          BY <1>2, <4>3
        <5>2. leaves[j] # last
          BY <2>6, <2>7, <4>3, <5>1
        <5>3. next'[leaves[j]] = leaves[j + 1]
          BY <1>2, <2>1, <2>7, <3>1, <4>1, <5>1, <5>2 DEF LeafAt
        <5> QED BY <2>2, <2>11, <4>1, <5>1, <5>3
      <4> QED BY <4>2, <4>3
    <3>4. prev'[q] = last /\ LeafAt(leaves', m) = last
      <4>1. m \in 1 .. m /\ m \in 1 .. (m + 1)
        BY <1>2
      <4> QED BY <1>2, <2>1, <2>2, <2>7, <2>11, <4>1
    <3>5. next'[q] = NoLeaf
      <4>1. q # last
        BY <1>2, <2>3, <2>7
      <4>2. next[q] = NoLeaf
        BY <1>1, <1>2, <2>3, <2>7 DEF LinkInv
      <4> QED BY <1>2, <2>1, <4>1, <4>2
    <3>6. (m + 1) - 1 = m /\ (m + 1) + 1 = m + 2
      BY <1>2
    <3>7. ASSUME NEW j \in 1 .. (m + 1)
          PROVE  /\ prev'[leaves'[j]] = LeafAt(leaves', j - 1)
                 /\ next'[leaves'[j]] = LeafAt(leaves', j + 1)
      BY <2>2, <2>5, <2>12, <3>2, <3>3, <3>4, <3>5, <3>6
    <3> QED BY <2>2, <3>7 DEF Linked, LeafAt
  <2>14. LinkInv'
    <3> SUFFICES ASSUME NEW p \in Leaves, \A i \in 1 .. (m + 1) : leaves'[i] # p
                 PROVE  next'[p] = NoLeaf /\ prev'[p] = NoLeaf
      BY <1>1, <2>2, <2>13 DEF LinkInv
    <3>1. /\ \A i \in 1 .. m : i \in 1 .. (m + 1)
          /\ m + 1 \in 1 .. (m + 1)
      BY <1>2
    <3>2. p # q /\ p # last /\ \A i \in 1 .. m : leaves[i] # p
      BY <1>2, <2>2, <2>7, <3>1
    <3>3. next[p] = NoLeaf /\ prev[p] = NoLeaf
      BY <1>1, <2>7, <3>2 DEF LinkInv
    <3> QED BY <1>2, <2>1, <3>2, <3>3
  <2>15. SafeInv'
    <3> SUFFICES ASSUME ~unsafe
                 PROVE  /\ PrefixLoaded'
                        /\ IsDurableChain(saved)' /\ OwnedBy(saved)' /\ AllIn(saved)'
      BY <1>1, <2>1 DEF SafeInv
    <3>1. /\ m + 1 \in 1 .. Len(saved) /\ q = saved[m + 1]
          /\ PrefixLoaded /\ IsDurableChain(saved) /\ OwnedBy(saved) /\ AllIn(saved)
      BY <1>5 DEF m, last, q
    <3>2. \A j \in 1 .. m : leaves[j] = saved[j]
      BY <2>7, <3>1 DEF PrefixLoaded
    <3>3. \A j \in 1 .. (m + 1) : leaves'[j] = saved[j]
      BY <2>2, <2>5, <3>1, <3>2
    <3>4. PrefixLoaded'
      BY <1>1, <2>2, <2>13, <3>1, <3>3 DEF PrefixLoaded
    <3> QED BY <1>1, <3>1, <3>4 DEF IsDurableChain, OwnedBy, AllIn, LeafAt, allocVars
  <2> QED BY <1>3, <2>4, <2>10, <2>14, <2>15 DEF ChainInv
<1> QED BY <1>6, <1>7

LEMMA LoadDoneStep ==
  ASSUME ChainInv, LoadDone
  PROVE  ChainInv' /\ (~unsafe => leaves' = saved)
<1> DEFINE m == Len(leaves)
<1>1. /\ ChainTypeOK /\ AllocInv /\ OwnInv /\ LinkInv /\ SafeInv
      /\ mode = "loading" /\ mode' = "open" /\ fault = "none" /\ split' = FALSE
      /\ pNext[leaves[m]] = NoLeaf
      /\ UNCHANGED <<allocVars, leaves, next, prev, pNext, saved, unsafe, fault>>
  BY DEF ChainInv, LoadDone
<1>2. AllocInv' /\ AllocTypeOK'
  BY <1>1 DEF AllocInv, AllocTypeOK, FreeListSound, FreeNumCovered, Existing, allocVars
<1>3. ChainTypeOK'
  BY <1>1, <1>2 DEF ChainTypeOK
<1>4. OwnInv'
  BY <1>1 DEF OwnInv, OwnedBy, allocVars
<1>5. LinkInv'
  BY <1>1 DEF LinkInv, Linked, LeafAt
<1>6. ASSUME ~unsafe
      PROVE  leaves = saved /\ IsDurableChain(saved) /\ AllIn(saved)
  <2>1. PrefixLoaded /\ IsDurableChain(saved) /\ AllIn(saved)
    BY <1>1, <1>6 DEF SafeInv
  <2>2. /\ leaves \in Seq(Leaves) /\ saved \in Seq(Leaves) /\ NoLeaf \notin Leaves
        /\ Len(saved) \in Nat /\ m \in Nat
        /\ \A i \in 1 .. Len(saved) : saved[i] \in Leaves
    BY <1>1, Basics
  <2>3. m \in 1 .. Len(saved) /\ leaves[m] = saved[m]
    BY <2>1, <2>2 DEF PrefixLoaded
  <2>4. LeafAt(saved, m + 1) = NoLeaf
    BY <1>1, <2>1, <2>3 DEF IsDurableChain
  <2>5. m = Len(saved)
    BY <2>2, <2>3, <2>4 DEF LeafAt
  <2>6. leaves = saved
    BY <2>1, <2>2, <2>5, SeqEqual DEF PrefixLoaded
  <2> QED BY <2>1, <2>6
<1>7. SafeInv'
  <2> SUFFICES ASSUME ~unsafe
               PROVE  IsDurableChain(leaves)' /\ AllIn(leaves)'
    BY <1>1 DEF SafeInv
  <2>1. IsDurableChain(leaves) /\ AllIn(leaves)
    BY <1>6
  <2> QED BY <1>1, <2>1 DEF IsDurableChain, AllIn, LeafAt, allocVars
<1> QED BY <1>1, <1>2, <1>3, <1>4, <1>5, <1>6, <1>7 DEF ChainInv

LEMMA AllocationFailsStep ==
  ASSUME ChainInv, AllocationFails
  PROVE  ChainInv'
<1>1. /\ ChainTypeOK /\ AllocInv /\ OwnInv /\ LinkInv /\ SafeInv
      /\ mode = "open" /\ fault = "none" /\ fault' = "nospace"
      /\ UNCHANGED <<allocVars, mode, leaves, next, prev, pNext, saved, split, unsafe>>
  BY DEF ChainInv, AllocationFails
<1>2. AllocInv' /\ AllocTypeOK'
  BY <1>1 DEF AllocInv, AllocTypeOK, FreeListSound, FreeNumCovered, Existing, allocVars
<1>3. ChainTypeOK'
  BY <1>1, <1>2 DEF ChainTypeOK
<1>4. OwnInv' /\ LinkInv'
  BY <1>1 DEF OwnInv, OwnedBy, LinkInv, Linked, LeafAt, allocVars
<1>5. SafeInv'
  BY <1>1 DEF SafeInv, IsDurableChain, AllIn, OwnedBy, LeafAt, allocVars
<1> QED BY <1>2, <1>3, <1>4, <1>5 DEF ChainInv

LEMMA ChainStutter ==
  ASSUME ChainInv, UNCHANGED vars
  PROVE  ChainInv'
<1>1. UNCHANGED allocVars /\ UNCHANGED chainVars
  BY DEF vars
<1>2. AllocInv' /\ AllocTypeOK'
  BY <1>1 DEF ChainInv, AllocInv, AllocTypeOK, FreeListSound, FreeNumCovered, Existing,
              allocVars
<1>3. ChainTypeOK'
  BY <1>1, <1>2 DEF ChainInv, ChainTypeOK, chainVars
<1>4. OwnInv' /\ LinkInv'
  BY <1>1 DEF ChainInv, OwnInv, OwnedBy, LinkInv, Linked, LeafAt, allocVars, chainVars
<1>5. SafeInv'
  BY <1>1 DEF ChainInv, SafeInv, IsDurableChain, AllIn, OwnedBy, PrefixLoaded, Linked,
              LeafAt, allocVars, chainVars
<1> QED BY <1>2, <1>3, <1>4, <1>5 DEF ChainInv
-----------------------------------------------------------------------------
LEMMA ChainStepSound == ChainInv /\ [ChainNext]_vars => ChainInv'
<1> SUFFICES ASSUME ChainInv, [ChainNext]_vars PROVE ChainInv'
  OBVIOUS
<1>1. ASSUME NEW p \in Leaves, FirstInsert(p) PROVE ChainInv'
  BY <1>1, FirstInsertStep
<1>2. ASSUME NEW i \in 1 .. Len(leaves), NEW q \in Leaves, SplitLeaf(i, q)
      PROVE  ChainInv'
  BY <1>2, SplitLeafStep
<1>3. CASE AllocationFails
  BY <1>3, AllocationFailsStep
<1>4. ASSUME NEW i \in 1 .. Len(leaves), EmptyLeaf(i) PROVE ChainInv'
  BY <1>4, EmptyLeafStep
<1>5. CASE Close
  BY <1>5, CloseStep
<1>6. CASE Restart
  BY <1>6, RestartStep
<1>7. CASE OpenEmpty
  BY <1>7, OpenEmptyStep
<1>8. CASE LoadFirst
  BY <1>8, LoadFirstStep
<1>9. CASE LoadNext
  BY <1>9, LoadNextStep
<1>10. CASE LoadDone
  BY <1>10, LoadDoneStep
<1>11. CASE UNCHANGED vars
  BY <1>11, ChainStutter
<1> QED BY <1>1, <1>2, <1>3, <1>4, <1>5, <1>6, <1>7, <1>8, <1>9, <1>10, <1>11
        DEF ChainNext

\* The inductive invariant holds of every tree, allocator and sequence of
\* splits, removals, closings and loads.
THEOREM ChainSound == ChainSpec => []ChainInv
BY ChainInitSound, ChainStepSound, PTL DEF ChainSpec

\* The types of the chain's state, for every value of the constants.
THEOREM ChainTypes == ChainSpec => []ChainTypeOK
<1>1. ChainInv => ChainTypeOK
  BY DEF ChainInv
<1> QED BY <1>1, ChainSound, PTL

\* Between two operations persistent memory names exactly the leaves of the
\* tree in key order, as long as no leaf was emptied after a split of a leaf
\* that is not the last and no first leaf came with an old pNext.
THEOREM ChainAlwaysIntact == ChainSpec => []ChainIntact
<1>1. ChainInv => ChainIntact
  BY DEF ChainInv, SafeInv, ChainIntact
<1> QED BY <1>1, ChainSound, PTL

\* prev and next are the neighbours until a leaf other than the last is split,
\* whatever else happened.
THEOREM ListsAlwaysAgree == ChainSpec => []ListsAgree
<1>1. ChainInv => ListsAgree
  BY DEF ChainInv, LinkInv, ListsAgree
<1> QED BY <1>1, ChainSound, PTL

\* The tree owns its leaves, each once; a safe tree owns all the used ones.
THEOREM LeavesAlwaysOwned == ChainSpec => []LeavesOwned
<1>1. ASSUME ChainInv PROVE LeavesOwned
  <2>1. leaves \in Seq(Leaves) /\ DOMAIN leaves = 1 .. Len(leaves)
    BY Basics, <1>1 DEF ChainInv
  <2>2. ASSUME fault # "zombie"
        PROVE  IsInjective(leaves) /\ ToSet(leaves) \subseteq used
    BY <1>1, <2>1, <2>2 DEF ChainInv, OwnInv, OwnedBy, IsInjective, ToSet
  <2>3. ASSUME mode = "open", ~unsafe
        PROVE  used = ToSet(leaves)
    BY <1>1, <2>1, <2>3 DEF ChainInv, OwnInv, OwnedBy, SafeInv, AllIn, ToSet
  <2> QED BY <2>2, <2>3 DEF LeavesOwned
<1>2. ChainInv => LeavesOwned
  BY <1>1
<1> QED BY <1>2, ChainSound, PTL

\* A tree that nothing made unsafe follows no dangling pointer and loads no
\* freed leaf.
THEOREM NeverUndefined == ChainSpec => []NoUndefinedStep
<1>1. ChainInv => NoUndefinedStep
  BY DEF ChainInv, SafeInv, NoUndefinedStep
<1> QED BY <1>1, ChainSound, PTL

LEMMA LoadsExactly ==
  ASSUME ChainInv, [ChainNext]_vars, mode # "open", mode' = "open", ~unsafe
  PROVE  leaves' = saved
<1>1. CASE OpenEmpty
  BY <1>1, OpenEmptyStep
<1>2. CASE LoadDone
  BY <1>2, LoadDoneStep
<1>3. ASSUME ~OpenEmpty, ~LoadDone PROVE FALSE
  BY <1>3 DEF ChainNext, vars, chainVars, FirstInsert, SplitLeaf, AllocationFails,
              EmptyLeaf, Close, Restart, LoadFirst, LoadNext
<1> QED BY <1>1, <1>2, <1>3

\* Every load of a tree that nothing made unsafe brings back exactly the
\* leaves it was closed with, in their order.
THEOREM RecoveryAlwaysExact == ChainSpec => RecoveryExact
<1>1. ChainInv /\ [ChainNext]_vars
        => [mode # "open" /\ mode' = "open" /\ ~unsafe => leaves' = saved]_vars
  BY LoadsExactly
<1> QED BY <1>1, ChainSound, PTL DEF ChainSpec, RecoveryExact
-----------------------------------------------------------------------------
\* Whatever next leads to leads back, and nothing leads to a leaf that is not in
\* the tree: an invariant of its own, which no split or removal breaks.
NextInv ==
  /\ NextNeverDangles
  /\ \A r, p \in Leaves : next[r] = p => prev[p] = r
  /\ \A p \in Leaves : (\A i \in 1 .. Len(leaves) : leaves[i] # p) => prev[p] = NoLeaf

LEMMA NextInitSound == ChainInit => NextInv
<1> SUFFICES ASSUME ChainInit PROVE NextInv
  OBVIOUS
<1>1. NoLeaf \notin Leaves /\ NoLeaf # Dangling
  BY AllocatorAssumption DEF AllocatorAssumption, NoLeaf, Dangling, Leaves, Files
<1> QED BY <1>1 DEF ChainInit, NextInv, NextNeverDangles

\* q, which nothing led to, follows a in next.
LEMMA NextThreads ==
  ASSUME ChainTypeOK, NextInv, NEW a \in Leaves, NEW q \in Leaves, prev[q] = NoLeaf, NEW e,
         e \in {next[q], NoLeaf}, a # q,
         next' = [next EXCEPT ![a] = q, ![q] = e], prev' = [prev EXCEPT ![q] = a],
         \A p \in Leaves : (\A i \in 1 .. Len(leaves') : leaves'[i] # p) =>
           p # q /\ \A i \in 1 .. Len(leaves) : leaves[i] # p
  PROVE  NextInv'
<1>1. /\ NoLeaf \notin Leaves /\ NoLeaf # Dangling /\ Dangling \notin Leaves
      /\ next \in [Leaves -> Pointers] /\ prev \in [Leaves -> Pointers]
  BY Basics
<1>2. \A r \in Leaves : /\ next'[r] = IF r = q THEN e ELSE IF r = a THEN q ELSE next[r]
                        /\ prev'[r] = IF r = q THEN a ELSE prev[r]
  BY <1>1
<1>3. NextNeverDangles'
  BY <1>1, <1>2 DEF NextInv, NextNeverDangles
<1>4. ASSUME NEW r \in Leaves, NEW p \in Leaves, next'[r] = p
      PROVE  prev'[p] = r
  <2>1. CASE r = q
    <3>1. next[q] = p
      BY <1>1, <1>2, <1>4, <2>1
    <3>2. p # q
      BY <1>1, <3>1 DEF NextInv
    <3> QED BY <1>2, <2>1, <3>1, <3>2 DEF NextInv
  <2>2. CASE r # q /\ r = a
    BY <1>2, <1>4, <2>2
  <2>3. CASE r # q /\ r # a
    <3>1. next[r] = p /\ prev[p] = r
      BY <1>2, <1>4, <2>3 DEF NextInv
    <3>2. p # q
      BY <1>1, <3>1
    <3> QED BY <1>2, <3>1, <3>2
  <2> QED BY <2>1, <2>2, <2>3
<1>5. ASSUME NEW p \in Leaves, \A i \in 1 .. Len(leaves') : leaves'[i] # p
      PROVE  prev'[p] = NoLeaf
  BY <1>2, <1>5 DEF NextInv
<1> QED BY <1>3, <1>4, <1>5 DEF NextInv

LEMMA NextFirstInsert ==
  ASSUME ChainInv, NextInv, NEW p, FirstInsert(p)
  PROVE  NextInv'
<1>1. /\ p \in Leaves /\ ChainTypeOK
  BY GetLeafSound DEF ChainInv, FirstInsert, AllocInv
<1>2. /\ leaves = <<>> /\ Len(leaves) = 0 /\ leaves' = <<p>>
      /\ next' = [next EXCEPT ![p] = NoLeaf] /\ prev' = [prev EXCEPT ![p] = NoLeaf]
  BY DEF FirstInsert
<1>3. /\ NoLeaf \notin Leaves /\ NoLeaf # Dangling
      /\ next \in [Leaves -> Pointers] /\ prev \in [Leaves -> Pointers]
  BY <1>1, Basics
<1>4. \A r \in Leaves : prev[r] = NoLeaf /\ prev'[r] = NoLeaf
  BY <1>1, <1>2, <1>3 DEF NextInv
<1>5. \A r \in Leaves : next'[r] = IF r = p THEN NoLeaf ELSE next[r]
  BY <1>1, <1>2, <1>3
<1> QED BY <1>3, <1>4, <1>5 DEF NextInv, NextNeverDangles

LEMMA NextSplitLeaf ==
  ASSUME ChainInv, NextInv, NEW i \in 1 .. Len(leaves), NEW q, SplitLeaf(i, q)
  PROVE  NextInv'
<1> DEFINE n == Len(leaves)
           p == leaves[i]
<1>1. /\ q \in Leaves /\ q \notin used /\ ChainTypeOK /\ OwnInv
  BY GetLeafSound DEF ChainInv, SplitLeaf, AllocInv
<1>2. /\ fault = "none"
      /\ leaves' = InsertAt(leaves, i + 1, q)
      /\ next' = [next EXCEPT ![p] = q, ![q] = NoLeaf]
      /\ prev' = [prev EXCEPT ![q] = p]
  BY DEF SplitLeaf
<1>3. /\ leaves \in Seq(Leaves) /\ n \in Nat /\ i \in 1 .. n
      /\ \A j \in 1 .. n : leaves[j] \in Leaves
  BY <1>1, Basics
<1>4. \A j \in 1 .. n : leaves[j] \in used /\ leaves[j] # q
  BY <1>1, <1>2 DEF OwnInv, OwnedBy
<1>5. p \in Leaves /\ p # q
  BY <1>3, <1>4
<1>6. prev[q] = NoLeaf
  BY <1>1, <1>4 DEF NextInv
<1>7. /\ Len(leaves') = n + 1
      /\ \A j \in 1 .. i : leaves'[j] = leaves[j]
      /\ leaves'[i + 1] = q
      /\ \A j \in (i + 2) .. (n + 1) : leaves'[j] = leaves[j - 1]
  <2>1. /\ Len(InsertAt(leaves, i + 1, q)) = Len(leaves) + 1
        /\ \A j \in 1 .. i : InsertAt(leaves, i + 1, q)[j] = leaves[j]
        /\ InsertAt(leaves, i + 1, q)[i + 1] = q
        /\ \A j \in (i + 2) .. (Len(leaves) + 1) :
             InsertAt(leaves, i + 1, q)[j] = leaves[j - 1]
    <3>1. leaves \in Seq(Leaves) /\ q \in Leaves /\ i \in 1 .. Len(leaves)
      BY <1>1, <1>3
    <3> HIDE DEF n, p
    <3> QED BY <3>1, InsertAtProperties
  <2>2. leaves' = InsertAt(leaves, i + 1, q)
    BY <1>2
  <2> QED BY <2>1, <2>2, Zenon
<1>8. ASSUME NEW r \in Leaves, \A j \in 1 .. Len(leaves') : leaves'[j] # r
      PROVE  r # q /\ \A j \in 1 .. n : leaves[j] # r
  <2>1. r # q
    BY <1>3, <1>7, <1>8
  <2>2. ASSUME NEW j \in 1 .. n PROVE leaves[j] # r
    <3>1. CASE j <= i
      <4>1. j \in 1 .. i /\ j \in 1 .. (n + 1)
        BY <1>3, <3>1
      <4> QED BY <1>7, <1>8, <4>1
    <3>2. CASE ~(j <= i)
      <4>1. j + 1 \in (i + 2) .. (n + 1) /\ j + 1 \in 1 .. (n + 1) /\ (j + 1) - 1 = j
        BY <1>3, <3>2
      <4>2. leaves'[j + 1] = leaves[j]
        BY <1>7, <4>1
      <4> QED BY <1>7, <1>8, <4>1, <4>2
    <3> QED BY <3>1, <3>2
  <2> QED BY <2>1, <2>2
<1> HIDE DEF n, p
<1>9. \A r \in Leaves : (\A j \in 1 .. Len(leaves') : leaves'[j] # r) =>
        r # q /\ \A j \in 1 .. Len(leaves) : leaves[j] # r
  BY <1>8 DEF n
<1> QED BY <1>1, <1>2, <1>5, <1>6, <1>9, NextThreads

LEMMA NextLoadNext ==
  ASSUME ChainInv, NextInv, LoadNext
  PROVE  NextInv'
<1> DEFINE m == Len(leaves)
           last == leaves[m]
           q == pNext[last]
<1>1. /\ ChainTypeOK /\ OwnInv /\ mode = "loading" /\ fault = "none" /\ q # NoLeaf
  BY DEF ChainInv, LoadNext
<1>2. /\ leaves \in Seq(Leaves) /\ m \in Nat \ {0} /\ m \in 1 .. m
      /\ \A j \in 1 .. m : leaves[j] \in Leaves
      /\ last \in Leaves /\ q \in Leaves
      /\ next \in [Leaves -> Pointers]
  <2>1. leaves # <<>> /\ leaves \in Seq(Leaves)
    BY <1>1, Basics DEF OwnInv
  <2>2. m \in Nat \ {0}
    BY <2>1, EmptySeq
  <2>3. m \in 1 .. m
    BY <2>2
  <2> QED BY <1>1, <2>1, <2>2, <2>3, Basics
<1>3. CASE q \notin used \ ToSet(leaves)
  BY <1>3 DEF LoadNext, NextInv, NextNeverDangles
<1>4. CASE q \in used \ ToSet(leaves)
  <2>1. /\ leaves' = Append(leaves, q)
        /\ next' = [next EXCEPT ![last] = q] /\ prev' = [prev EXCEPT ![q] = last]
    BY <1>4 DEF LoadNext
  <2>2. \A j \in 1 .. m : leaves[j] # q
    BY <1>2, <1>4 DEF ToSet
  <2>3. prev[q] = NoLeaf /\ last # q
    BY <1>2, <2>2 DEF NextInv
  <2>4. next' = [next EXCEPT ![last] = q, ![q] = next[q]]
    BY <1>2, <2>1, <2>3
  <2>5. Len(leaves') = m + 1 /\ leaves'[m + 1] = q /\ \A j \in 1 .. m : leaves'[j] = leaves[j]
    BY <1>2, <2>1
  <2>6. m + 1 \in 1 .. (m + 1) /\ \A j \in 1 .. m : j \in 1 .. (m + 1)
    BY <1>2
  <2>7. \A r \in Leaves : (\A j \in 1 .. Len(leaves') : leaves'[j] # r) =>
          r # q /\ \A j \in 1 .. Len(leaves) : leaves[j] # r
    BY <2>5, <2>6
  <2> HIDE DEF m, last, q
  <2> QED BY <1>1, <1>2, <2>1, <2>3, <2>4, <2>7, NextThreads
<1> QED BY <1>3, <1>4

LEMMA NextEmptyLeaf ==
  ASSUME ChainInv, NextInv, NEW i \in 1 .. Len(leaves), EmptyLeaf(i)
  PROVE  NextInv'
<1> DEFINE n == Len(leaves)
           p == leaves[i]
<1>1. ChainTypeOK /\ leaves \in Seq(Leaves) /\ n \in Nat /\ p \in Leaves
  BY Basics DEF ChainInv
<1>2. /\ NoLeaf \notin Leaves /\ NoLeaf # Dangling /\ Dangling \notin Leaves
      /\ next \in [Leaves -> Pointers] /\ prev \in [Leaves -> Pointers]
  BY <1>1, Basics
<1>3. CASE Dangling \in {prev[p], next[p]}
  BY <1>3 DEF EmptyLeaf, NextInv, NextNeverDangles
<1>4. CASE Dangling \notin {prev[p], next[p]}
  <2>1. Unlink(p) /\ leaves' = RemoveAt(leaves, i)
    BY <1>4 DEF EmptyLeaf
  <2>2. /\ Len(leaves') = n - 1
        /\ \A j \in 1 .. (i - 1) : leaves'[j] = leaves[j]
        /\ \A j \in i .. (n - 1) : leaves'[j] = leaves[j + 1]
    BY <1>1, <2>1, RemoveAtProperties
  <2> DEFINE a == prev[p]
             c == next[p]
  <2>3. a \in Leaves \cup {NoLeaf} /\ c \in Leaves \cup {NoLeaf}
    BY <1>1, <1>2, <1>4 DEF Pointers
  <2>4. /\ c # p \/ a = p
        /\ c \in Leaves => prev[c] = p
        /\ \A r, s \in Leaves : next[r] = s => prev[s] = r
        /\ \A r \in Leaves : next[r] # Dangling
    BY <1>1, <2>3 DEF NextInv, NextNeverDangles
  <2> DEFINE f == IF a = NoLeaf THEN next ELSE [next EXCEPT ![a] = c]
             g == IF c = NoLeaf THEN prev ELSE [prev EXCEPT ![c] = a]
  <2>5. next' = Forget(f, p) /\ prev' = Forget(g, p)
    BY <2>1 DEF Unlink
  <2>6. \A r \in Leaves : /\ f[r] = IF r = a THEN c ELSE next[r]
                          /\ g[r] = IF r = c THEN a ELSE prev[r]
    BY <1>2, <2>3
  <2>7. \A r \in Leaves :
          /\ next'[r] = IF r = p THEN NoLeaf ELSE IF f[r] = p THEN Dangling ELSE f[r]
          /\ prev'[r] = IF r = p THEN NoLeaf ELSE IF g[r] = p THEN Dangling ELSE g[r]
    BY <2>5 DEF Forget
  <2> HIDE DEF f, g, a, c, p
  <2>8. ASSUME NEW r \in Leaves, r # p PROVE f[r] # p /\ f[r] # Dangling
    <3>1. CASE r = a
      BY <1>1, <1>2, <2>3, <2>4, <2>6, <2>8, <3>1
    <3>2. CASE r # a
      <4>1. f[r] = next[r]
        BY <2>6, <3>2
      <4>2. next[r] # p
        BY <1>1, <2>4, <3>2 DEF a
      <4> QED BY <2>4, <4>1, <4>2
    <3> QED BY <3>1, <3>2
  <2>9. NextNeverDangles'
    BY <1>2, <2>7, <2>8 DEF NextNeverDangles
  <2>10. ASSUME NEW r \in Leaves, NEW s \in Leaves, next'[r] = s
         PROVE  prev'[s] = r
    <3>1. r # p /\ f[r] = s /\ s # p
      BY <1>2, <2>7, <2>8, <2>10
    <3>2. g[s] = r
      <4>1. CASE r = a
        BY <1>1, <2>6, <3>1, <4>1
      <4>2. CASE r # a
        <5>1. next[r] = s /\ prev[s] = r
          BY <2>4, <2>6, <3>1, <4>2
        <5>2. s # c
          BY <2>4, <3>1, <5>1
        <5> QED BY <2>6, <5>1, <5>2
      <4> QED BY <4>1, <4>2
    <3> QED BY <2>7, <3>1, <3>2
  <2>11. ASSUME NEW r \in Leaves, \A j \in 1 .. Len(leaves') : leaves'[j] # r
         PROVE  prev'[r] = NoLeaf
    <3>1. CASE r = p
      BY <2>7, <3>1
    <3>2. CASE r # p
      <4>1. ASSUME NEW j \in 1 .. n PROVE leaves[j] # r
        <5>1. CASE j < i
          <6>1. j \in 1 .. (i - 1) /\ j \in 1 .. (n - 1)
            BY <1>1, <5>1
          <6> QED BY <2>2, <2>11, <6>1
        <5>2. CASE j = i
          BY <3>2, <5>2 DEF p
        <5>3. CASE j > i
          <6>1. j - 1 \in i .. (n - 1) /\ j - 1 \in 1 .. (n - 1) /\ (j - 1) + 1 = j
            BY <1>1, <5>3
          <6> QED BY <2>2, <2>11, <6>1
        <5> QED BY <1>1, <5>1, <5>2, <5>3
      <4>2. prev[r] = NoLeaf
        BY <4>1 DEF NextInv
      <4>3. r # c
        BY <1>1, <1>2, <2>4, <4>2
      <4> QED BY <1>1, <1>2, <2>6, <2>7, <3>2, <4>2, <4>3
    <3> QED BY <3>1, <3>2
  <2> QED BY <2>9, <2>10, <2>11 DEF NextInv
<1> QED BY <1>3, <1>4

LEMMA NextStepSound == ChainInv /\ NextInv /\ [ChainNext]_vars => NextInv'
<1> SUFFICES ASSUME ChainInv, NextInv, [ChainNext]_vars PROVE NextInv'
  OBVIOUS
<1>1. ASSUME NEW p \in Leaves, FirstInsert(p) PROVE NextInv'
  BY <1>1, NextFirstInsert
<1>2. ASSUME NEW i \in 1 .. Len(leaves), NEW q \in Leaves, SplitLeaf(i, q)
      PROVE  NextInv'
  BY <1>2, NextSplitLeaf
<1>3. ASSUME NEW i \in 1 .. Len(leaves), EmptyLeaf(i) PROVE NextInv'
  BY <1>3, NextEmptyLeaf
<1>4. CASE Close
  <2>1. NoLeaf \notin Leaves /\ NoLeaf # Dangling
    BY Basics DEF ChainInv
  <2> QED BY <1>4, <2>1 DEF Close, NextInv, NextNeverDangles
<1>5. CASE LoadNext
  BY <1>5, NextLoadNext
<1>6. CASE LoadFirst
  <2>1. /\ leaves = <<>> /\ Len(leaves) = 0 /\ next' = next /\ prev' = prev
    BY <1>6 DEF LoadFirst, ChainInv, OwnInv
  <2> QED BY <2>1 DEF NextInv, NextNeverDangles
<1>7. CASE AllocationFails \/ Restart \/ OpenEmpty \/ LoadDone \/ UNCHANGED vars
  <2>1. UNCHANGED <<leaves, next, prev>>
    BY <1>7 DEF AllocationFails, Restart, OpenEmpty, LoadDone, vars, chainVars
  <2> QED BY <2>1 DEF NextInv, NextNeverDangles
<1> QED BY <1>1, <1>2, <1>3, <1>4, <1>5, <1>6, <1>7 DEF ChainNext

\* next leads to no deleted LeafNode, in any tree and after any sequence of
\* splits, removals, closings and loads, also those that make the chain unsafe.
THEOREM NextNeverLeadsAstray == ChainSpec => []NextNeverDangles
<1>1. NextInv => NextNeverDangles
  BY DEF NextInv
<1> QED BY <1>1, ChainSound, NextInitSound, NextStepSound, PTL DEF ChainSpec
=============================================================================
