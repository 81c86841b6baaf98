---------------------------- MODULE PmemStackProofs ----------------------------
(***************************************************************************)
(* Theorems of PmemStack for any height the free list may reach: it stays  *)
(* inside its mapping, and implements Stack.                               *)
(***************************************************************************)
EXTENDS PmemStack, TLAPS

\* An element that lies whole in the new length of the file is what it was.
LEMMA ResizedKeeps ==
  ASSUME NEW c, NEW len \in Nat, NEW i \in Cells, i * Size <= len
  PROVE  Resized(c, len)[i] = c[i]
  BY DEF Resized

\* A file that is mapped again is an array of elements, whole or not.
LEMMA ResizedType ==
  ASSUME NEW c \in [Cells -> Elements \cup {Zero, Cut}], NEW len \in Nat
  PROVE  Resized(c, len) \in [Cells -> Elements \cup {Zero, Cut}]
  BY DEF Resized

\* The sizes in bytes are natural numbers, and a push has room once it is done.
LEMMA SizeEnough ==
  ASSUME StackTypeOK, CellsMapped, mapped > 0, NEW len,
         len = IF Fits(sz) THEN mapped ELSE (sz + 1) * Size * 2
  PROVE  /\ len \in Nat /\ len > 0
         /\ (sz + 1) * Size <= len
         /\ held * Size <= len
  BY StackAssumption DEF StackTypeOK, CellsMapped, Fits, Size

StackInv == StackTypeOK /\ CellsMapped

LEMMA StackInitInv == Init => StackInv
  BY StackAssumption DEF Init, StackInv, StackTypeOK, CellsMapped, Size

LEMMA OpenInv ==
  ASSUME StackInv, NEW n \in 0 .. held, Open(n)
  PROVE  StackInv'
<1>1. n \in Nat /\ n <= MaxSize
  BY StackAssumption DEF StackInv, StackTypeOK
<1>2. mapped' \in Nat /\ n * Size <= mapped'
  BY <1>1 DEF Open, Larger, Size
<1>3. cell' \in [Cells -> Elements \cup {Zero, Cut}]
  BY <1>2, ResizedType DEF Open, StackInv, StackTypeOK
<1>4. StackTypeOK'
  BY <1>1, <1>2, <1>3 DEF Open, StackTypeOK
<1>5. CellsMapped'
  BY <1>2 DEF Open, CellsMapped
<1> QED BY <1>4, <1>5 DEF StackInv

LEMMA PushInv ==
  ASSUME StackInv, NEW v \in Elements, Push(v)
  PROVE  StackInv'
<1> DEFINE len == IF Fits(sz) THEN mapped ELSE (sz + 1) * Size * 2
<1>1. /\ len \in Nat /\ len > 0
      /\ (sz + 1) * Size <= len
      /\ held * Size <= len
  BY SizeEnough DEF StackInv, Push
<1>2. mapped' = len /\ sz' = sz + 1 /\ held' = Larger(held, sz + 1)
  BY DEF Push
<1>3. cell' = [Resized(cell, len) EXCEPT ![sz + 1] = v]
  BY DEF Push
<1> HIDE DEF len
<1>4. Resized(cell, len) \in [Cells -> Elements \cup {Zero, Cut}]
  BY <1>1, ResizedType DEF StackInv, StackTypeOK
<1>5. cell' \in [Cells -> Elements \cup {Zero, Cut}]
  BY <1>3, <1>4
<1>6. StackTypeOK'
  BY <1>1, <1>2, <1>5, StackAssumption DEF StackInv, StackTypeOK, Push, Larger
<1>7. CellsMapped'
  BY <1>1, <1>2 DEF CellsMapped, Larger
<1> QED BY <1>6, <1>7 DEF StackInv

LEMMA StackStepInv == StackInv /\ [Next]_vars => StackInv'
<1> SUFFICES ASSUME StackInv, [Next]_vars PROVE StackInv'
  OBVIOUS
<1>1. ASSUME NEW n \in 0 .. held, Open(n) PROVE StackInv'
  BY <1>1, OpenInv
<1>2. CASE Close
  BY <1>2 DEF Close, StackInv, StackTypeOK, CellsMapped
<1>3. ASSUME NEW v \in Elements, Push(v) PROVE StackInv'
  BY <1>3, PushInv
<1>4. CASE Pop
  BY <1>4, StackAssumption DEF Pop, StackInv, StackTypeOK, CellsMapped
<1>5. CASE UNCHANGED vars
  BY <1>5 DEF vars, StackInv, StackTypeOK, CellsMapped
<1> QED BY <1>1, <1>2, <1>3, <1>4, <1>5 DEF Next

LEMMA StackSound == Spec => []StackInv
BY StackInitInv, StackStepInv, PTL DEF Spec

\* Whole elements and cut ones, below a top that what was written covers.
THEOREM StackTypes == Spec => []StackTypeOK
<1>1. StackInv => StackTypeOK
  BY DEF StackInv
<1> QED BY <1>1, StackSound, PTL

\* No element the stack holds has bytes outside the mapping that push grows
\* (pmem.h:96-105), whatever the height.
THEOREM StackSafe == Spec => []CellsMapped
<1>1. StackInv => CellsMapped
  BY DEF StackInv
<1> QED BY <1>1, StackSound, PTL
-----------------------------------------------------------------------------
LEMMA OpenComesBack ==
  ASSUME StackInv, NEW n \in 0 .. held, Open(n)
  PROVE  Plain!ComeBack(n)
<1> DEFINE len == Larger(n * Size * 2, 10)
<1>1. n \in Nat /\ n <= MaxSize
  BY StackAssumption DEF StackInv, StackTypeOK
<1>2. len \in Nat /\ n * Size * 2 <= len
  BY <1>1 DEF Larger, Size
<1>3. cell' = Resized(cell, len) /\ held' = n /\ sz' = n
  BY DEF Open
<1> HIDE DEF len
<1>4. ASSUME NEW i \in 1 .. n PROVE cell'[i] = cell[i]
  <2>1. i \in Cells
    BY <1>1, StackAssumption DEF Cells
  <2>2. i * Size <= len
    BY <1>1, <1>2 DEF Size
  <2> QED BY <1>2, <1>3, <2>1, <2>2, ResizedKeeps
<1>5. [i \in 1 .. held' |-> cell'[i]] = [i \in 1 .. n |-> [j \in 1 .. held |-> cell[j]][i]]
  <2>1. \A i \in 1 .. n : i \in 1 .. held
    BY <1>1 DEF StackInv, StackTypeOK
  <2> QED BY <1>3, <1>4, <2>1
<1> QED BY <1>3, <1>5 DEF Plain!ComeBack

LEMMA PushPushes ==
  ASSUME StackInv, NEW v \in Elements, Push(v)
  PROVE  Plain!PushElement(v)
<1> DEFINE len == IF Fits(sz) THEN mapped ELSE (sz + 1) * Size * 2
           old == [j \in 1 .. held |-> cell[j]]
<1>1. len \in Nat /\ len > 0 /\ held * Size <= len
  BY SizeEnough DEF StackInv, Push
<1>2. sz' = sz + 1 /\ held' = Larger(held, sz + 1)
  BY DEF Push
<1>3. cell' = [Resized(cell, len) EXCEPT ![sz + 1] = v]
  BY DEF Push
<1>4. Resized(cell, len) \in [Cells -> Elements \cup {Zero, Cut}]
  BY <1>1, ResizedType DEF StackInv, StackTypeOK
<1> HIDE DEF len
<1>5. sz \in Nat /\ held \in Nat /\ sz <= held /\ held <= MaxSize /\ sz < MaxSize
  BY StackAssumption DEF StackInv, StackTypeOK, Push
<1>6. ASSUME NEW i \in 1 .. held' PROVE cell'[i] = IF i = sz + 1 THEN v ELSE old[i]
  <2>1. i \in Cells
    BY <1>2, <1>5, StackAssumption DEF Cells, Larger
  <2>2. CASE i = sz + 1
    BY <1>3, <1>4, <2>1, <2>2
  <2>3. CASE i # sz + 1
    <3>1. i \in 1 .. held
      BY <1>2, <1>5, <2>3 DEF Larger
    <3>2. i * Size <= len
      BY <1>1, <1>5, <3>1 DEF Size
    <3>3. cell'[i] = cell[i]
      BY <1>1, <1>3, <1>4, <2>1, <2>3, <3>2, ResizedKeeps
    <3> QED BY <2>3, <3>1, <3>3
  <2> QED BY <2>2, <2>3
<1>7. [i \in 1 .. held' |-> cell'[i]]
        = [i \in 1 .. held' |-> IF i = sz + 1 THEN v ELSE old[i]]
  BY <1>6
<1>8. Plain!Larger(held, sz + 1) = held'
  BY <1>2 DEF Larger, Plain!Larger
<1> QED BY <1>2, <1>7, <1>8 DEF Plain!PushElement

LEMMA StackStepSimulated == StackInv /\ [Next]_vars => [Plain!StackNext]_(Plain!stackVars)
<1> SUFFICES ASSUME StackInv, [Next]_vars PROVE [Plain!StackNext]_(Plain!stackVars)
  OBVIOUS
<1>1. ASSUME NEW n \in 0 .. held, Open(n) PROVE Plain!StackNext
  BY <1>1, OpenComesBack DEF Plain!StackNext
<1>2. CASE Close
  BY <1>2 DEF Close, Plain!stackVars
<1>3. ASSUME NEW v \in Elements, Push(v) PROVE Plain!StackNext
  BY <1>3, PushPushes DEF Plain!StackNext
<1>4. CASE Pop
  BY <1>4 DEF Pop, Plain!StackNext, Plain!PopElement
<1>5. CASE UNCHANGED vars
  BY <1>5 DEF vars, Plain!stackVars
<1> QED BY <1>1, <1>2, <1>3, <1>4, <1>5 DEF Next

\* To the allocator the mapped file is a plain stack that outlives the process:
\* growing it by mapping it again, and opening it at twice the height remembered,
\* are not to be seen.
THEOREM StackImplemented == Spec => ImplementsStack
<1>1. Init => Plain!StackInit
  BY DEF Init, Plain!StackInit
<1> QED BY <1>1, StackSound, StackStepSimulated, PTL DEF Spec, ImplementsStack, Plain!StackSpec
=============================================================================
