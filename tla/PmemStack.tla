------------------------------ MODULE PmemStack ------------------------------
(***************************************************************************)
(* pmem_stack<PPointer>: the free list, a file mapped into memory.  The    *)
(* mapping has a length in bytes that need not be a multiple of an         *)
(* element's; a push that does not fit maps the file again.  What a crash  *)
(* does to an element that is being pushed is DurableAllocator's matter.   *)
(***************************************************************************)
EXTENDS Integers

CONSTANTS
  Elements,  \* the PPointers that are pushed
  Zero,      \* a part of the file never written
  Cut,       \* an element of which the file has kept a part
  MaxSize    \* bound: elements on the stack

ASSUME StackAssumption ==
  /\ MaxSize \in Nat
  /\ Zero \notin Elements /\ Cut \notin Elements

VARIABLES
  sz,
  mapped,  \* mapped_len, which is the length of the file; 0 while it is closed
  cell,    \* the file as an array of PPointers
  held     \* history: the cells written since it was opened, or kept then

vars == <<sz, mapped, cell, held>>

Size  == 16  \* sizeof(PPointer)
Cells == 1 .. 2 * MaxSize

Larger(a, b) == IF a < b THEN b ELSE a

Init ==
  /\ sz = 0
  /\ mapped = 0
  /\ cell = [i \in Cells |-> Zero]
  /\ held = 0
-----------------------------------------------------------------------------
\* Mutants of the operations below.

\* The element that is pushed is left out of the test.
FitsLate(n) == mapped >= n * Size

\* The file is made anew.
ResizedEmpty(c, len) == [i \in Cells |-> Zero]

PopEmpty ==
  /\ mapped > 0
  /\ sz' = sz - 1
  /\ UNCHANGED <<mapped, cell, held>>
-----------------------------------------------------------------------------
\* pmem_map_file with PMEM_FILE_CREATE extends the file, or truncates it.
Resized(c, len) ==
  [i \in Cells |-> IF i * Size <= len THEN c[i]
                   ELSE IF (i - 1) * Size < len /\ c[i] # Zero THEN Cut ELSE Zero]

\* The allocator comes back with the number it has on disk.
Open(n) ==
  LET len == Larger(n * Size * 2, 10)
  IN /\ mapped = 0
     /\ mapped' = len
     /\ cell' = Resized(cell, len)
     /\ sz' = n
     /\ held' = n

\* ~pmem_stream, or the end of the process.
Close ==
  /\ mapped > 0
  /\ mapped' = 0
  /\ UNCHANGED <<sz, cell, held>>

\* The mapping has room for the element at n, counted from 0.
Fits(n) == mapped >= (n + 1) * Size

Push(v) ==
  LET len == IF Fits(sz) THEN mapped ELSE (sz + 1) * Size * 2
  IN /\ mapped > 0 /\ sz < MaxSize
     /\ mapped' = len
     /\ cell' = [Resized(cell, len) EXCEPT ![sz + 1] = v]
     /\ sz' = sz + 1
     /\ held' = Larger(held, sz + 1)

\* Only getLeaf pops, when its own count is not 0.
Pop ==
  /\ mapped > 0 /\ sz > 0
  /\ sz' = sz - 1
  /\ UNCHANGED <<mapped, cell, held>>

\* What back() refers to.
Back == cell[sz]

Next ==
  \/ \E n \in 0 .. held : Open(n)
  \/ Close
  \/ \E v \in Elements : Push(v)
  \/ Pop

Spec == Init /\ [][Next]_vars
-----------------------------------------------------------------------------
StackTypeOK ==
  /\ sz \in 0 .. MaxSize
  /\ held \in sz .. MaxSize
  /\ mapped \in Nat
  /\ cell \in [Cells -> Elements \cup {Zero, Cut}]

\* push and back stay inside the mapping: every element the stack still holds
\* has all of its bytes there, after a growth, after pops, and after the file was
\* opened at a size that is no multiple of an element's.
CellsMapped == mapped > 0 => held * Size <= mapped

\* To its owner the mapped file is a stack that outlives the process.
Plain == INSTANCE Stack WITH
  height <- sz, element <- [i \in 1 .. held |-> cell[i]]

ImplementsStack == Plain!StackSpec
=============================================================================
