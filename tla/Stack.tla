-------------------------------- MODULE Stack --------------------------------
(***************************************************************************)
(* What the allocator may rely on of the stack it keeps its free leaves    *)
(* in: a stack in persistent memory, whose height the owner remembers.     *)
(* Popping takes nothing away: the owner who comes back with an earlier    *)
(* height, because the last one it wrote down is older than the pop, finds *)
(* the elements it had, as long as nothing was pushed over them.           *)
(***************************************************************************)
EXTENDS Integers

CONSTANT Elements

VARIABLES
  height,  \* the elements on the stack
  held,    \* the elements the stack still holds, those popped included
  element  \* [1 .. held -> Elements]

stackVars == <<height, held, element>>

StackInit == height = 0 /\ held = 0 /\ element = [i \in 1 .. 0 |-> 0]

Larger(a, b) == IF a < b THEN b ELSE a

PushElement(v) ==
  /\ height' = height + 1
  /\ held' = Larger(held, height + 1)
  /\ element' = [i \in 1 .. held' |-> IF i = height + 1 THEN v ELSE element[i]]

PopElement ==
  /\ height > 0
  /\ height' = height - 1
  /\ UNCHANGED <<held, element>>

ComeBack(n) ==
  /\ height' = n
  /\ held' = n
  /\ element' = [i \in 1 .. n |-> element[i]]

StackNext ==
  \/ \E v \in Elements : PushElement(v)
  \/ PopElement
  \/ \E n \in 0 .. held : ComeBack(n)

StackSpec == StackInit /\ [][StackNext]_stackVars
=============================================================================
