---------------------------- MODULE BulkLoading ------------------------------
(***************************************************************************)
(* The loop of FPTree::bulkLoading (src/fptree.cpp), pass by pass: all     *)
(* levels of inner nodes are built in one queue, and two counts tell where *)
(* the level that is being taken ends and the one above it begins.  FPTree *)
(* has the tree that comes of it in closed form.                           *)
(***************************************************************************)
EXTENDS FPTree

\* The loop's variables: q, the nodes that have no parent yet, lthis of them, at
\* the front, of the level being taken and lupper of the one above it.
Queued(chain) == [queue |-> chain, lthis |-> Len(chain), lupper |-> 0]
-----------------------------------------------------------------------------
\* A mutant of Share: the last node of a level is left whatever remains.
ShareEagerly(l) == IF l < Degree THEN l ELSE Degree
-----------------------------------------------------------------------------
\* How many children the next node gets.
Share(l) == IF l < 2 * Degree + 1 THEN l ELSE Degree

\* sz nodes are taken from the front, by insertLeaf into a node that is queued.
TakeChildren(queue, sz) ==
  LET entry(i) == [key |-> MinKey(queue[i]), node |-> queue[i]]
  IN Append(SubSeq(queue, sz + 1, Len(queue)), Inner([i \in 1 .. sz |-> entry(i)]))

\* One pass of the loop; at the end of a level, the one above it is next.
FormNode(s) ==
  LET sz   == Share(s.lthis)
      left == s.lthis - sz
  IN [queue  |-> TakeChildren(s.queue, sz),
      lthis  |-> IF left = 0 THEN s.lupper + 1 ELSE left,
      lupper |-> IF left = 0 THEN 0 ELSE s.lupper + 1]

LoadLoop(chain) ==
  LET state[i \in Nat] == IF i = 0 THEN Queued(chain) ELSE FormNode(state[i - 1])
      top[i \in Nat]   == IF IsSingle(state[i].queue) THEN state[i].queue[1] ELSE top[i + 1]
  IN top[0]
-----------------------------------------------------------------------------
\* Reopening the tree in any state it is left in, the loop ends and builds what
\* FPTree says it does: the counts never mix two levels, no leaf is lost or moved
\* where one level passes into the next, and no node at the end of a level is
\* left below the minimum, as TLC and the proofs show of the closed form.
LoopIsBulkLoad ==
  LET chain == LeavesOf(root)
  IN chain # <<>> => LoadLoop(chain) = BulkLoad(chain)
=============================================================================
