------------------------------ MODULE LeafChain ------------------------------
(***************************************************************************)
(* The two lists the leaves of a tree are on, and how they are kept alive  *)
(* across restarts: the durable chain in persistent memory (the catalog's  *)
(* startLeaf, then the pNext of every leaf), from which bulkLoading finds  *)
(* the leaves again, and the volatile doubly linked list of LeafNode       *)
(* objects (prev, next), from which LeafNode::remove repairs the chain.    *)
(*                                                                         *)
(* While the tree is open there is one LeafNode per leaf in it, so an      *)
(* object goes by the PPointer of its leaf.  leaves is the order in which  *)
(* the inner nodes hold them, which is key order: LeafNode::split puts the *)
(* new leaf right after the old one.  What the entries of a leaf are is    *)
(* left out: a leaf may be split, or lose its last entry, at any time.     *)
(***************************************************************************)
EXTENDS PAllocator, SequencesExt

VARIABLES
  mode,    \* "open" while the tree exists, "loading" inside bulkLoading
  leaves,  \* the leaves of the tree, in key order
  next,    \* LeafNode::next
  prev,    \* LeafNode::prev
  pNext,   \* leaf::pNext, in persistent memory, of every leaf there is
  saved,   \* history: the leaves of the tree when it was last closed
  split,   \* history: since it was opened a leaf other than the last was split
  unsafe,  \* history: see MarkUnsafe
  fault    \* "none", or the step whose outcome the code does not define

chainVars == <<mode, leaves, next, prev, pNext, saved, split, unsafe, fault>>
vars == <<allocVars, chainVars>>

\* A pointer to a LeafNode that has been deleted.
Dangling == <<0, 1>>
Pointers == Leaves \cup {NoLeaf, Dangling}

\* The leaf at position i of s, NoLeaf beyond either end.
LeafAt(s, i) == IF i \in 1 .. Len(s) THEN s[i] ELSE NoLeaf

ChainInit ==
  /\ AllocInit
  /\ mode = "open"
  /\ leaves = <<>>
  /\ next = [p \in Leaves |-> NoLeaf]
  /\ prev = [p \in Leaves |-> NoLeaf]
  /\ pNext = [p \in Leaves |-> NoLeaf]
  /\ saved = <<>>
  /\ split = FALSE
  /\ unsafe = FALSE
  /\ fault = "none"

\* delete p: whatever still points to p dangles.
Forget(links, p) ==
  [q \in Leaves |-> IF q = p THEN NoLeaf
                    ELSE IF links[q] = p THEN Dangling ELSE links[q]]
-----------------------------------------------------------------------------
\* Mutants of the operations below.
SplitLeafDropsTail(i, q) ==
  /\ mode = "open" /\ fault = "none"
  /\ GetLeaf(q)
  /\ leaves' = InsertAt(leaves, i + 1, q)
  /\ pNext' = [pNext EXCEPT ![leaves[i]] = q]
  /\ next' = [next EXCEPT ![leaves[i]] = q, ![q] = NoLeaf]
  /\ prev' = [prev EXCEPT ![q] = leaves[i]]
  /\ split' = (split \/ i < Len(leaves))
  /\ UNCHANGED <<mode, saved, unsafe, fault>>

UnlinkKeepsNext(p) ==
  /\ IF prev[p] = NoLeaf
     THEN startLeaf' = pNext[p] /\ next' = Forget(next, p) /\ UNCHANGED pNext
     ELSE /\ next' = Forget(next, p)
          /\ pNext' = [pNext EXCEPT ![prev[p]] = next[p]]
          /\ UNCHANGED startLeaf
  /\ prev' = Forget(IF next[p] = NoLeaf THEN prev
                    ELSE [prev EXCEPT ![next[p]] = prev[p]], p)

UnlinkKeepsStart(p) ==
  /\ IF prev[p] = NoLeaf
     THEN next' = Forget(next, p) /\ UNCHANGED pNext
     ELSE /\ next' = Forget([next EXCEPT ![prev[p]] = next[p]], p)
          /\ pNext' = [pNext EXCEPT ![prev[p]] = next[p]]
  /\ UNCHANGED startLeaf
  /\ prev' = Forget(IF next[p] = NoLeaf THEN prev
                    ELSE [prev EXCEPT ![next[p]] = prev[p]], p)

LoadNextNoPrev ==
  LET last == leaves[Len(leaves)]
      q    == pNext[last]
  IN /\ mode = "loading" /\ fault = "none"
     /\ q # NoLeaf
     /\ IF q \in used \ ToSet(leaves)
        THEN /\ leaves' = Append(leaves, q)
             /\ next' = [next EXCEPT ![last] = q]
             /\ UNCHANGED <<prev, fault>>
        ELSE fault' = "zombie" /\ UNCHANGED <<leaves, next, prev>>
     /\ UNCHANGED <<allocVars, mode, pNext, saved, split, unsafe>>
-----------------------------------------------------------------------------
\* The history of what makes the chain wrong.  A split of a leaf that is not
\* the last leaves next and prev of its neighbours as they were, so emptying a
\* leaf afterwards may repair the chain from stale pointers; a leaf allocated
\* again keeps the pNext of its former life, which matters for a first leaf.
MarkUnsafe(danger) == unsafe' = (unsafe \/ danger)

\* InnerNode::insert on an empty root: new LeafNode(tree).  The leaf's memory
\* is not initialised.
FirstInsert(p) ==
  /\ mode = "open" /\ fault = "none" /\ leaves = <<>>
  /\ GetLeaf(p)
  /\ leaves' = <<p>>
  /\ next' = [next EXCEPT ![p] = NoLeaf]
  /\ prev' = [prev EXCEPT ![p] = NoLeaf]
  /\ MarkUnsafe(pNext[p] # NoLeaf)
  /\ UNCHANGED <<mode, pNext, saved, split, fault>>

\* LeafNode::split of the i-th leaf: the copy of the leaf takes its pNext
\* along, but not its next, and nobody tells the next leaf.
SplitLeaf(i, q) ==
  /\ mode = "open" /\ fault = "none"
  /\ GetLeaf(q)
  /\ leaves' = InsertAt(leaves, i + 1, q)
  /\ pNext' = [pNext EXCEPT ![q] = pNext[leaves[i]], ![leaves[i]] = q]
  /\ next' = [next EXCEPT ![leaves[i]] = q, ![q] = NoLeaf]
  /\ prev' = [prev EXCEPT ![q] = leaves[i]]
  /\ split' = (split \/ i < Len(leaves))
  /\ UNCHANGED <<mode, saved, unsafe, fault>>

\* A LeafNode is created though getLeaf returns false: the constructor does
\* not look, and goes on with a pPointer and an address it never assigned.
AllocationFails ==
  /\ mode = "open" /\ fault = "none"
  /\ GetLeafFails
  /\ fault' = "nospace"
  /\ UNCHANGED <<allocVars, mode, leaves, next, prev, pNext, saved, split, unsafe>>

\* The list surgery of LeafNode::remove when p has lost its last entry, and
\* the delete of p by its parent (removeChild).
Unlink(p) ==
  /\ IF prev[p] = NoLeaf
     THEN startLeaf' = pNext[p] /\ next' = Forget(next, p) /\ UNCHANGED pNext
     ELSE /\ next' = Forget([next EXCEPT ![prev[p]] = next[p]], p)
          /\ pNext' = [pNext EXCEPT ![prev[p]] = next[p]]
          /\ UNCHANGED startLeaf
  /\ prev' = Forget(IF next[p] = NoLeaf THEN prev
                    ELSE [prev EXCEPT ![next[p]] = prev[p]], p)

\* LeafNode::remove of the last entry of the i-th leaf.
EmptyLeaf(i) ==
  /\ mode = "open" /\ fault = "none"
  /\ LET p == leaves[i]
     IN IF Dangling \in {prev[p], next[p]}
        THEN /\ fault' = "dangling"
             /\ UNCHANGED <<allocVars, leaves, next, prev, pNext>>
        ELSE /\ Unlink(p)
             /\ ReleaseLeaf(p)
             /\ leaves' = RemoveAt(leaves, i)
             /\ UNCHANGED fault
  /\ MarkUnsafe(split)
  /\ UNCHANGED <<mode, saved, split>>

\* ~FPTree, or the end of the process between two operations.
Close ==
  /\ mode = "open" /\ fault = "none"
  /\ mode' = "closed"
  /\ saved' = leaves
  /\ leaves' = <<>>
  /\ next' = [p \in Leaves |-> NoLeaf]
  /\ prev' = [p \in Leaves |-> NoLeaf]
  /\ UNCHANGED <<allocVars, pNext, split, unsafe, fault>>

\* The allocator is created anew: always in a new process, and in this one
\* when ~PAllocator ran.
Restart ==
  /\ mode = "closed"
  /\ RestartAllocator
  /\ UNCHANGED chainVars

\* bulkLoading: nothing to load, or the LeafNode of the first leaf, or one
\* more round of LeafNode(PPointer, FPTree*)'s loop, or its end.  The code
\* loads any leaf the chain leads to; a leaf that is not used, or that is
\* loaded already, is where the model stops.
OpenEmpty ==
  /\ mode = "closed"
  /\ startLeaf = NoLeaf
  /\ mode' = "open"
  /\ split' = FALSE
  /\ UNCHANGED <<allocVars, leaves, next, prev, pNext, saved, unsafe, fault>>

LoadFirst ==
  /\ mode = "closed"
  /\ startLeaf # NoLeaf
  /\ mode' = "loading"
  /\ leaves' = <<startLeaf>>
  /\ fault' = IF startLeaf \in used THEN "none" ELSE "zombie"
  /\ UNCHANGED <<allocVars, next, prev, pNext, saved, split, unsafe>>

LoadNext ==
  LET last == leaves[Len(leaves)]
      q    == pNext[last]
  IN /\ mode = "loading" /\ fault = "none"
     /\ q # NoLeaf
     /\ IF q \in used \ ToSet(leaves)
        THEN /\ leaves' = Append(leaves, q)
             /\ next' = [next EXCEPT ![last] = q]
             /\ prev' = [prev EXCEPT ![q] = last]
             /\ UNCHANGED fault
        ELSE fault' = "zombie" /\ UNCHANGED <<leaves, next, prev>>
     /\ UNCHANGED <<allocVars, mode, pNext, saved, split, unsafe>>

LoadDone ==
  /\ mode = "loading" /\ fault = "none"
  /\ pNext[leaves[Len(leaves)]] = NoLeaf
  /\ mode' = "open"
  /\ split' = FALSE
  /\ UNCHANGED <<allocVars, leaves, next, prev, pNext, saved, unsafe, fault>>

ChainNext ==
  \/ \E p \in Leaves : FirstInsert(p)
  \/ \E i \in 1 .. Len(leaves), q \in Leaves : SplitLeaf(i, q)
  \/ AllocationFails
  \/ \E i \in 1 .. Len(leaves) : EmptyLeaf(i)
  \/ Close
  \/ Restart
  \/ OpenEmpty
  \/ LoadFirst
  \/ LoadNext
  \/ LoadDone

ChainSpec == ChainInit /\ [][ChainNext]_vars

\* The loop of LeafNode(PPointer, FPTree*) waits for nothing: a load that can go
\* on does.  No one is obliged to call an operation, or to start a process.
FairChainSpec == ChainSpec /\ WF_vars(LoadNext \/ LoadDone)
-----------------------------------------------------------------------------
\* The types of the state beyond the allocator's.
ChainTypeOK ==
  /\ AllocTypeOK
  /\ mode \in {"open", "closed", "loading"}
  /\ leaves \in Seq(Leaves) /\ saved \in Seq(Leaves)
  /\ next \in [Leaves -> Pointers] /\ prev \in [Leaves -> Pointers]
  /\ pNext \in [Leaves -> Leaves \cup {NoLeaf}]
  /\ split \in BOOLEAN /\ unsafe \in BOOLEAN
  /\ fault \in {"none", "nospace", "dangling", "zombie"}

\* s is what a reader of persistent memory finds: the leaves from startLeaf on
\* along pNext, up to the leaf whose pNext is null.
IsDurableChain(s) ==
  /\ startLeaf = LeafAt(s, 1)
  /\ \A i \in 1 .. Len(s) : pNext[s[i]] = LeafAt(s, i + 1)

\* prev and next of the nodes of s are their neighbours in s.
Linked(s) ==
  \A i \in 1 .. Len(s) : /\ prev[s[i]] = LeafAt(s, i - 1)
                         /\ next[s[i]] = LeafAt(s, i + 1)

\* The durable chain names exactly the leaves of the tree, in key order, at
\* every moment between two operations, so that a process that ends there
\* leaves everything for the next one to find: getLeaf's startLeaf, split's
\* copy of pNext and remove's two ways of repairing it agree.
ChainIntact == mode = "open" /\ ~unsafe => IsDurableChain(leaves)

\* Loading a tree, splitting its last leaf and removing leaves anywhere keep
\* prev and next the exact neighbours, which is what remove repairs from.
ListsAgree == mode = "open" /\ ~split => Linked(leaves)

\* The allocator and the tree agree on who owns a leaf: no leaf is in the tree
\* twice or while it is free, and none is used that the tree has lost.
LeavesOwned ==
  /\ fault # "zombie" => IsInjective(leaves) /\ ToSet(leaves) \subseteq used
  /\ mode = "open" /\ ~unsafe => used = ToSet(leaves)

\* remove follows no pointer to a deleted LeafNode, and a load meets no leaf
\* that was freed.
NoUndefinedStep == ~unsafe => fault \notin {"dangling", "zombie"}

\* next, unlike prev, never leads to a deleted LeafNode, whatever was split and
\* removed: bulkLoading and remove may always follow it.
NextNeverDangles == \A p \in Leaves : next[p] # Dangling

\* Opening a tree finds the leaves it had when it was closed, all of them and
\* in order ("load data from persistent memory", fptree.h:221).
RecoveryExact ==
  [][mode # "open" /\ mode' = "open" /\ ~unsafe => leaves' = saved]_vars

\* The loop that follows pNext when a tree is opened comes to an end, on a chain
\* that earlier processes split, repaired and closed, and finds the whole of it:
\* it has no count of leaves to stop at, only the null at the end.
LoadEnds ==
  mode = "loading" /\ ~unsafe ~> mode = "open" /\ leaves = saved
-----------------------------------------------------------------------------
\* What the repository says, of every run of the program.

\* A reopened tree finds every key (test/fptree_test.cpp:159-161), so no leaf
\* of the closed tree may be missing.
RecoveryLosesNothing ==
  [][mode # "open" /\ mode' = "open" => ToSet(saved) \subseteq ToSet(leaves')]_vars
=============================================================================
