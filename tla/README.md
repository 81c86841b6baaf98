# Verification of the FPTree key-value store

TLA+ specifications of the program in `src/`, a single-threaded persistent
B+-tree ("FPTree"): inner nodes live in volatile memory, leaves in persistent
memory mapped from files by PMDK, and the tree is rebuilt from its chain of
leaves when the program starts. TLC checks every component on small instances;
TLAPS proves for every size the allocator (whole operations, and store by store
with crashes), the chain of leaves, the slots of a leaf with and without crashes,
the mapped stack, the inner nodes and the tree for every height, and the store
made of leaves, chain and allocator.

## 1. Inventory

| Component | Code | State | Operations | Interacts with | Module |
|---|---|---|---|---|---|
| Leaf allocator `PAllocator` | `src/p_allocator.cpp`, `include/utility/p_allocator.h` | durable: catalog (`maxFileId`, `freeNum`, `startLeaf`), free stack file, group headers (`usedNum`, one byte a leaf); volatile: height `sz` of the stack | `getLeaf`, `freeLeaf`, `newLeafGroup`, `setStartPointer`, constructor, destructor | called by `LeafNode`; uses `pmem_ptr`, `pmem_stack` | `PAllocator`, `DurableAllocator` |
| Chain of leaves | `LeafNode` in `src/fptree.cpp` | durable: `pNext` of each leaf; volatile: `prev`, `next` of each `LeafNode` | `LeafNode(FPTree*)`, `split`, the list surgery of `remove`, `LeafNode(PPointer, FPTree*)` | allocator, `bulkLoading` | `LeafChain` |
| Slots of a leaf | `LeafNode` | durable: bitmap, fingerprints, kv; volatile: `n` | `insert`, `insertNonFull`, `findSplitKey`, `split`, `remove`, `update`, `find`, `getMinKey`, both constructors | bitmap utilities, `keyHash` | `LeafNode`, `DurableLeaf` |
| Bitmap utilities | `src/utility.cpp` | none | `find_first_zero`, `set_bit`, `clear_bit`, `clear_bit_since`, `clear_bit_until` | slots | `LeafBytes` |
| Inner nodes | `InnerNode` | volatile: `keys[]`, `children[]`, `n`, `isRoot` | `insert`, `split`, `remove` (six cases), `mergeLeft/Right`, `mergeParentLeft/Right`, `redistributeLeft/Right`, `find`, `update` | parent and brothers, leaves | `InnerNode` |
| Tree | `FPTree` | volatile: `root` | `insert`, `remove`, `update`, `find`, `bulkLoading`, constructor, destructor | all of the above | `FPTree`, `BulkLoading` |
| Store | `LeafNode`, allocator and chain together | all the durable state but the catalog's line | insert, remove, update, find, close, restart, load | | `Store` |
| Persistent memory | `include/utility/pmem.h`, `src/pmem.cpp` | a mapped file; the height of a stack | map, flush, `push`, `pop`, `back` | PMDK | `PmemStack`; flushes in the two `Durable` modules |
| Layout of a group file, clhash, drivers, benchmarks, printing | `include/utility/p_allocator.h`, `src/clhash.c`, `src/main.cpp`, `src/ycsb.cpp`, `src/lycsb.cpp` | none of their own | | | not modelled |

There are no threads, messages or timeouts. What is hard in this program is:

- **long sequences of legal calls**: which leaf is whose neighbour, which
  separator bounds which subtree, which node is the root, are facts spread over
  several objects, and each operation repairs them locally;
- **what survives the process**: the chain, the catalog and the free stack are
  found again by the next process, after any sequence of operations by earlier
  ones; a wrong `pNext` shows only there;
- **crashes between two stores** of one operation: the code orders and flushes
  some of them, and a cache line may reach persistent memory before its flush;
- **counts that are kept twice**: `freeNum` and the stack, `usedNum` and the
  bytes of a group, `n` and the bitmap of a leaf;
- **slots that are reused**: a leaf keeps the keys, values and fingerprints of
  what was removed, fingerprints collide, and a recycled leaf is not cleared;
- **bounds**: arrays of `2d+2`, leaves that split one entry before they are
  full, level ends in `bulkLoading`, cuts of a bitmap on the boundary of a byte.

What makes each part correct: the allocator never gives one leaf to two owners
and keeps its counts, also across a crash; the durable chain holds exactly the
tree's leaves in key order; the slots of a leaf are a map from keys to values,
and a crash in one operation costs no other entry; separators bound their
subtrees, the tree is balanced and its nodes stay within their bounds; and
together the operations are those of a dictionary that outlives the process.

## 2. Modules

```
                        BulkLoading
                             |
                             v
KVStore (dictionary) <==== FPTree ---> LeafMap ---> InnerNode
       ^                                  ^
       |                                  |
       +======= Store ---> LeafChain ---> PAllocator
                                            ^
LeafStore (map of a leaf) <==== LeafNode    +==== AllocatorSteps ---> DurableAllocator
                                   |
              LeafBytes -----------+---> LeafSlots <--- DurableLeaf
Stack <==== PmemStack

--->  EXTENDS        ===>  implements (INSTANCE ... WITH, checked as a PROPERTY
                           and proved)
```

`Store` extends `LeafMap` too, and `LeafStore` extends it for the operations of a leaf, so that
the leaf of the tree, of the store and of the slots is one definition.
`LeafChainProofs` (the allocator and the chain over it), `DurableAllocatorProofs`,
`LeafNodeProofs`, `DurableLeafProofs`, `PmemStackProofs`, `StoreProofs` and
`FPTreeProofs` hold the theorems, `BasicLemmas` lemmas on records and sets of
naturals and the operations of `LeafMap` that they share.
`StoreProofs` builds on `LeafChainProofs`, as `Store` does on `LeafChain`.
`MCPAllocator`, `MCLeafChain`, `MCFPTree`, `MCStore`, `MCLeafNode`,
`MCDurableLeaf` and `MCDurableAllocator` give TLC its constants.

**`PAllocator`**. One variable per durable field, plus `freed`, which counts
calls of `freeLeaf`. The free stack is the sequence of entries below its top.
One action per operation; `getLeaf` has two, with and without a new group, and
`GetLeafFails` is the condition under which it returns false. `ReleaseLeaf` is
`freeLeaf` as it is written: `catalog.modify(&catalog->freeNum,
catalog->freeNum++)` (line 117) stores the old value, so `freeNum` stays.
`RestartAllocator` cuts the stack to the height the catalog states (line 43).

**`DurableAllocator`** takes the same operations store by store. `pc` is the
next store or flush. What is flushed with every store (stack cells, marks,
group counts) is one variable; the catalog is two, `catalog` as the process
sees it and `onDisk`, because its stores are flushed later, all together since
its 32 bytes are one cache line. `Evict` writes the line back before its flush.
`Crash` drops what is volatile and runs the constructor on what is durable;
`Restart` is the same between two calls. `owned` is what the callers hold.
`freeNum++` inside `modify` is two stores, `CountFreed` and `RestoreCount`, and
the catalog's line may be written back between them. The
history variable `torn` marks the two windows in which the code is not crash-safe:
between the two counts of `newLeafGroup` (lines 131-132), and before the first
flush of a new catalog, which leaves `maxFileId = 0`. The model goes on after
either, until `getLeaf` pops a leaf whose file is not mapped and dies of the
null address. Ownership and leaks (`OwnedNeverOffered`, `LeaksBounded`) are stated
of behaviours without a tear. `PopsMapped` is stated of all of them: without a tear
every leaf popped is mapped, and after one the leaf may also be of file 0, which
is made on a catalog of zeros, or of the file that was counted and not named,
which is the next to be made, and of no third.

**`AllocatorSteps`** adds `base`, the allocator's state as of the last call to
return, and shows that every call that is not cut short by a crash is a step of
`PAllocator`: the two models are of one program.

**`LeafChain`**, over the allocator: `leaves` is the order in which the inner
nodes hold the leaves, `pNext` the durable links, `prev` and `next` the links of
the `LeafNode` objects, where a pointer to a deleted object is `Dangling`.
`FirstInsert`, `SplitLeaf` and `EmptyLeaf` are the operations that change a
list, each with all the allocator does for it; `Close`, `Restart`, `LoadFirst`,
`LoadNext`, `LoadDone` and `OpenEmpty` are a process that ends and the next that
loads the chain, one leaf a step. Which entries a leaf has is left out: any leaf may split or
lose its last entry at any time. Where the code's outcome is undefined, `fault`
says why and the model stops: a pointer followed to a deleted node
(`"dangling"`), a free or repeated leaf loaded (`"zombie"`), an allocation that
failed unnoticed (`"nospace"`). `split` and `unsafe` are history variables: the
lists are exact until a leaf other than the last has been split *and* a leaf is
emptied in the same session (or a recycled leaf with an old `pNext` is a first
leaf again). That condition is enough for what holds to hold; it is not an
exact boundary, since an unsafe step may also do no harm. The violation run shows
one that does.

**`Store`** puts entries into that chain: `kv` is the map each leaf holds,
`InsertFirst`, `InsertStays`, `InsertSplit`, `RemoveStays` and `RemoveLast` are
`LeafChain`'s actions together with the operations of `LeafMap` on the leaf, and a leaf keeps its
contents when it is freed and allocated again. The inner nodes are replaced by
what they do: `Routes` chooses any leaf whose keys, and those of its neighbours,
leave room for the key. The store implements `KVStore` until an unsafe step.

**`LeafSlots`** has the persistent part of a leaf (`bits`, `kv`, `fp`, and the
count `n`) and what each operation does to it; `Hash` is any map from keys to
fingerprints. **`LeafNode`** is the class over it, one action per method; the
order in which `nth_element` leaves the entries is any order the standard
allows (`Orders`). **`LeafStore`** is what the tree takes a leaf for, in terms of `LeafMap`.
**`LeafBytes`** has the functions of `src/utility.cpp` on bytes, which `LeafSlots`
replaces by sets of slots. `set_bit` and `clear_bit` have an assembly branch for
GCC on x86-64 and a portable one, and the portable `clear_bit` sets the bit (line
81). `Native` chooses between them: `BytesAreSlots` holds of the x86-64 build, the
run `leaf_node_portable` shows what the other does. All other models of a leaf
are of the x86-64 build.

**`DurableLeaf`** takes the mutating methods store by store with their flushes.
`mem` is what the process sees, `disk` what is durable; each of the lines that
hold the bitmap, a key, a value or a fingerprint is flushed where the code does
(`pmem_ptr::flush_part`, `modify`, `persist`), or earlier (`Evict`). `ghosts`
are bits whose clearing by the removal of a last entry is never flushed (line
511), `before` the entries when the call began, `moved` the slots of the old leaf
whose contents `findSplitKey` has exchanged and nothing flushes. After a crash that
tore the leaf, or left a bit of a freed one set, the leaf takes no more calls; a
freed leaf may still be allocated again (`Create`).

**`PmemStack`** is `pmem_stack` as a file that is mapped anew at another size in
*bytes* when it is opened or full; **`Stack`** is the plain stack it implements.

**`InnerNode`** has the operations of one inner node as operators on sequences
of entries `[key, node]`, for `keys[i]` and `children[i]`, free of recursion.
`AddChild` takes in the node a child has split off, and splits if need be;
`Rebalance` is the part of `InnerNode::remove` after a child is gone and the
node is underfull, with its cases in the order of the code. `InsertStep` and
`RemoveStep` are what a call of `insert` and of `remove` does to its own node,
given the result `r` of the call it made on the child.

**`FPTree`** has the recursive operations. The state is the tree itself (`root`)
and the last result (`ret`). A leaf is a function from its keys to its values.
An operation follows one path, so its recursion is a function of the depth of the call:
`Path(node, k)[d]` is the node that call `d` is made on, `call[d]` what
it returns in terms of `call[d + 1]`. In the same way `Levels(node)[d]` are the
nodes `d` levels down, with the leaves in the last of them (`Height`, `Bottom`), and
`BuildUp` has the levels that `bulkLoading` builds, one from the other.
Every public method of the class is one action that does everything the method
does: `InsertEntry`, `RemoveEntry`, `UpdateEntry`, `FindEntry`, and `Reopen`,
which is the destructor and the constructor with `bulkLoading`. The chain is
taken to be complete and in order, which is the subject of `LeafChain` and `Store`.
`BulkLoad` is `bulkLoading` in closed form, without its queue and its counters
`lthis` and `lupper`.
`WithinCapacity` stops the model where an array has been written beyond its end.

**`BulkLoading`** is the loop itself as a function on its queue and counters, one pass
after another. `LoopIsBulkLoad` says in every state of the run `tree` that the loop
makes of the leaves the tree then has what `BulkLoad` does, the closed form that
`Reopen` and the proofs use.

**`KVStore`** is what the comments of `include/fptree/fptree.h` promise: a
dictionary, with the result of every operation, that is the same after a
reopening.

## 3. Runs

| Run | Instance | Distinct states | Shows |
|---|---|---|---|
| `allocator` | 3 files of 2 leaves, 4 frees | 125,280 | free stack sound, never popped below its entries |
| `durable_allocator` | 2 files of 2 leaves, 3 frees, 2 crashes | 1,589,262 | counts covered, no leaf with two owners, at most one leaf lost per crash, at every store and eviction, outside torn catalogs, and in these leaves of two files at most popped unmapped; each call that no crash cuts short is the operation of `PAllocator` |
| `pmem_stack` | stacks of up to 4 cells, capacities grown from the smallest | 816 | the mapping covers every cell; a plain stack that outlives the process |
| `leaf_chain` | 2 files of 2 leaves, 5 frees | 30,075 | the durable chain is the tree's leaves and recovery is exact, up to an unsafe step; ownership and `next` always; loading ends |
| `tree` | degree 2, leaves of up to 3 entries, operations on 4 keys with a value the leaves do not hold at first; from an empty tree and trees of one, two and three levels of inner nodes | 29,368 | dictionary, separators, balance, occupancy, order of leaves; the loop of `bulkLoading` builds its closed form |
| `store` | a file of 3 leaves, keys 1..5, 2 frees | 400,753 | dictionary across processes up to an unsafe step, recycled leaves empty, keys ascend along the durable chain |
| `leaf_node` | 4 slots, 4 keys, colliding fingerprints, bytes of 3 bits | 45,783 | count, slots and fingerprints agree, a slot is free when one is needed, the byte operations are those on sets, the slots are a map |
| `durable_leaf` | 4 slots in two cache lines, evictions, one crash at any point, values up to symmetry | 971,203 | what a call flushed is durable when it returns; a crash costs no other entry; after a split only entries that were moved can be missing |
| `allocator_reuse` | as `allocator` | violation | a freed leaf is not counted free |
| `leaf_chain_recovery` | as `leaf_chain` | violation | a reopened tree lacks a leaf |
| `tree_overflow` | degree 2 | violation | a merge writes 7 entries into arrays of 6 |
| `leaf_node_portable` | as `leaf_node`, not native | violation | `clear_bit` sets the bit: a removed key is still found |

**Bounds.** `GroupSize = 2` makes a group run out and be refilled after two calls
of `getLeaf`; chains of four leaves have a leaf whose neighbours have neighbours of
their own; `MaxFrees` lets a tree be emptied and another built after it, past a
restart that forgets leaves. Two crashes put one inside the operation that
follows the recovery from another, so that what the first left is used and torn
again. `Degree = 2` is `MIN_DEGREE`; `LeafDegree = 2` is the smallest at which
both halves of a split have entries. `Chains` are the leaves a tree is first
opened over: removals leave leaves with one entry and inserts fill leaves
up, so each of them is a chain that some earlier process left. `OpKeys`
bounds the keys operations name and `OpValues` the values they write; the keys sit where the chains are about to split,
merge or redistribute, and TLC's coverage has every case of `AddChild`,
`LeafInsert` and `Rebalance` taken (but the last of `Rebalance`, a node with no
brother, which only degree 1 reaches). Bytes of three bits (`Width`) let a
bitmap of four slots have two bytes, with cuts inside, between and at their ends.
In `durable_leaf` the two values are symmetric, which is sound: the leaf only copies
values, and the run checks invariants alone that compare them with each other. In
`tree` the operations write one value and the leaves begin with another, which is
enough to tell an entry that was overwritten from one that was moved or kept.
Three leaves for the store are the fewest with a split in the middle, a removal
next to it and a leaf to recycle. Deadlock is not checked where the model stops
on purpose: after a fault in `LeafChain` and `Store`, after an overflow in
`FPTree`, in `DurableAllocator` where no crash is left and a pop is of a leaf
whose file is not mapped, and in `DurableLeaf` after a split or a crash that tore
the leaf.

**Fairness.** Only `FairChainSpec` has some: weak fairness of
`LoadNext \/ LoadDone`. `bulkLoading` is a loop in a single thread that waits for
nothing, so a step of it that is possible is taken. `LoadEnds` then says that the
loop ends, which is not plain: it follows pointers that earlier processes
wrote, and a cycle of them would keep it busy for ever. No other module
has a loop that depends on data an earlier step left.

**Mutants.** Each property of a passing run has a mutant of the code's
definitions, listed in `PROJECT.json` and defined above what it mutates, that
violates it under the run's own bounds: an off-by-one in the fullness of a leaf,
`lower_bound` for `upper_bound`, a parent key that is not updated, a pop that
does not pop, a count stored before the cells it counts, a flush left out.

## 4. Proofs

| Module | Theorem | Property, for all values of the constants |
|---|---|---|
| `DurableAllocatorProofs` | `DurableTypes` | `DurableTypeOK` |
| | `CountAlwaysCovered` | `CountCovered` |
| | `OwnersAlwaysApart` | `OwnedNeverOffered` |
| | `PopsAlwaysMapped` | `PopsMapped` |
| | `UsedNumAlwaysCovers` | `UsedNumCovers` |
| | `LeaksAlwaysBounded` | `LeaksBounded` |
| | `StepsImplementOperations` | `StepsAreOperations` |
| `LeafChainProofs` | `AllocatorTypes` | `AllocTypeOK` |
| | `FreeListAlwaysSound` | `FreeListSound` |
| | `PopNeverUnderflows` | `FreeNumCovered` |
| | `ExactlyOneLeafLostPerFree` | `OneLeafLostPerFree`, which no run checks |
| | `ChainTypes` | `ChainTypeOK` |
| | `ChainAlwaysIntact` | `ChainIntact` |
| | `ListsAlwaysAgree` | `ListsAgree` |
| | `LeavesAlwaysOwned` | `LeavesOwned` |
| | `NeverUndefined` | `NoUndefinedStep` |
| | `RecoveryAlwaysExact` | `RecoveryExact` |
| | `NextNeverLeadsAstray` | `NextNeverDangles` |
| `LeafNodeProofs` | `LeafTypes` | `LeafTypeOK` |
| | `CountAlwaysExact` | `CountExact` |
| | `SlotsAlwaysSound` | `SlotsSound` |
| | `AlwaysASlotToSpare` | `SlotToSpare` |
| | `SlotsImplementMap` | `ImplementsLeafStore` |
| `DurableLeafProofs` | `ReturnedIsDurable` | `DurableWhenIdle` |
| | `CrashAlwaysKeepsEntries` | `CrashKeepsEntries` |
| `PmemStackProofs` | `StackTypes` | `StackTypeOK` |
| | `StackSafe` | `CellsMapped` |
| | `StackImplemented` | `ImplementsStack` |
| `StoreProofs` | `FreeLeavesAlwaysEmpty` | `FreeLeavesEmpty` |
| | `ChainAlwaysAscends` | `ChainAscends` |
| | `StoreIsDictionary` | `KeepsDictionary` |
| `FPTreeProofs` | `WellFormedInvariant` | `WellFormed`, the inductive invariant |
| | `TreeTypeInvariant` | `TreeTypeOK` |
| | `SeparatorsInvariant` | `SeparatorsBound` |
| | `BalancedInvariant` | `Balanced` |
| | `OccupancyInvariant` | `Occupancy` |
| | `TreeImplementsKVStore` | `ImplementsKVStore` |
| | `LeavesAlwaysStay` | `LeavesStayInPlace` |
| | `InsertKeyIs`, `RemoveKeyIs`, `FindIs`, `UpdateIs`, `BulkLoadIs` | what each operation makes of a well-formed tree, of its entries and of its leaves |

The only assumptions are the named ones on the constants, `AllocatorAssumption`,
`DegreeAssumption`, `DurableAssumption`, `LeafAssumption`,
`DurableLeafAssumption`, `StackAssumption`, `StoreAssumption` and `TreeAssumption`
(keys are naturals, and there is a value; the chains a tree is first opened over are
chains of leaves in order). `DegreeAssumption` lets a degree be 1; the theorems on the
tree that involve a removal assume `Degree >= 2`, which is `MIN_DEGREE`
(`include/utility/utility.h:8`), since at degree 1 they do not hold (section 5).

**Allocator.** The inductive invariant `AllocInv` joins the types, the soundness
of the stack and the two counts. The soundness of the stack needs
`FreeNumCovered`, since a pop below the entries would give an arbitrary leaf;
that needs the count of leaves, since the stack a restart maps is a prefix of
`freeNum` entries. A new group pushes leaves of a file that did not exist, so
they are on no stack and in no one's use: `used` and the stack stay within
`Existing`.

**Allocator with crashes.** Six invariants, each inductive given those before.
`CoverInv` says what every point of a call relies on (`PhaseInv`) and how far
persistent memory is behind (`DiskInv`): at most the one pop in hand, or the two
counts of a new group; so every crash finds a count that the cells cover, even
one that tears. `PlaceInv` holds while no crash has torn the catalog: the leaves
on the stack are distinct, not owned, not the start, and of files that are named
or about to be; the leaf in hand is still in the cell above the top, which is why a
crash that puts the count back finds it there and not another leaf.
`MapInv` adds that what is named is mapped. `FileInv` holds after a tear too: the
files from 1 to the last named are mapped, and no leaf on the stack, in a cell the durable
count covers or in hand is of a file beyond the next to be made; with that
`PopsMapped` says something of every behaviour. `CountInv` follows `usedNum` through
the two stores of `getLeaf`. `LeakInv` counts: the leaves of the named files are
at most those owned, those counted free, one per `freeLeaf`, one per crash and
the one in hand. `LeaksFollow` turns the inequality into the set that
`LeaksBounded` names, since owned leaves and the stack are disjoint.

**Stores add up to operations.** `StepsImplementOperations` is the refinement of
`PAllocator` by `AllocatorSteps`. The mapping is `base`, the state as of the last
return, so all stores of a call but the last one stutter, and the last must make the
difference of a whole operation. `BaseInv` says at each store what is left of
that difference: during `newLeafGroup` which leaves are pushed (`GroupBase`),
during `getLeaf` whether the stack popped is the free list as it was
(`FromList`) or a group pushed above it (`FromGroup`), during `freeLeaf` what
is unmarked and counted (`FreeBase`). That needs `UsedInv`: whatever is owned or starts the
tree is marked used, or `freeLeaf` and `setStartPointer` would be called
where `PAllocator` does not allow it. A crash between calls finds the catalog as
it was flushed, which `DiskInv` gives.

**Chain.** The inductive invariant `ChainInv` has the allocator's, and for each
mode what the lists are: while open, the durable chain is `leaves` unless
`unsafe`, and the volatile lists are exact unless `split`; while loading,
`leaves` is a prefix of `saved` and linked so far; while closed, the durable
chain is `saved`. `EmptyLeaf` is the central step: from exact `prev`
and `next` the repair of `pNext` removes exactly one leaf from the chain.
Recovery is exact because the loader stops at a null `pNext`, and the only
prefix of `saved` that ends with one is all of it. `NextInv` is an invariant of
its own that unsafe steps keep as well: whatever `next` leads to leads back by
`prev`, and nothing leads to a leaf outside the tree. A split in the middle makes
`prev` of the following leaf wrong, but the new leaf's `next` is null, so no
`next` ever leads to a deleted object.

**Slots of a leaf.** `LeafInv` joins the count, the fingerprints and the keys told
apart of the leaf and of the one just split off, and that a freed leaf has no
entry left: without that `Create`, which sets the count to 0 and no bit, would
break the count. A lemma for each operation says that it keeps a leaf sound;
`ArrangedSound` holds for any order `findSplitKey` leaves the entries in, and
`HalvesSound` needs `LeafDegree >= 2`, or the new entry would find its half full.

`SlotsImplementMap` maps a leaf to its `Entries`. A sound leaf has one entry
for each bit (`EntriesOf`), so its map is known from what its set bits hold
(`EntriesAre`), and there is a lemma for each operation. For the split, an order of `Orders` leaves in the
low half a set of `Half(n)` keys below all others, and such a set is the
`Smallest` of `LeafMap` (`SmallestIs`); the key at the cut is the least above it.

**A leaf with crashes.** `DurInv` says how far the slots on disk are behind at each
flush: at most the one slot the call is about, and only in the parts not
flushed yet. Every flush and every eviction makes a part of the disk what the
process sees (`Closer`), so one argument serves them all. `KeepInv` says why the
rest survives: the slots have keys of their own (`Told`), and a slot that is free
has no key that a slot *behind* it has, because an insertion takes the first slot
that is free. A bit that reaches the disk before its key may make a stale key
visible again, and `find` then meets the slot in use first. The mutant
`FirstZeroHigh` shows that nothing weaker would do.

**Mapped stack.** The mapping covers the height after every open, push and
growth, hence reads and writes stay inside it; the abstract stack is the cells
below the height, whatever the cells above hold.

**Store.** `StoreInv` joins `ChainInv`, that free leaves are empty (needed as a
recycled leaf keeps what its slots held), and that, up to an unsafe
step, entries ascend along the durable chain of an open, closed or loading tree
(`Ascends`): adjacent leaves alone do not say enough, so the invariant compares
every two. The keys of an operation fit between the leaves around its own
(`FitsBetween`), which is all the tree's routing is asked for; a split puts the two
parts of `LeafInsert` side by side, a removal takes a leaf out. Ascending leaves
share no key, so `Merged` is one map, and it changes at the key of the operation and
nowhere else; with that each step is a step of `KVStore`. Loading and closing
leave it alone because recovery is exact (`LoadsExactly`).

**Tree.** `WellFormed` says that the root is an inner node over a *fan* of nodes of
one height: an entry's key is at most the least key of its node, and above all
keys of the nodes before it. The nodes of height 0 are leaves with
1 to `2 * LeafDegree - 1` entries (`Filled`), those of height `h + 1` are the inner
nodes over fans of `Degree` to `2 * Degree + 1` nodes of height `h` (`Grown`,
`Good[h]`). The root alone may have fewer entries, or up to `3 * Degree + 1`: case 6 of
`remove` merges its two children before it gives way to them. `WellFormed`
ranges over all trees of all heights and is not for TLC to evaluate; the
properties of the run `tree` are what follows from it.

A proof about one node never looks below its children. It takes them from any set
`N` of sound nodes, and says what an operation makes of the entries below: `AddChildIs` and
`InsertStepIs` for insertion, with the two halves of a split; `MergeIs`,
`RedistributeRightIs`, `RedistributeLeftIs` and `PairSwap` for merging and for moving an entry between
brothers, each of the six cases a replacement of two neighbours by one or two nodes
with the same entries; `RebalanceIs` and `RemoveStepIs` for removal. The lemmas
`Induct`, `Iterate` and `Calls` carry that over all heights: they prove that
a recursive function of `FPTree` exists, takes the values its definition
states, and that what call `d + 1` returns and the step at `d` give call `d`. For
`bulkLoading` the invariant of its loop is a *row* (`IsRow`): the nodes of one
level, ascending, with the entries of the chain among them; `Parents` makes
a shorter row of nodes one level higher, until it is one inner node. `Reopen` needs
besides that `LeavesOf` of a tree is such a row.

The refinement follows: the entries of a well-formed tree have one value a key, so
that `Contents` is their map, and each operation changes it as `KVStore` does.
`find`, `update` and `remove` reach the one leaf that can hold the key since the fans on
the path send every other key elsewhere.

`LeavesStayInPlace` relates the leaves before and after an operation from left to
right, which says more than the entries do. The same lemmas carry the *set* of
leaves below a node along with its entries (`Under`, `Edited`): a merge, a
redistribution or a split of inner nodes leaves it what it was, and an operation on a
leaf takes that leaf out, or puts in its place one or two leaves that each have a key
of it (the first leaf of an empty tree apart, `Touched`). The order need not be
followed through the operations, since the leaves of a well-formed tree ascend
(`LeavesOfIs`) and a set of leaves ascends in one order only (`RowsOnce`). A leaf that
shares a key with the one it replaces stands where that one stood, as no other leaf
lies between them (`NotBetween`, `GivesWay`); with that the two rows differ in one
place (`TouchedRows`).

**Only model-checked.**

- `BytesAreSlots`: the byte operations use `Bitwise`, which the prover does not
  reach. Every bitmap a leaf of the run can have is checked.
- `LoadEnds`: liveness under fairness.
- `SplitLosesOnlyMoved`: what a crash leaves of a split.
- `LoopIsBulkLoad`: the theorems on the tree are about the closed form.

## 5. Not modelled

- *What is done after a torn crash.* Where a crash has torn a leaf, it takes no more
  calls. Where one has torn the catalog (`torn`), the allocator goes on until it pops a
  leaf whose file is not mapped, and the model stops at the null address. A crash
  inside `split` is in the model, and no property bounds what it costs.
- *A mapping that fails* (`pmem_map_file` returning null), beyond a group file that
  cannot be made; the code does not look at the result.
- *The layout of a group file*: offsets and sizes are arithmetic on addresses,
  without state.
- *Degree 1.* `MIN_DEGREE` is 2, but the constructor does not enforce it; at
  degree 1 a node may have no brother and `InnerNode::remove` returns false for a
  key it has removed (`fptree.cpp:178`).
- *clhash*, which stands in `LeafSlots` as any function `Hash` of the key; drivers,
  benchmarks and printing, which have no state of their own.

Some behaviours are in the models as the code has them without a run that states
the contrary: `usedNum` only grows (`p_allocator.cpp:114` lowers nothing, and nothing
reads it; the manual, `系统说明书-v1.2.md:61`, calls it the current number of leaves in
use); the bit of the last entry of a leaf is cleared without a flush, so that a crash
can find a free leaf with a bit set (`ghosts`), which is then allocated with count 0
(`fptree.cpp:346`); `prev` of the leaf after a middle split still names its old neighbour
(`fptree.cpp:440`), also after that one is deleted; a recycled leaf that becomes the
first of an empty tree keeps its old `pNext` (`fptree.cpp:341`), which `LeafChain`
marks `unsafe`; a failed `getLeaf` is not looked at (`fptree.cpp:343`), where the
models stop; a leaf splits one entry before
its slots are full, while the comment at `fptree.cpp:419` speaks of a full one;
`split` flushes of the old leaf only the bitmap, so that a crash after it
loses entries that `findSplitKey` moved (`SplitLosesOnlyMoved` says which; no
document promises that split survives a crash, and the manual,
`系统说明书-v1.2.md:42`, does without a log); a crash in the first constructor
leaves a catalog of zeros, and the next process then makes a file
of id 0, whose leaves count as null (`p_allocator.cpp:46`).

## 6. Plan

Done: the allocator, whole and store by store, with proofs of both and of the
refinement between them; the chain with proofs; the slots of a leaf and their
flushes with proofs, also that the slots implement a map, and its bytes; inner
nodes and tree; the mapped stack with its proofs; the composition of leaves, chain
and allocator, with the proof that it is a dictionary; the proofs of the inner
nodes and of the tree, for every degree and height, also that it is a dictionary;
the loop of `bulkLoading`.

Left: `Store` over `FPTree` instead of a choice of leaf, with the chain in its state;
a proof that the loop of `bulkLoading` builds its closed form.
