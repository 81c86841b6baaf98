----------------------------- MODULE DurableLeaf -----------------------------
(***************************************************************************)
(* A leaf of the tree between its stores and its flushes (src/fptree.cpp): *)
(* mem is what the process sees, disk what persistent memory holds.  A     *)
(* store goes to mem, and reaches disk when it is flushed or at any time   *)
(* before (Evict), one unit at a time: a cache line of the bitmap, a key,  *)
(* a value, a fingerprint or the link to the next leaf.  (struct leaf is   *)
(* packed, so a key and its value can be in different lines.)  Evictions   *)
(* come in any order, so the stores of a call up to its first flush are    *)
(* one step: whatever a crash among them leaves, a crash after them can.   *)
(***************************************************************************)
EXTENDS LeafSlots

CONSTANTS
  Keys,       \* positive naturals
  Values,
  LineSlots,  \* the slots whose bits are in one cache line of the bitmap
  MaxCrashes  \* bound on the crashes of a behaviour

ASSUME DurableLeafAssumption ==
  /\ LeafDegree \in Nat \ {0, 1} /\ LineSlots \in Nat \ {0} /\ MaxCrashes \in Nat
  /\ Keys \subseteq Nat \ {0} /\ Hash \in [Keys -> Nat]

VARIABLES
  mem,      \* the slots as the process sees them, with the volatile n
  disk,     \* the slots in persistent memory (its n stands for nothing)
  right,    \* the leaf that is split off: its slots; Zeroed before
  linked,   \* pNext names right, in mem and on disk
  moved,    \* history: the slots that findSplitKey gave another entry than they had
  live,     \* there is a LeafNode for the leaf: it is not free
  pc,       \* the next flush of the call in progress, or "idle", or "halved"
  arg,      \* the call in progress: operation, key, value and slot
  before,   \* history: what find returned, key by key, between two calls
  ghosts,   \* history: slots cleared by the removal of the last entry, unflushed
  crashes,  \* history: crashes so far
  torn      \* history: a crash has left a bit set, and not its entry or a ghost's

durableLeafVars ==
  <<mem, disk, right, linked, moved, live, pc, arg, before, ghosts, crashes, torn>>
splitVars == <<right, linked, moved>>
crashVars == <<crashes, torn>>

\* What find finds in a leaf, key by key.
Found(l) == [k \in {j \in Keys : Has(l, j)} |-> ValueOf(l, k)]

Line(s) == {t \in Slots : t \div LineSlots = s \div LineSlots}

NoCall == [op |-> "none", key |-> 0, val |-> 0, slot |-> 0]

DurableLeafInit ==
  /\ mem = Zeroed /\ disk = Zeroed /\ right = Zeroed
  /\ linked = [mem |-> FALSE, disk |-> FALSE] /\ moved = {} /\ live = FALSE
  /\ pc = "idle" /\ arg = NoCall /\ before = Found(Zeroed) /\ ghosts = {}
  /\ crashes = 0 /\ torn = FALSE

WithLine(s)  == [disk EXCEPT !.bits = (@ \ Line(s)) \cup (mem.bits \cap Line(s))]
WithKey(s)   == [disk EXCEPT !.kv[s].key = mem.kv[s].key]
WithValue(s) == [disk EXCEPT !.kv[s].val = mem.kv[s].val]
WithFp(s)    == [disk EXCEPT !.fp[s] = mem.fp[s]]

\* A call on a leaf that no crash has torn: what becomes of one is not followed.
Call(op, k, v, s) ==
  /\ pc = "idle" /\ ~torn
  /\ arg' = [op |-> op, key |-> k, val |-> v, slot |-> s]
  /\ UNCHANGED <<before, crashVars>>

\* A flush takes d to disk and the call on to point to, or back to its caller.
Flush(from, d, to) ==
  /\ pc = from /\ pc' = to /\ disk' = d
  /\ arg' = IF to = "idle" THEN NoCall ELSE arg
  /\ before' = IF to = "idle" THEN Found(mem) ELSE before
  /\ UNCHANGED <<mem, splitVars, live, crashVars>>

\* A flush that takes no line of the bitmap to disk.
FlushEntryOnly(from, d, to) == Flush(from, d, to) /\ UNCHANGED ghosts

\* A flush of the bitmap's line of slot s.
FlushBit(from, s, to) ==
  /\ Flush(from, WithLine(s), to)
  /\ ghosts' = ghosts \ Line(s)
-----------------------------------------------------------------------------
\* A mutant of FlushEntry: insertNonFull flushes neither key nor value.
FlushEntryNot == FlushEntryOnly("entry", disk, "bit")

\* A mutant of FlushLeftBits: split flushes only the new leaf.
FlushLeftBitsNot == FlushEntryOnly("leftBits", disk, "right")
-----------------------------------------------------------------------------
\* LeafNode(FPTree*): nothing is written to the leaf.
Create ==
  /\ pc = "idle" /\ ~live /\ live' = TRUE
  /\ mem' = [mem EXCEPT !.n = 0]
  /\ UNCHANGED <<disk, splitVars, pc, arg, before, ghosts, crashVars>>

\* insertNonFull of a leaf that has a slot free; if n is wrong it may have none.
CallInsert(k, v) ==
  /\ live /\ ~Has(mem, k) /\ mem.n < 2 * LeafDegree - 1 /\ mem.bits # Slots
  /\ Call("insert", k, v, FirstZero(mem)) /\ pc' = "entry"
  /\ mem' = Put(mem, k, v)
  /\ UNCHANGED <<disk, splitVars, live, ghosts>>

FlushEntry ==
  FlushEntryOnly("entry", [disk EXCEPT !.kv[arg.slot] = mem.kv[arg.slot]], "bit")

FlushInsertedBit == FlushBit("bit", arg.slot, "fingerprint")

FlushFingerprint == FlushEntryOnly("fingerprint", WithFp(arg.slot), "idle")

\* update, and insert of a key that is there
CallUpdate(k, v) ==
  /\ live /\ Has(mem, k)
  /\ Call("update", k, v, IndexOf(mem, k)) /\ pc' = "value"
  /\ mem' = SetValue(mem, k, v)
  /\ UNCHANGED <<disk, splitVars, live, ghosts>>

FlushValue == FlushEntryOnly("value", WithValue(arg.slot), "idle")

\* remove of a key, and not of the last entry
CallRemove(k) ==
  /\ live /\ Has(mem, k) /\ mem.n > 1
  /\ Call("remove", k, 0, IndexOf(mem, k)) /\ pc' = "cleared"
  /\ mem' = Drop(mem, k)
  /\ UNCHANGED <<disk, splitVars, live, ghosts>>

FlushClearedBit == FlushBit("cleared", arg.slot, "idle")

\* remove of the last entry: the bit is cleared, nothing of the leaf is flushed,
\* and the leaf is freed.
RemoveLast(k) ==
  /\ live /\ Has(mem, k) /\ mem.n = 1
  /\ pc = "idle" /\ ~torn /\ live' = FALSE
  /\ mem' = Drop(mem, k) /\ before' = Found(mem')
  /\ ghosts' = ghosts \cup {IndexOf(mem, k)}
  /\ UNCHANGED <<disk, splitVars, pc, arg, crashVars>>

\* insert into a leaf that is to be split: findSplitKey clears the bitmap,
CallSplit(k, v) ==
  /\ live /\ ~Has(mem, k) /\ mem.n >= 2 * LeafDegree - 1
  /\ mem.n = Cardinality(mem.bits)   \* or the assertion ends the process
  /\ Call("split", k, v, 0) /\ pc' = "arrange"
  /\ right' = mem /\ mem' = [mem EXCEPT !.bits = {}]
  /\ UNCHANGED <<disk, linked, moved, live, ghosts>>

\* and moves the entries and sets their bits in place; split copies the leaf,
\* cuts both bitmaps and links the new leaf,
SplitInPlace ==
  /\ pc = "arrange" /\ pc' = "leftBits"
  /\ \E order \in Orders(right) :
       LET l == Arranged(right, order)
       IN /\ mem' = LowHalf(l) /\ right' = HighHalf(l)
          /\ moved' = {s \in 0 .. right.n - 1 : order[s] # s}
  /\ linked' = [linked EXCEPT !.mem = TRUE]
  /\ UNCHANGED <<disk, live, arg, before, ghosts, crashVars>>

\* flushes the bitmap of the old leaf, and then all of the new one.
FlushLeftBits ==
  FlushEntryOnly("leftBits", [disk EXCEPT !.bits = mem.bits], "right")
PersistRight == FlushEntryOnly("right", disk, "halved")

Evict ==
  /\ \/ \E d \in UNION {{WithLine(s), WithKey(s), WithValue(s), WithFp(s)} : s \in Slots} :
          d # disk /\ disk' = d /\ UNCHANGED linked
     \/ linked.mem # linked.disk /\ linked' = [linked EXCEPT !.disk = linked.mem]
        /\ UNCHANGED disk
  /\ UNCHANGED <<mem, right, moved, live, pc, arg, before, ghosts, crashVars>>

\* The process ends at any point; the next one loads the leaf, if it is in use,
\* and counts its bits.
Crash ==
  /\ crashes < MaxCrashes /\ crashes' = crashes + 1
  /\ mem' = Reloaded(disk) /\ right' = Zeroed
  /\ linked' = [mem |-> FALSE, disk |-> FALSE] /\ moved' = {}
  /\ pc' = "idle" /\ arg' = NoCall /\ before' = Found(disk) /\ ghosts' = {}
  /\ torn' = \/ torn \/ ghosts # {} \/ arg.op = "split"
             \/ \E s \in disk.bits : disk.kv[s] # mem.kv[s] \/ disk.fp[s] # mem.fp[s]
  /\ UNCHANGED <<disk, live>>

DurableLeafNext ==
  \/ Create \/ Evict \/ Crash
  \/ \E k \in Keys, v \in Values : CallInsert(k, v) \/ CallUpdate(k, v) \/ CallSplit(k, v)
  \/ \E k \in Keys : CallRemove(k) \/ RemoveLast(k)
  \/ FlushEntry \/ FlushInsertedBit \/ FlushFingerprint \/ FlushValue
  \/ FlushClearedBit \/ SplitInPlace \/ FlushLeftBits \/ PersistRight

DurableLeafSpec == DurableLeafInit /\ [][DurableLeafNext]_durableLeafVars
-----------------------------------------------------------------------------
\* Once insertNonFull, update or remove has returned, a crash finds what the
\* process saw: every bit set is set, with its key, value and fingerprint, and
\* no other bit is, except one whose clearing by the removal of a last entry
\* was not flushed, and no flush of its line has come after it.
DurableWhenIdle ==
  pc = "idle" /\ live =>
    /\ mem.bits \subseteq disk.bits
    /\ disk.bits \ mem.bits \subseteq ghosts
    /\ \A s \in mem.bits : disk.kv[s] = mem.kv[s] /\ disk.fp[s] = mem.fp[s]

\* A crash at any point of insertNonFull, update or remove costs no entry but
\* the one the call is about, and of an update it leaves the old value or the
\* new.  A bit can reach persistent memory before its key does, and the slot
\* may still hold what another slot has now: find meets that slot later.
CrashKeepsEntries ==
  live /\ ~torn /\ arg.op # "split" =>
    \A k \in DOMAIN before \ (IF arg.op = "remove" THEN {arg.key} ELSE {}) :
      /\ Has(disk, k)
      /\ ValueOf(disk, k) \in
           {before[k]} \cup (IF arg.op = "update" /\ k = arg.key THEN {arg.val} ELSE {})

\* A crash after split has returned costs the old leaf only entries that
\* findSplitKey moved to another slot, which nothing flushes: one that stayed is
\* found with its value, though the slots before it may hold a mixture of old and
\* new entries by then; and the new leaf, of which all is flushed, is whole, but
\* out of reach if the line of pNext was not written back.
SplitLosesOnlyMoved ==
  [][pc = "halved" /\ crashes' > crashes =>
       LET Held(l, s) == {l.kv[t].key : t \in s}
           lost  == Held(mem, mem.bits \cap moved)
                    \cup (IF linked.disk THEN {} ELSE Held(right, right.bits))
           found == IF linked.disk THEN {mem', right} ELSE {mem'}
       IN \A k \in DOMAIN before \ lost :
            \E l \in found : Has(l, k) /\ ValueOf(l, k) = before[k]]_durableLeafVars
=============================================================================
