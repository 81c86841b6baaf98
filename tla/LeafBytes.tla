------------------------------ MODULE LeafBytes ------------------------------
(***************************************************************************)
(* The bitmap of a leaf byte by byte, with the byte of the leaf that       *)
(* follows it: the functions of src/utility.cpp, which stand behind the    *)
(* sets of slots in LeafSlots.  They map the bytes they get to the bytes   *)
(* they leave.                                                             *)
(***************************************************************************)
EXTENDS LeafNode, Integers, Bitwise

CONSTANTS
  Width,  \* the bits of a byte: 8
  Native  \* the build is by GCC for x86-64, where bits are set with bts and btr

ASSUME WidthAssumption == Width \in Nat \ {0} /\ Native \in BOOLEAN

Ones == 2 ^ Width - 1

\* sizeof(bitmap); the byte with this index is not the bitmap's.
BitmapBytes == (LeafDegree * 2 + Width - 1) \div Width

BitOf(b, i) == (b[i \div Width] \div 2 ^ (i % Width)) % 2
BitsOf(b) == {i \in 0 .. Width * (BitmapBytes + 1) - 1 : BitOf(b, i) = 1}
-----------------------------------------------------------------------------
\* Mutants of the operations below.

\* The byte of the cut is left to bzero.
ClearSinceBytes(b, i) ==
  [k \in DOMAIN b |-> IF i \div Width < k /\ k < BitmapBytes THEN 0 ELSE b[k]]

-----------------------------------------------------------------------------
SetBit(b, i) == [b EXCEPT ![i \div Width] = @ | 2 ^ (i % Width)]

\* Without btr, clear_bit is written as set_bit is.
ClearBit(b, i) ==
  [b EXCEPT ![i \div Width] =
     IF Native THEN @ & (Ones - 2 ^ (i % Width)) ELSE @ | 2 ^ (i % Width)]

\* The bytes that are full are passed, then the bits of the next.
FindFirstZero(b, size) ==
  LET length == (size + Width - 1) \div Width
      open   == {k \in 0 .. length - 1 : b[k] # Ones}
      free   == {i \in 0 .. Width * length - 1 : i >= Width * Min(open) /\ BitOf(b, i) = 0}
  IN IF open = {} \/ Min(free) >= size THEN -1 ELSE Min(free)

\* The byte of the cut is masked, the bytes after it, or before it, are zeroed.
ClearSince(b, i) ==
  [k \in DOMAIN b |->
     CASE k = i \div Width -> b[k] & (Ones \div 2 ^ (Width - (i % Width)))
       [] i \div Width < k /\ k < BitmapBytes -> 0
       [] OTHER -> b[k]]

ClearUntil(b, i) ==
  [k \in DOMAIN b |->
     CASE k = i \div Width -> b[k] & ((Ones * 2 ^ (i % Width)) % 2 ^ Width)
       [] k < i \div Width -> 0
       [] OTHER -> b[k]]
-----------------------------------------------------------------------------
\* The bytes that hold the bits of a leaf, before any byte at all.
Packed(bits, follows) ==
  [k \in 0 .. BitmapBytes |->
     IF k = BitmapBytes THEN follows
     ELSE MapThenSumSet(LAMBDA s : 2 ^ (s % Width), {s \in bits : s \div Width = k})]
Packings == {Packed(l.bits, follows) : l \in Leaves, follows \in {0, 1, Ones}}

\* What the functions do to bytes is what the leaf does to sets of slots, for
\* every bitmap it can have, in a Native build: set_bit and clear_bit change the one bit; the two
\* cuts of split part the bits wherever it cuts, also on the boundary of a byte,
\* where the mask is 255 >> 8; find_first_zero returns the "first zero bit index
\* or -1 if not found" (utility.h:49) whatever the bits beyond the ones that
\* count are; and none of them changes what follows the bitmap.
BytesAreSlots ==
  \A b \in Packings, s \in Slots :
    LET bits == BitsOf(b)
        free == (0 .. s) \ bits
    IN /\ BitsOf(SetBit(b, s)) = bits \cup {s}
       /\ BitsOf(ClearBit(b, s)) = bits \ {s}
       /\ BitsOf(ClearSince(b, s)) = {i \in bits : i < s \/ i >= Width * BitmapBytes}
       /\ BitsOf(ClearUntil(b, s)) = {i \in bits : i >= s}
       /\ FindFirstZero(b, s + 1) = IF free = {} THEN -1 ELSE Min(free)
-----------------------------------------------------------------------------
\* What the repository says, of every build of the program.

=============================================================================
