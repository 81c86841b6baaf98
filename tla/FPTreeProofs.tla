----------------------------- MODULE FPTreeProofs ------------------------------
(***************************************************************************)
(* Theorems about the tree, for any degree of at least MIN_DEGREE (2,      *)
(* utility.h:8), leaves of any size, any keys and values, and trees of any *)
(* height.                                                                 *)
(*                                                                         *)
(* The tree is recursive, and the proofs go by induction on its height:    *)
(* what an operation does to one inner node is stated in terms of what it  *)
(* has done to the child (InnerNode's operators), and the calls of an      *)
(* operation, from the leaf up, add that up.                               *)
(***************************************************************************)
EXTENDS FPTree, SequenceTheorems, BasicLemmas
-----------------------------------------------------------------------------
\* Recursive functions, and induction over sets of naturals.

\* A set of naturals that has zero and the successor of each of its elements.
LEMMA Induct ==
  ASSUME NEW S, 0 \in S, \A n \in Nat : n \in S => n + 1 \in S
  PROVE  \A n \in Nat : n \in S
<1> SUFFICES ASSUME NEW n \in Nat, n \notin S PROVE FALSE
  OBVIOUS
<1> DEFINE B == {m \in Nat : m \notin S}
<1>1. Min(B) \in B /\ \A m \in B : Min(B) <= m
  <2> B \subseteq Nat /\ B # {}
    OBVIOUS
  <2> HIDE DEF B
  <2> QED BY MinIsLeast
<1>2. PICK m \in B : \A j \in B : m <= j
  BY <1>1
<1>3. m # 0 /\ m \in Nat /\ m \notin S
  OBVIOUS
<1>4. m - 1 \in Nat /\ m - 1 < m /\ (m - 1) + 1 = m
  BY <1>3
<1>5. m - 1 \in S
  BY <1>2, <1>4
<1> QED BY <1>3, <1>4, <1>5

\* A function on the naturals may be defined by what its first value is and how
\* the next follows from one.
Iterates(f, a, F) == f = [n \in Nat |-> IF n = 0 THEN a ELSE F[f[n - 1]]]

LEMMA Iterate ==
  ASSUME NEW V, NEW a \in V, NEW F \in [V -> V]
  PROVE  \E f \in [Nat -> V] : Iterates(f, a, F)
<1> DEFINE Starts(g, n) == /\ g \in [0 .. n -> V] /\ g[0] = a
                           /\ \A i \in 1 .. n : g[i] = F[g[i - 1]]
<1>1. \A n \in Nat : \E g : Starts(g, n)
  <2> DEFINE S == {n \in Nat : \E g : Starts(g, n)}
  <2>1. 0 \in S
    <3>1. Starts([i \in 0 .. 0 |-> a], 0)
      OBVIOUS
    <3> QED BY <3>1
  <2>2. ASSUME NEW n \in Nat, n \in S PROVE n + 1 \in S
    <3>1. PICK g : Starts(g, n)
      BY <2>2
    <3> DEFINE h == [i \in 0 .. n + 1 |-> IF i <= n THEN g[i] ELSE F[g[n]]]
    <3>2. h \in [0 .. n + 1 -> V] /\ h[0] = a
      BY <3>1
    <3>3. ASSUME NEW i \in 1 .. n + 1 PROVE h[i] = F[h[i - 1]]
      <4>1. CASE i = n + 1
        <5>1. h[n + 1] = F[g[n]] /\ h[n] = g[n]
          OBVIOUS
        <5> QED BY <4>1, <5>1
      <4>2. CASE i <= n
        <5>1. i \in 1 .. n /\ h[i] = g[i] /\ h[i - 1] = g[i - 1]
          BY <4>2
        <5> QED BY <3>1, <5>1
      <4> QED BY <4>1, <4>2
    <3>4. Starts(h, n + 1)
      BY <3>2, <3>3
    <3> HIDE DEF Starts, h
    <3> QED BY <3>4
  <2> HIDE DEF S
  <2>3. \A n \in Nat : n \in S
    BY <2>1, <2>2, Induct
  <2> QED BY <2>3 DEF S
<1>2. ASSUME NEW g, NEW h, NEW m \in Nat, Starts(g, m), Starts(h, m + 1)
      PROVE  \A i \in 0 .. m : g[i] = h[i]
  <2> DEFINE S == {i \in Nat : i <= m => g[i] = h[i]}
  <2>1. 0 \in S
    BY <1>2
  <2>2. ASSUME NEW i \in Nat, i \in S PROVE i + 1 \in S
    BY <1>2, <2>2
  <2> HIDE DEF S
  <2>3. \A i \in Nat : i \in S
    BY <2>1, <2>2, Induct
  <2> QED BY <2>3 DEF S
<1> DEFINE pick(n) == CHOOSE g : Starts(g, n)
           f == [n \in Nat |-> pick(n)[n]]
<1> HIDE DEF Starts
<1>3. \A n \in Nat : Starts(pick(n), n)
  BY <1>1
<1> HIDE DEF pick
<1>4. f \in [Nat -> V]
  BY <1>3 DEF Starts
<1>5. ASSUME NEW n \in Nat PROVE f[n] = IF n = 0 THEN a ELSE F[f[n - 1]]
  <2>1. CASE n = 0
    BY <1>3, <2>1 DEF Starts
  <2>2. CASE n # 0
    <3>1. n - 1 \in Nat /\ (n - 1) + 1 = n
      BY <2>2
    <3>2. pick(n - 1)[n - 1] = pick(n)[n - 1]
      BY <3>1, <1>2, <1>3
    <3>3. pick(n)[n] = F[pick(n)[n - 1]]
      BY <1>3, <2>2 DEF Starts
    <3> QED BY <2>2, <3>1, <3>2, <3>3
  <2> QED BY <2>1, <2>2
<1>6. f = [n \in Nat |-> IF n = 0 THEN a ELSE F[f[n - 1]]]
  <2> HIDE DEF f
  <2>1. f = [n \in Nat |-> f[n]]
    BY <1>4
  <2> QED BY <1>5, <2>1
<1> QED BY <1>4, <1>6 DEF Iterates

Goes(f, a, F) == f[0] = a /\ \A n \in Nat : f[n + 1] = F[f[n]]

LEMMA Steps ==
  ASSUME NEW f, NEW a, NEW F, Iterates(f, a, F)
  PROVE  Goes(f, a, F)
<1>1. \A n \in Nat : n + 1 \in Nat /\ n + 1 # 0 /\ (n + 1) - 1 = n
  OBVIOUS
<1>2. f[0] = a
  BY DEF Iterates
<1>3. \A n \in Nat : f[n + 1] = F[f[n]]
  BY <1>1 DEF Iterates
<1> QED BY <1>2, <1>3 DEF Goes

\* Downwards, from any number to zero.
LEMMA Descend ==
  ASSUME NEW S, NEW h \in Nat, h \in S, \A d \in Nat : d < h /\ d + 1 \in S => d \in S
  PROVE  0 \in S
<1> DEFINE T == {j \in Nat : j <= h => h - j \in S}
<1>1. 0 \in T
  OBVIOUS
<1>2. ASSUME NEW j \in Nat, j \in T PROVE j + 1 \in T
  <2>1. CASE j + 1 <= h
    <3> DEFINE n == h - (j + 1)
    <3>1. n \in Nat /\ n < h /\ n + 1 = h - j /\ j <= h
      BY <2>1
    <3> HIDE DEF n
    <3>2. n + 1 \in S
      BY <1>2, <3>1
    <3>3. n \in S
      BY <3>1, <3>2
    <3> QED BY <3>3 DEF n
  <2> QED BY <2>1
<1> HIDE DEF T
<1>3. \A j \in Nat : j \in T
  BY <1>1, <1>2, Induct
<1>4. h \in T /\ h <= h /\ h - h = 0
  BY <1>3
<1> QED BY <1>4 DEF T
-----------------------------------------------------------------------------
\* Well-formed nodes.

\* What inner nodes hold: entries for nodes of N.
Entry(N) == [key : Keys, node : N]

\* The key of an entry is not above those of its node, and above those of the
\* nodes before: findIndex finds the one node a key may be in.
Before(e, f) == \A k \in KeysOf(e.node) : k < f.key

Fan(es) ==
  /\ \A i \in 1 .. Len(es) : es[i].key <= MinKey(es[i].node)
  /\ \A i, j \in 1 .. Len(es) : i < j => Before(es[i], es[j])

\* Inner nodes over N with any number of entries but none, and with as many as a
\* node other than the root has.
Fans(N) == {Inner(es) : es \in {s \in Seq(Entry(N)) : s # <<>> /\ Fan(s)}}

Sized(es) == Len(es) \in Degree .. 2 * Degree + 1
Grown(N) == {n \in Fans(N) : Sized(n.es)}

Filled == {Leaf(f) : f \in {g \in UNION {[S -> Values] : S \in SUBSET Keys} : IsFilled(g)}}

\* The nodes that head a well-formed tree of height h.
Good[h \in Nat] == IF h = 0 THEN Filled ELSE Grown(Good[h - 1])

\* Good is well defined, as in Iterate.
LEMMA GoodIs ==
  /\ Good[0] = Filled
  /\ \A h \in Nat : Good[h + 1] = Grown(Good[h])
<1> DEFINE Starts(g, n) == /\ g = [i \in 0 .. n |-> g[i]] /\ g[0] = Filled
                           /\ \A i \in 1 .. n : g[i] = Grown(g[i - 1])
<1>1. \A n \in Nat : \E g : Starts(g, n)
  <2> DEFINE S == {n \in Nat : \E g : Starts(g, n)}
  <2>1. 0 \in S
    <3>1. Starts([i \in 0 .. 0 |-> Filled], 0)
      OBVIOUS
    <3> HIDE DEF Starts
    <3> QED BY <3>1
  <2>2. ASSUME NEW n \in Nat, n \in S PROVE n + 1 \in S
    <3>1. PICK g : Starts(g, n)
      BY <2>2
    <3> DEFINE h == [i \in 0 .. n + 1 |-> IF i <= n THEN g[i] ELSE Grown(g[n])]
    <3>2. h = [i \in 0 .. n + 1 |-> h[i]] /\ h[0] = Filled
      BY <3>1
    <3>3. ASSUME NEW i \in 1 .. n + 1 PROVE h[i] = Grown(h[i - 1])
      <4>1. CASE i = n + 1
        <5>1. h[n + 1] = Grown(g[n]) /\ h[n] = g[n]
          OBVIOUS
        <5> QED BY <4>1, <5>1
      <4>2. CASE i <= n
        <5>1. i \in 1 .. n /\ h[i] = g[i] /\ h[i - 1] = g[i - 1]
          BY <4>2
        <5> QED BY <3>1, <5>1
      <4> QED BY <4>1, <4>2
    <3>4. Starts(h, n + 1)
      BY <3>2, <3>3
    <3> HIDE DEF Starts, h
    <3> QED BY <3>4
  <2> HIDE DEF S
  <2>3. \A n \in Nat : n \in S
    BY <2>1, <2>2, Induct
  <2> QED BY <2>3 DEF S
<1>2. ASSUME NEW g, NEW h, NEW m \in Nat, Starts(g, m), Starts(h, m + 1)
      PROVE  \A i \in 0 .. m : g[i] = h[i]
  <2> DEFINE S == {i \in Nat : i <= m => g[i] = h[i]}
  <2>1. 0 \in S
    BY <1>2
  <2>2. ASSUME NEW i \in Nat, i \in S PROVE i + 1 \in S
    <3>1. CASE i + 1 <= m
      <4>1. i + 1 \in 1 .. m /\ i + 1 \in 1 .. m + 1 /\ (i + 1) - 1 = i
        BY <3>1
      <4>2. g[i + 1] = Grown(g[i]) /\ h[i + 1] = Grown(h[i])
        BY <1>2, <4>1
      <4> QED BY <2>2, <3>1, <4>2
    <3> QED BY <3>1
  <2> HIDE DEF S
  <2>3. \A i \in Nat : i \in S
    BY <2>1, <2>2, Induct
  <2> QED BY <2>3 DEF S
<1> DEFINE pick(n) == CHOOSE g : Starts(g, n)
           f == [n \in Nat |-> pick(n)[n]]
<1> HIDE DEF Starts
<1>3. \A n \in Nat : Starts(pick(n), n)
  BY <1>1
<1> HIDE DEF pick
<1>5. ASSUME NEW n \in Nat PROVE f[n] = IF n = 0 THEN Filled ELSE Grown(f[n - 1])
  <2>1. CASE n = 0
    BY <1>3, <2>1 DEF Starts
  <2>2. CASE n # 0
    <3>1. n - 1 \in Nat /\ (n - 1) + 1 = n
      BY <2>2
    <3>2. pick(n - 1)[n - 1] = pick(n)[n - 1]
      BY <3>1, <1>2, <1>3
    <3>3. pick(n)[n] = Grown(pick(n)[n - 1])
      BY <1>3, <2>2 DEF Starts
    <3>4. f[n] = pick(n)[n] /\ f[n - 1] = pick(n - 1)[n - 1]
      BY <3>1
    <3> QED BY <2>2, <3>2, <3>3, <3>4
  <2> QED BY <2>1, <2>2
<1>6. f = [n \in Nat |-> IF n = 0 THEN Filled ELSE Grown(f[n - 1])]
  <2>1. f = [n \in Nat |-> f[n]]
    OBVIOUS
  <2> HIDE DEF f
  <2> QED BY <1>5, <2>1
<1>7. Good = [h \in Nat |-> IF h = 0 THEN Filled ELSE Grown(Good[h - 1])]
  <2> HIDE DEF f
  <2> QED BY <1>6 DEF Good
<1>8. ASSUME NEW h \in Nat PROVE Good[h + 1] = Grown(Good[h])
  <2>1. h + 1 \in Nat /\ h + 1 # 0 /\ (h + 1) - 1 = h
    OBVIOUS
  <2> QED BY <1>7, <2>1
<1> QED BY <1>7, <1>8
-----------------------------------------------------------------------------
\* Sequences, taken apart at one place or between two.

\* Three sequences in a row.
IsRow3(S, t, a, b, c) ==
  /\ t \in Seq(S)
  /\ Len(t) = Len(a) + Len(b) + Len(c)
  /\ \A i \in 1 .. Len(a) : t[i] = a[i]
  /\ \A i \in 1 .. Len(b) : t[Len(a) + i] = b[i]
  /\ \A i \in 1 .. Len(c) : t[Len(a) + Len(b) + i] = c[i]

LEMMA Concat3 ==
  ASSUME NEW S, NEW a \in Seq(S), NEW b \in Seq(S), NEW c \in Seq(S)
  PROVE  IsRow3(S, a \o b \o c, a, b, c)
<1>1. /\ a \o b \in Seq(S) /\ Len(a \o b) = Len(a) + Len(b)
      /\ \A i \in 1 .. Len(a) + Len(b) :
           (a \o b)[i] = IF i <= Len(a) THEN a[i] ELSE b[i - Len(a)]
  BY ConcatProperties
<1>2. Len(a) \in Nat /\ Len(b) \in Nat /\ Len(c) \in Nat
  BY LenProperties
<1> DEFINE ab == a \o b
<1> HIDE DEF ab
<1>3. /\ ab \o c \in Seq(S) /\ Len(ab \o c) = Len(ab) + Len(c)
      /\ \A i \in 1 .. Len(ab) + Len(c) :
           (ab \o c)[i] = IF i <= Len(ab) THEN ab[i] ELSE c[i - Len(ab)]
  BY <1>1, ConcatProperties DEF ab
<1>4. /\ Len(ab) = Len(a) + Len(b)
      /\ \A i \in 1 .. Len(a) + Len(b) : ab[i] = IF i <= Len(a) THEN a[i] ELSE b[i - Len(a)]
  BY <1>1 DEF ab
<1>5. /\ \A i \in 1 .. Len(a) : (ab \o c)[i] = a[i]
      /\ \A i \in 1 .. Len(b) : (ab \o c)[Len(a) + i] = b[i]
      /\ \A i \in 1 .. Len(c) : (ab \o c)[Len(a) + Len(b) + i] = c[i]
  <2>1. ASSUME NEW i \in 1 .. Len(a) PROVE (ab \o c)[i] = a[i]
    <3>1. i \in 1 .. Len(ab) + Len(c) /\ i <= Len(ab) /\ i \in 1 .. Len(a) + Len(b) /\ i <= Len(a)
      BY <1>2, <1>4
    <3> QED BY <1>3, <1>4, <3>1
  <2>2. ASSUME NEW i \in 1 .. Len(b) PROVE (ab \o c)[Len(a) + i] = b[i]
    <3>1. /\ Len(a) + i \in 1 .. Len(ab) + Len(c) /\ Len(a) + i <= Len(ab)
          /\ Len(a) + i \in 1 .. Len(a) + Len(b) /\ ~(Len(a) + i <= Len(a))
          /\ (Len(a) + i) - Len(a) = i
      BY <1>2, <1>4
    <3> QED BY <1>3, <1>4, <3>1
  <2>3. ASSUME NEW i \in 1 .. Len(c) PROVE (ab \o c)[Len(a) + Len(b) + i] = c[i]
    <3>1. /\ Len(a) + Len(b) + i \in 1 .. Len(ab) + Len(c)
          /\ ~(Len(a) + Len(b) + i <= Len(ab))
          /\ (Len(a) + Len(b) + i) - Len(ab) = i
      BY <1>2, <1>4
    <3> QED BY <1>3, <3>1
  <2> QED BY <2>1, <2>2, <2>3
<1> DEFINE t == ab \o c
<1>6. t \in Seq(S) /\ Len(t) = Len(a) + Len(b) + Len(c)
  BY <1>3, <1>4
<1> HIDE DEF t
<1>7. IsRow3(S, t, a, b, c)
  BY <1>5, <1>6 DEF IsRow3, t
<1> QED BY <1>7 DEF ab, t

\* A sequence is three in a row if it is so element by element.
LEMMA IsConcat3 ==
  ASSUME NEW S, NEW a \in Seq(S), NEW b \in Seq(S), NEW c \in Seq(S),
         NEW s \in Seq(S), Len(s) = Len(a) + Len(b) + Len(c),
         \A i \in 1 .. Len(a) : s[i] = a[i],
         \A i \in 1 .. Len(b) : s[Len(a) + i] = b[i],
         \A i \in 1 .. Len(c) : s[Len(a) + Len(b) + i] = c[i]
  PROVE  s = a \o b \o c
<1> DEFINE t == a \o b \o c
<1>0. IsRow3(S, t, a, b, c)
  BY Concat3
<1> HIDE DEF t
<1>1. /\ t \in Seq(S)
      /\ Len(t) = Len(a) + Len(b) + Len(c)
      /\ \A i \in 1 .. Len(a) : t[i] = a[i]
      /\ \A i \in 1 .. Len(b) : t[Len(a) + i] = b[i]
      /\ \A i \in 1 .. Len(c) : t[Len(a) + Len(b) + i] = c[i]
  BY <1>0 DEF IsRow3
<1>2. Len(a) \in Nat /\ Len(b) \in Nat /\ Len(c) \in Nat
  BY LenProperties
<1>3. ASSUME NEW i \in 1 .. Len(s) PROVE s[i] = t[i]
  <2>1. CASE i <= Len(a)
    <3>1. i \in 1 .. Len(a)
      BY <1>2, <2>1
    <3> QED BY <1>1, <3>1
  <2>2. CASE i > Len(a) /\ i <= Len(a) + Len(b)
    <3>1. i - Len(a) \in 1 .. Len(b) /\ Len(a) + (i - Len(a)) = i
      BY <1>2, <2>2
    <3>2. s[Len(a) + (i - Len(a))] = t[Len(a) + (i - Len(a))]
      BY <1>1, <3>1
    <3> QED BY <3>1, <3>2
  <2>3. CASE i > Len(a) + Len(b)
    <3> DEFINE j == i - (Len(a) + Len(b))
    <3>1. j \in 1 .. Len(c) /\ Len(a) + Len(b) + j = i
      BY <1>2, <2>3
    <3> HIDE DEF j
    <3>2. s[Len(a) + Len(b) + j] = t[Len(a) + Len(b) + j]
      BY <1>1, <3>1
    <3> QED BY <3>1, <3>2
  <2> QED BY <1>2, <2>1, <2>2, <2>3
<1>4. s = t
  BY <1>1, <1>3, SeqEqual
<1> QED BY <1>4 DEF t

\* One element of a sequence replaced, or removed: a before it, and c behind.
IsCut(S, s, i, a, c) ==
  /\ Len(a) = i - 1 /\ Len(c) = Len(s) - i
  /\ s = a \o <<s[i]>> \o c
  /\ \A e \in S : [s EXCEPT ![i] = e] = a \o <<e>> \o c
  /\ RemoveAt(s, i) = a \o c

LEMMA Cut ==
  ASSUME NEW S, NEW s \in Seq(S), NEW i \in 1 .. Len(s)
  PROVE  \E a, c \in Seq(S) : IsCut(S, s, i, a, c)
<1> DEFINE a == SubSeq(s, 1, i - 1)
           c == SubSeq(s, i + 1, Len(s))
<1>0. Len(s) \in Nat /\ i \in Nat /\ i - 1 \in Int /\ i + 1 \in Int
      /\ \A j \in 1 .. Len(s) : s[j] \in S
  BY LenProperties, ElementOfSeq
<1>1. /\ a \in Seq(S) /\ Len(a) = i - 1 /\ \A j \in 1 .. i - 1 : a[j] = s[j]
  <2>1. \A j \in 1 .. i - 1 : s[j] \in S
    BY <1>0
  <2>2. /\ SubSeq(s, 1, i - 1) \in Seq(S)
        /\ Len(SubSeq(s, 1, i - 1)) = IF 1 <= i - 1 THEN (i - 1) - 1 + 1 ELSE 0
        /\ \A j \in 1 .. (i - 1) - 1 + 1 : SubSeq(s, 1, i - 1)[j] = s[1 + j - 1]
    BY <1>0, <2>1, SubSeqProperties
  <2> HIDE DEF a
  <2> QED BY <1>0, <2>2 DEF a
<1>2. /\ c \in Seq(S) /\ Len(c) = Len(s) - i /\ \A j \in 1 .. Len(s) - i : c[j] = s[i + j]
  <2>1. \A j \in i + 1 .. Len(s) : s[j] \in S
    BY <1>0
  <2>2. /\ SubSeq(s, i + 1, Len(s)) \in Seq(S)
        /\ Len(SubSeq(s, i + 1, Len(s))) = IF i + 1 <= Len(s) THEN Len(s) - (i + 1) + 1 ELSE 0
        /\ \A j \in 1 .. Len(s) - (i + 1) + 1 : SubSeq(s, i + 1, Len(s))[j] = s[(i + 1) + j - 1]
    BY <1>0, <2>1, SubSeqProperties
  <2>3. \A j \in 1 .. Len(s) - i : j \in 1 .. Len(s) - (i + 1) + 1 /\ (i + 1) + j - 1 = i + j
    BY <1>0
  <2> HIDE DEF c
  <2> QED BY <1>0, <2>2, <2>3 DEF c
<1>3. RemoveAt(s, i) = a \o c
  BY DEF RemoveAt
<1> HIDE DEF a, c
<1>4. ASSUME NEW t \in Seq(S), NEW e \in S, Len(t) = Len(s), t[i] = e,
             \A j \in 1 .. Len(s) : j # i => t[j] = s[j]
      PROVE  t = a \o <<e>> \o c
  <2>1. <<e>> \in Seq(S) /\ Len(<<e>>) = 1 /\ <<e>>[1] = e
    OBVIOUS
  <2>2. Len(t) = Len(a) + Len(<<e>>) + Len(c)
    BY <1>0, <1>1, <1>2, <1>4, <2>1
  <2>3. \A j \in 1 .. Len(a) : t[j] = a[j]
    BY <1>0, <1>1, <1>4
  <2>4. \A j \in 1 .. Len(<<e>>) : t[Len(a) + j] = <<e>>[j]
    <3>1. \A j \in 1 .. Len(<<e>>) : j = 1
      BY <2>1
    <3>2. Len(a) + 1 = i
      BY <1>0, <1>1
    <3> QED BY <1>4, <2>1, <3>1, <3>2
  <2>5. \A j \in 1 .. Len(c) : t[Len(a) + Len(<<e>>) + j] = c[j]
    <3>1. ASSUME NEW j \in 1 .. Len(c) PROVE t[Len(a) + Len(<<e>>) + j] = c[j]
      <4>1. Len(a) + Len(<<e>>) + j = i + j /\ i + j \in 1 .. Len(s) /\ i + j # i
            /\ j \in 1 .. Len(s) - i
        BY <1>0, <1>1, <1>2, <2>1
      <4> QED BY <1>2, <1>4, <4>1
    <3> QED BY <3>1
  <2> QED BY <1>1, <1>2, <2>1, <2>2, <2>3, <2>4, <2>5, IsConcat3
<1>5. s = a \o <<s[i]>> \o c
  BY <1>0, <1>4
<1>6. ASSUME NEW e \in S PROVE [s EXCEPT ![i] = e] = a \o <<e>> \o c
  <2>1. /\ [s EXCEPT ![i] = e] \in Seq(S)
        /\ Len([s EXCEPT ![i] = e]) = Len(s)
        /\ \A j \in 1 .. Len(s) : [s EXCEPT ![i] = e][j] = IF j = i THEN e ELSE s[j]
    BY ExceptSeq
  <2> DEFINE t == [s EXCEPT ![i] = e]
  <2> HIDE DEF t
  <2>2. t \in Seq(S) /\ Len(t) = Len(s) /\ t[i] = e /\ \A j \in 1 .. Len(s) : j # i => t[j] = s[j]
    BY <2>1 DEF t
  <2>3. t = a \o <<e>> \o c
    BY <1>4, <2>2
  <2> QED BY <2>3 DEF t
<1>7. IsCut(S, s, i, a, c)
  BY <1>1, <1>2, <1>3, <1>5, <1>6 DEF IsCut
<1> QED BY <1>1, <1>2, <1>7

\* A sequence cut behind its first i elements, and an element inserted there.
IsSplit(S, s, i, a, c) ==
  /\ Len(a) = i /\ Len(c) = Len(s) - i
  /\ \A j \in 1 .. i : a[j] = s[j]
  /\ \A j \in 1 .. Len(s) - i : c[j] = s[i + j]
  /\ s = a \o c
  /\ a = SubSeq(s, 1, i) /\ c = SubSeq(s, i + 1, Len(s))
  /\ \A e \in S : InsertAt(s, i + 1, e) = a \o <<e>> \o c

LEMMA CutInsert ==
  ASSUME NEW S, NEW s \in Seq(S), NEW i \in 0 .. Len(s)
  PROVE  \E a, c \in Seq(S) : IsSplit(S, s, i, a, c)
<1> DEFINE a == SubSeq(s, 1, i)
           c == SubSeq(s, i + 1, Len(s))
<1>0. Len(s) \in Nat /\ i \in Nat /\ i + 1 \in Int
      /\ \A j \in 1 .. Len(s) : s[j] \in S
  BY LenProperties, ElementOfSeq
<1>1. /\ a \in Seq(S) /\ Len(a) = i /\ \A j \in 1 .. i : a[j] = s[j]
  <2>1. \A j \in 1 .. i : s[j] \in S
    BY <1>0
  <2>2. /\ SubSeq(s, 1, i) \in Seq(S)
        /\ Len(SubSeq(s, 1, i)) = IF 1 <= i THEN i - 1 + 1 ELSE 0
        /\ \A j \in 1 .. i - 1 + 1 : SubSeq(s, 1, i)[j] = s[1 + j - 1]
    BY <1>0, <2>1, SubSeqProperties
  <2> HIDE DEF a
  <2> QED BY <1>0, <2>2 DEF a
<1>2. /\ c \in Seq(S) /\ Len(c) = Len(s) - i /\ \A j \in 1 .. Len(s) - i : c[j] = s[i + j]
  <2>1. \A j \in i + 1 .. Len(s) : s[j] \in S
    BY <1>0
  <2>2. /\ SubSeq(s, i + 1, Len(s)) \in Seq(S)
        /\ Len(SubSeq(s, i + 1, Len(s))) = IF i + 1 <= Len(s) THEN Len(s) - (i + 1) + 1 ELSE 0
        /\ \A j \in 1 .. Len(s) - (i + 1) + 1 : SubSeq(s, i + 1, Len(s))[j] = s[(i + 1) + j - 1]
    BY <1>0, <2>1, SubSeqProperties
  <2>3. \A j \in 1 .. Len(s) - i : j \in 1 .. Len(s) - (i + 1) + 1 /\ (i + 1) + j - 1 = i + j
    BY <1>0
  <2> HIDE DEF c
  <2> QED BY <1>0, <2>2, <2>3 DEF c
<1>3. \A e \in S : InsertAt(s, i + 1, e) = a \o <<e>> \o c
  <2>1. (i + 1) - 1 = i
    BY <1>0
  <2> QED BY <2>1 DEF InsertAt
<1>4. s = a \o c
  <2> HIDE DEF a, c
  <2>1. /\ a \o c \in Seq(S) /\ Len(a \o c) = Len(a) + Len(c)
        /\ \A j \in 1 .. Len(a) + Len(c) :
             (a \o c)[j] = IF j <= Len(a) THEN a[j] ELSE c[j - Len(a)]
    BY <1>1, <1>2, ConcatProperties
  <2>2. ASSUME NEW j \in 1 .. Len(s) PROVE s[j] = (a \o c)[j]
    <3>1. CASE j <= i
      BY <1>0, <1>1, <1>2, <2>1, <3>1
    <3>2. CASE j > i
      <4>1. j - i \in 1 .. Len(s) - i /\ i + (j - i) = j
        BY <1>0, <3>2
      <4>2. c[j - i] = s[i + (j - i)]
        BY <1>2, <4>1
      <4>3. (a \o c)[j] = c[j - i]
        BY <1>0, <1>1, <1>2, <2>1, <3>2
      <4> QED BY <4>1, <4>2, <4>3
    <3>3. j <= i \/ j > i
      BY <1>0
    <3> QED BY <3>1, <3>2, <3>3
  <2>3. Len(s) = Len(a \o c)
    BY <1>0, <1>1, <1>2, <2>1
  <2> QED BY <2>1, <2>2, <2>3, SeqEqual
<1>5. IsSplit(S, s, i, a, c)
  <2>1. a = SubSeq(s, 1, i) /\ c = SubSeq(s, i + 1, Len(s))
    OBVIOUS
  <2> HIDE DEF a, c
  <2> QED BY <1>1, <1>2, <1>3, <1>4, <2>1 DEF IsSplit
<1> HIDE DEF a, c
<1> QED BY <1>1, <1>2, <1>5

\* What is left when an element is removed.
LEMMA RemoveAtIs ==
  ASSUME NEW S, NEW s \in Seq(S), NEW i \in 1 .. Len(s)
  PROVE  /\ RemoveAt(s, i) \in Seq(S) /\ Len(RemoveAt(s, i)) = Len(s) - 1
         /\ \A j \in 1 .. i - 1 : RemoveAt(s, i)[j] = s[j]
         /\ \A j \in i .. Len(s) - 1 : RemoveAt(s, i)[j] = s[j + 1]
<1>0. Len(s) \in Nat /\ i \in Nat
  BY LenProperties
<1>a. PICK a, c \in Seq(S) : IsCut(S, s, i, a, c)
  BY Cut
<1>1. /\ Len(a) = i - 1 /\ Len(c) = Len(s) - i
      /\ s = a \o <<s[i]>> \o c
      /\ RemoveAt(s, i) = a \o c
  BY <1>a DEF IsCut
<1>2. s[i] \in S
  BY ElementOfSeq
<1>3. <<s[i]>> \in Seq(S) /\ Len(<<s[i]>>) = 1
  BY <1>2
<1> DEFINE b == <<s[i]>>
           t == a \o b \o c
<1> HIDE DEF b
<1>b. b \in Seq(S)
  BY <1>3 DEF b
<1>c. IsRow3(S, t, a, b, c)
  BY <1>b, Concat3
<1> HIDE DEF t
<1>4. /\ t \in Seq(S)
      /\ Len(t) = Len(a) + Len(b) + Len(c)
      /\ \A j \in 1 .. Len(a) : t[j] = a[j]
      /\ \A j \in 1 .. Len(b) : t[Len(a) + j] = b[j]
      /\ \A j \in 1 .. Len(c) : t[Len(a) + Len(b) + j] = c[j]
  BY <1>c DEF IsRow3
<1>5. t = s
  BY <1>1 DEF t, b
<1>6. \A j \in 1 .. Len(c) : s[i + j] = c[j]
  <2>1. \A j \in 1 .. Len(c) : Len(a) + Len(b) + j = i + j
    BY <1>0, <1>1, <1>3 DEF b
  <2> QED BY <1>4, <1>5, <2>1
<1>7. /\ a \o c \in Seq(S) /\ Len(a \o c) = Len(a) + Len(c)
      /\ \A j \in 1 .. Len(a) + Len(c) :
           (a \o c)[j] = IF j <= Len(a) THEN a[j] ELSE c[j - Len(a)]
  BY ConcatProperties
<1>8. ASSUME NEW j \in 1 .. i - 1 PROVE (a \o c)[j] = s[j]
  <2>1. j \in 1 .. Len(a) /\ j \in 1 .. Len(a) + Len(c) /\ j <= Len(a)
    BY <1>0, <1>1
  <2> QED BY <1>4, <1>5, <1>7, <2>1
<1>9. ASSUME NEW j \in i .. Len(s) - 1 PROVE (a \o c)[j] = s[j + 1]
  <2> DEFINE m == j - (i - 1)
  <2>1. /\ m \in 1 .. Len(c) /\ i + m = j + 1 /\ j \in 1 .. Len(a) + Len(c)
        /\ ~(j <= Len(a)) /\ j - Len(a) = m
    BY <1>0, <1>1
  <2> HIDE DEF m
  <2>2. (a \o c)[j] = c[m] /\ s[i + m] = c[m]
    BY <1>6, <1>7, <2>1
  <2> QED BY <2>1, <2>2
<1> QED BY <1>0, <1>1, <1>7, <1>8, <1>9

\* Two neighbours replaced by two others, or by one.
IsCut2(S, s, i, a, c) ==
  /\ Len(a) = i - 1 /\ Len(c) = Len(s) - i - 1
  /\ s = a \o <<s[i], s[i + 1]>> \o c
  /\ \A e, f \in S : [s EXCEPT ![i] = e, ![i + 1] = f] = a \o <<e, f>> \o c
  /\ \A f \in S : RemoveAt([s EXCEPT ![i + 1] = f], i) = a \o <<f>> \o c
  /\ \A e \in S : RemoveAt([s EXCEPT ![i] = e], i + 1) = a \o <<e>> \o c

LEMMA Cut2 ==
  ASSUME NEW S, NEW s \in Seq(S), NEW i \in 1 .. Len(s) - 1
  PROVE  \E a, c \in Seq(S) : IsCut2(S, s, i, a, c)
<1>0. Len(s) \in Nat /\ i \in Nat /\ i \in 1 .. Len(s) /\ i + 1 \in 1 .. Len(s)
      /\ \A j \in 1 .. Len(s) : s[j] \in S
  BY LenProperties, ElementOfSeq
<1>1. PICK a \in Seq(S) : Len(a) = i - 1 /\ \A j \in 1 .. i - 1 : a[j] = s[j]
  <2> DEFINE m == i - 1
  <2>1. m \in 0 .. Len(s)
    BY <1>0
  <2> HIDE DEF m
  <2>2. PICK a, c \in Seq(S) : IsSplit(S, s, m, a, c)
    BY <2>1, CutInsert
  <2>3. Len(a) = m /\ \A j \in 1 .. m : a[j] = s[j]
    BY <2>2 DEF IsSplit
  <2> QED BY <2>3 DEF m
<1>2. PICK c \in Seq(S) : Len(c) = Len(s) - i - 1 /\ \A j \in 1 .. Len(s) - i - 1 : c[j] = s[i + 1 + j]
  <2> DEFINE m == i + 1
  <2>1. m \in 0 .. Len(s) /\ Len(s) - m = Len(s) - i - 1
    BY <1>0
  <2> HIDE DEF m
  <2>2. PICK b, c \in Seq(S) : IsSplit(S, s, m, b, c)
    BY <2>1, CutInsert
  <2>3. Len(c) = Len(s) - m /\ \A j \in 1 .. Len(s) - m : c[j] = s[m + j]
    BY <2>2 DEF IsSplit
  <2>4. Len(c) = Len(s) - i - 1 /\ \A j \in 1 .. Len(s) - i - 1 : c[j] = s[m + j]
    BY <2>1, <2>3
  <2> QED BY <2>4 DEF m
<1>3. ASSUME NEW t \in Seq(S), NEW e \in S, NEW f \in S, Len(t) = Len(s),
             t[i] = e, t[i + 1] = f,
             \A j \in 1 .. Len(s) : j # i /\ j # i + 1 => t[j] = s[j]
      PROVE  t = a \o <<e, f>> \o c
  <2>1. <<e, f>> \in Seq(S) /\ Len(<<e, f>>) = 2 /\ <<e, f>>[1] = e /\ <<e, f>>[2] = f
    OBVIOUS
  <2>2. Len(t) = Len(a) + Len(<<e, f>>) + Len(c)
    BY <1>0, <1>1, <1>2, <1>3, <2>1
  <2>3. \A j \in 1 .. Len(a) : t[j] = a[j]
    BY <1>0, <1>1, <1>3
  <2>4. \A j \in 1 .. Len(<<e, f>>) : t[Len(a) + j] = <<e, f>>[j]
    <3>1. \A j \in 1 .. Len(<<e, f>>) : j = 1 \/ j = 2
      BY <2>1
    <3>2. Len(a) + 1 = i /\ Len(a) + 2 = i + 1
      BY <1>0, <1>1
    <3> QED BY <1>3, <2>1, <3>1, <3>2
  <2>5. ASSUME NEW j \in 1 .. Len(c) PROVE t[Len(a) + Len(<<e, f>>) + j] = c[j]
    <3>1. /\ Len(a) + Len(<<e, f>>) + j = i + 1 + j /\ i + 1 + j \in 1 .. Len(s)
          /\ i + 1 + j # i /\ i + 1 + j # i + 1 /\ j \in 1 .. Len(s) - i - 1
      BY <1>0, <1>1, <1>2, <2>1
    <3> QED BY <1>2, <1>3, <3>1
  <2> QED BY <1>1, <1>2, <2>1, <2>2, <2>3, <2>4, <2>5, IsConcat3
<1>4. s = a \o <<s[i], s[i + 1]>> \o c
  BY <1>0, <1>3
<1>5. ASSUME NEW e \in S, NEW f \in S
      PROVE  [s EXCEPT ![i] = e, ![i + 1] = f] = a \o <<e, f>> \o c
  <2> DEFINE u == [s EXCEPT ![i] = e]
             t == [u EXCEPT ![i + 1] = f]
  <2>1. u \in Seq(S) /\ Len(u) = Len(s) /\ \A j \in 1 .. Len(s) : u[j] = IF j = i THEN e ELSE s[j]
    BY <1>0, ExceptSeq
  <2>2. [s EXCEPT ![i] = e, ![i + 1] = f] = t
    OBVIOUS
  <2> HIDE DEF u
  <2>3. /\ t \in Seq(S) /\ Len(t) = Len(s)
        /\ \A j \in 1 .. Len(s) : t[j] = IF j = i + 1 THEN f ELSE u[j]
    BY <1>0, <2>1, ExceptSeq
  <2> HIDE DEF t
  <2>4. t[i] = e /\ t[i + 1] = f /\ \A j \in 1 .. Len(s) : j # i /\ j # i + 1 => t[j] = s[j]
    BY <1>0, <2>1, <2>3
  <2> QED BY <1>3, <2>2, <2>3, <2>4
<1>6. ASSUME NEW t \in Seq(S), NEW e \in S, Len(t) = Len(s) - 1, t[i] = e,
             \A j \in 1 .. i - 1 : t[j] = s[j],
             \A j \in i + 1 .. Len(s) - 1 : t[j] = s[j + 1]
      PROVE  t = a \o <<e>> \o c
  <2>1. <<e>> \in Seq(S) /\ Len(<<e>>) = 1 /\ <<e>>[1] = e
    OBVIOUS
  <2>2. Len(t) = Len(a) + Len(<<e>>) + Len(c)
    BY <1>0, <1>1, <1>2, <1>6, <2>1
  <2>3. \A j \in 1 .. Len(a) : t[j] = a[j]
    BY <1>0, <1>1, <1>6
  <2>4. \A j \in 1 .. Len(<<e>>) : t[Len(a) + j] = <<e>>[j]
    <3>1. \A j \in 1 .. Len(<<e>>) : j = 1
      BY <2>1
    <3>2. Len(a) + 1 = i
      BY <1>0, <1>1
    <3> QED BY <1>6, <2>1, <3>1, <3>2
  <2>5. ASSUME NEW j \in 1 .. Len(c) PROVE t[Len(a) + Len(<<e>>) + j] = c[j]
    <3>1. /\ Len(a) + Len(<<e>>) + j = i + j /\ i + j \in i + 1 .. Len(s) - 1
          /\ (i + j) + 1 = i + 1 + j /\ j \in 1 .. Len(s) - i - 1
      BY <1>0, <1>1, <1>2, <2>1
    <3>2. t[i + j] = s[(i + j) + 1]
      BY <1>6, <3>1
    <3> QED BY <1>2, <3>1, <3>2
  <2> QED BY <1>1, <1>2, <2>1, <2>2, <2>3, <2>4, <2>5, IsConcat3
<1>7. ASSUME NEW f \in S
      PROVE  RemoveAt([s EXCEPT ![i + 1] = f], i) = a \o <<f>> \o c
  <2> DEFINE u == [s EXCEPT ![i + 1] = f]
  <2>1. u \in Seq(S) /\ Len(u) = Len(s) /\ \A j \in 1 .. Len(s) : u[j] = IF j = i + 1 THEN f ELSE s[j]
    BY <1>0, ExceptSeq
  <2> HIDE DEF u
  <2>2. /\ RemoveAt(u, i) \in Seq(S) /\ Len(RemoveAt(u, i)) = Len(s) - 1
        /\ \A j \in 1 .. i - 1 : RemoveAt(u, i)[j] = u[j]
        /\ \A j \in i .. Len(s) - 1 : RemoveAt(u, i)[j] = u[j + 1]
    BY <1>0, <2>1, RemoveAtIs
  <2> DEFINE t == RemoveAt(u, i)
  <2> HIDE DEF t
  <2>3. t[i] = f
    BY <1>0, <2>1, <2>2 DEF t
  <2>4. \A j \in 1 .. i - 1 : t[j] = s[j]
    BY <1>0, <2>1, <2>2 DEF t
  <2>5. \A j \in i + 1 .. Len(s) - 1 : t[j] = s[j + 1]
    BY <1>0, <2>1, <2>2 DEF t
  <2>6. t \in Seq(S) /\ Len(t) = Len(s) - 1
    BY <2>2 DEF t
  <2>7. t = a \o <<f>> \o c
    BY <1>6, <2>3, <2>4, <2>5, <2>6
  <2> QED BY <2>7 DEF t, u
<1>8. ASSUME NEW e \in S
      PROVE  RemoveAt([s EXCEPT ![i] = e], i + 1) = a \o <<e>> \o c
  <2> DEFINE u == [s EXCEPT ![i] = e]
  <2>1. u \in Seq(S) /\ Len(u) = Len(s) /\ \A j \in 1 .. Len(s) : u[j] = IF j = i THEN e ELSE s[j]
    BY <1>0, ExceptSeq
  <2> HIDE DEF u
  <2>2. /\ RemoveAt(u, i + 1) \in Seq(S) /\ Len(RemoveAt(u, i + 1)) = Len(s) - 1
        /\ \A j \in 1 .. (i + 1) - 1 : RemoveAt(u, i + 1)[j] = u[j]
        /\ \A j \in i + 1 .. Len(s) - 1 : RemoveAt(u, i + 1)[j] = u[j + 1]
    BY <1>0, <2>1, RemoveAtIs
  <2> DEFINE t == RemoveAt(u, i + 1)
  <2> HIDE DEF t
  <2>3. t[i] = e
    BY <1>0, <2>1, <2>2 DEF t
  <2>4. \A j \in 1 .. i - 1 : t[j] = s[j]
    BY <1>0, <2>1, <2>2 DEF t
  <2>5. \A j \in i + 1 .. Len(s) - 1 : t[j] = s[j + 1]
    BY <1>0, <2>1, <2>2 DEF t
  <2>6. t \in Seq(S) /\ Len(t) = Len(s) - 1
    BY <2>2 DEF t
  <2>7. t = a \o <<e>> \o c
    BY <1>6, <2>3, <2>4, <2>5, <2>6
  <2> QED BY <2>7 DEF t, u
<1>9. IsCut2(S, s, i, a, c)
  BY <1>1, <1>2, <1>4, <1>5, <1>7, <1>8 DEF IsCut2
<1> QED BY <1>9
-----------------------------------------------------------------------------
\* The entries of inner nodes.

Own(e) == e.key <= MinKey(e.node)

Elems(es) == {es[i] : i \in 1 .. Len(es)}

Apart(E, F) == \A e \in E, f \in F : Before(e, f)

\* The pairs of a key and its value that are below the nodes of some entries.
Held(es) == UNION {Entries(e.node) : e \in Elems(es)}

\* The leaves below them.
Under(es) == UNION {Bottom(e.node) : e \in Elems(es)}

\* What every node of a well-formed tree is: the keys in the leaves below it, and
\* their values.
Sound(n) ==
  /\ MinKey(n) \in Keys
  /\ KeysOf(n) # {} /\ KeysOf(n) \subseteq Keys
  /\ \A k \in KeysOf(n) : MinKey(n) <= k
  /\ KeysOf(n) = {x[1] : x \in Entries(n)}
  /\ Entries(n) \subseteq Keys \X Values
  /\ \A x, y \in Entries(n) : x[1] = y[1] => x = y

\* The nodes of N are sound, and so are those over them: what is below an inner
\* node is what is below its children.
Layer(N) ==
  /\ \A n \in N : Sound(n)
  /\ \A es \in Seq(Entry(N)) :
       es # <<>> => /\ Entries(Inner(es)) = Held(es) /\ Bottom(Inner(es)) = Under(es)
                    /\ KeysOf(Inner(es)) = {x[1] : x \in Held(es)}

LEMMA ElemsOf ==
  ASSUME NEW S, NEW s \in Seq(S)
  PROVE  /\ Elems(s) \subseteq S
         /\ \A i \in 1 .. Len(s) : s[i] \in Elems(s)
         /\ Elems(s) = {} <=> s = <<>>
<1>1. Elems(s) \subseteq S
  BY ElementOfSeq DEF Elems
<1>2. s # <<>> => 1 \in 1 .. Len(s)
  BY EmptySeq
<1>3. s = <<>> => Elems(s) = {}
  BY DEF Elems
<1> QED BY <1>1, <1>2, <1>3 DEF Elems

LEMMA ElemsConcat ==
  ASSUME NEW S, NEW a \in Seq(S), NEW b \in Seq(S)
  PROVE  Elems(a \o b) = Elems(a) \cup Elems(b)
<1>1. /\ a \o b \in Seq(S) /\ Len(a \o b) = Len(a) + Len(b)
      /\ \A i \in 1 .. Len(a) + Len(b) :
           (a \o b)[i] = IF i <= Len(a) THEN a[i] ELSE b[i - Len(a)]
  BY ConcatProperties
<1>2. Len(a) \in Nat /\ Len(b) \in Nat
  BY LenProperties
<1> DEFINE t == a \o b
<1>3. /\ Len(t) = Len(a) + Len(b)
      /\ \A i \in 1 .. Len(a) + Len(b) : t[i] = IF i <= Len(a) THEN a[i] ELSE b[i - Len(a)]
  BY <1>1
<1> HIDE DEF t
<1>4. ASSUME NEW i \in 1 .. Len(t) PROVE t[i] \in Elems(a) \cup Elems(b)
  <2>1. CASE i <= Len(a)
    <3>1. i \in 1 .. Len(a) /\ t[i] = a[i]
      BY <1>2, <1>3, <2>1
    <3> QED BY <3>1 DEF Elems
  <2>2. CASE ~(i <= Len(a))
    <3>1. i - Len(a) \in 1 .. Len(b) /\ t[i] = b[i - Len(a)]
      BY <1>2, <1>3, <2>2
    <3> QED BY <3>1 DEF Elems
  <2> QED BY <2>1, <2>2
<1>5. ASSUME NEW i \in 1 .. Len(a) PROVE a[i] \in Elems(t)
  <2>1. i \in 1 .. Len(t) /\ t[i] = a[i]
    BY <1>2, <1>3
  <2> QED BY <2>1 DEF Elems
<1>6. ASSUME NEW i \in 1 .. Len(b) PROVE b[i] \in Elems(t)
  <2>1. Len(a) + i \in 1 .. Len(t) /\ ~(Len(a) + i <= Len(a)) /\ (Len(a) + i) - Len(a) = i
    BY <1>2, <1>3
  <2>2. t[Len(a) + i] = b[i]
    BY <1>3, <2>1
  <2> QED BY <2>1, <2>2 DEF Elems
<1>7. Elems(t) = Elems(a) \cup Elems(b)
  BY <1>4, <1>5, <1>6 DEF Elems
<1> QED BY <1>7 DEF t

LEMMA HeldConcat ==
  ASSUME NEW S, NEW a \in Seq(S), NEW b \in Seq(S)
  PROVE  Held(a \o b) = Held(a) \cup Held(b) /\ Under(a \o b) = Under(a) \cup Under(b)
<1>1. Elems(a \o b) = Elems(a) \cup Elems(b)
  BY ElemsConcat
<1>2. Held(a \o b) = Held(a) \cup Held(b)
  BY <1>1 DEF Held
<1>3. Under(a \o b) = Under(a) \cup Under(b)
  BY <1>1 DEF Under
<1> QED BY <1>2, <1>3

LEMMA FanConcat ==
  ASSUME NEW S, NEW a \in Seq(S), NEW b \in Seq(S)
  PROVE  Fan(a \o b) <=> Fan(a) /\ Fan(b) /\ Apart(Elems(a), Elems(b))
<1>1. /\ a \o b \in Seq(S) /\ Len(a \o b) = Len(a) + Len(b)
      /\ \A i \in 1 .. Len(a) + Len(b) :
           (a \o b)[i] = IF i <= Len(a) THEN a[i] ELSE b[i - Len(a)]
  BY ConcatProperties
<1>2. Len(a) \in Nat /\ Len(b) \in Nat
  BY LenProperties
<1> DEFINE t == a \o b
<1>3. /\ Len(t) = Len(a) + Len(b)
      /\ \A i \in 1 .. Len(a) + Len(b) : t[i] = IF i <= Len(a) THEN a[i] ELSE b[i - Len(a)]
  BY <1>1
<1> HIDE DEF t
<1>4. \A i \in 1 .. Len(a) : i \in 1 .. Len(t) /\ t[i] = a[i]
  BY <1>2, <1>3
<1>5. ASSUME NEW i \in 1 .. Len(b)
      PROVE  Len(a) + i \in 1 .. Len(t) /\ t[Len(a) + i] = b[i]
  <2>1. Len(a) + i \in 1 .. Len(t) /\ ~(Len(a) + i <= Len(a)) /\ (Len(a) + i) - Len(a) = i
    BY <1>2, <1>3
  <2> QED BY <1>3, <2>1
<1>6. ASSUME Fan(t) PROVE Fan(a) /\ Fan(b) /\ Apart(Elems(a), Elems(b))
  <2>1. Fan(a)
    BY <1>4, <1>6 DEF Fan
  <2>2. Fan(b)
    <3>1. \A i \in 1 .. Len(b) : b[i].key <= MinKey(b[i].node)
      BY <1>5, <1>6 DEF Fan
    <3>2. ASSUME NEW i \in 1 .. Len(b), NEW j \in 1 .. Len(b), i < j
          PROVE  Before(b[i], b[j])
      <4>1. Len(a) + i < Len(a) + j
        BY <1>2, <3>2
      <4> QED BY <1>5, <1>6, <4>1 DEF Fan
    <3> QED BY <3>1, <3>2 DEF Fan
  <2>3. ASSUME NEW i \in 1 .. Len(a), NEW j \in 1 .. Len(b) PROVE Before(a[i], b[j])
    <3>1. i < Len(a) + j
      BY <1>2
    <3> QED BY <1>4, <1>5, <1>6, <3>1 DEF Fan
  <2> QED BY <2>1, <2>2, <2>3 DEF Apart, Elems
<1>7. ASSUME Fan(a), Fan(b), Apart(Elems(a), Elems(b)) PROVE Fan(t)
  <2>0. ASSUME NEW i \in 1 .. Len(t), ~(i <= Len(a))
        PROVE  i - Len(a) \in 1 .. Len(b) /\ t[i] = b[i - Len(a)]
    BY <1>2, <1>3, <2>0
  <2>1. ASSUME NEW i \in 1 .. Len(t) PROVE t[i].key <= MinKey(t[i].node)
    <3>1. CASE i <= Len(a)
      <4>1. i \in 1 .. Len(a)
        BY <1>2, <3>1
      <4> QED BY <1>4, <1>7, <4>1 DEF Fan
    <3>2. CASE ~(i <= Len(a))
      BY <1>7, <2>0, <3>2 DEF Fan
    <3> QED BY <3>1, <3>2
  <2>2. ASSUME NEW i \in 1 .. Len(t), NEW j \in 1 .. Len(t), i < j PROVE Before(t[i], t[j])
    <3>1. CASE j <= Len(a)
      <4>1. i \in 1 .. Len(a) /\ j \in 1 .. Len(a)
        BY <1>2, <2>2, <3>1
      <4> QED BY <1>4, <1>7, <2>2, <4>1 DEF Fan
    <3>2. CASE i <= Len(a) /\ ~(j <= Len(a))
      <4>1. i \in 1 .. Len(a)
        BY <1>2, <3>2
      <4>2. t[i] \in Elems(a) /\ t[j] \in Elems(b)
        BY <1>4, <2>0, <3>2, <4>1 DEF Elems
      <4> QED BY <1>7, <4>2 DEF Apart
    <3>3. CASE ~(i <= Len(a))
      <4>1. ~(j <= Len(a)) /\ i - Len(a) < j - Len(a)
        BY <1>2, <2>2, <3>3
      <4> QED BY <1>7, <2>0, <3>3, <4>1 DEF Fan
    <3> QED BY <3>1, <3>2, <3>3
  <2> QED BY <2>1, <2>2 DEF Fan
<1> QED BY <1>6, <1>7 DEF t

LEMMA FanOne ==
  ASSUME NEW e
  PROVE  /\ Len(<<e>>) = 1 /\ Elems(<<e>>) = {e}
         /\ Held(<<e>>) = Entries(e.node) /\ Under(<<e>>) = Bottom(e.node)
         /\ Fan(<<e>>) <=> Own(e)
<1> DEFINE s == <<e>>
<1>1. Len(s) = 1 /\ s[1] = e
  OBVIOUS
<1> HIDE DEF s
<1>2. \A i \in 1 .. Len(s) : i = 1
  BY <1>1
<1>3. Elems(s) = {e}
  BY <1>1, <1>2 DEF Elems
<1>4. Fan(s) <=> Own(e)
  BY <1>1, <1>2 DEF Fan, Own
<1>5. Held(s) = Entries(e.node)
  BY <1>3 DEF Held
<1>6. Under(s) = Bottom(e.node)
  BY <1>3 DEF Under
<1> QED BY <1>1, <1>3, <1>4, <1>5, <1>6 DEF s

LEMMA FanTwo ==
  ASSUME NEW e, NEW f
  PROVE  /\ Len(<<e, f>>) = 2 /\ Elems(<<e, f>>) = {e, f}
         /\ Held(<<e, f>>) = Entries(e.node) \cup Entries(f.node)
         /\ Under(<<e, f>>) = Bottom(e.node) \cup Bottom(f.node)
         /\ Fan(<<e, f>>) <=> Own(e) /\ Own(f) /\ Before(e, f)
<1> DEFINE s == <<e, f>>
<1>1. Len(s) = 2 /\ s[1] = e /\ s[2] = f
  OBVIOUS
<1> HIDE DEF s
<1>2. 1 \in 1 .. Len(s) /\ 2 \in 1 .. Len(s) /\ \A i \in 1 .. Len(s) : i = 1 \/ i = 2
  BY <1>1
<1>3. Elems(s) = {e, f}
  BY <1>1, <1>2 DEF Elems
<1>4. Fan(s) <=> Own(e) /\ Own(f) /\ Before(e, f)
  <2>1. \A i, j \in 1 .. Len(s) : i < j => i = 1 /\ j = 2
    BY <1>2
  <2>2. 1 < 2
    OBVIOUS
  <2> QED BY <1>1, <1>2, <2>1, <2>2 DEF Fan, Own
<1>5. Held(s) = Entries(e.node) \cup Entries(f.node)
  BY <1>3 DEF Held
<1>6. Under(s) = Bottom(e.node) \cup Bottom(f.node)
  BY <1>3 DEF Under
<1> QED BY <1>1, <1>3, <1>4, <1>5, <1>6 DEF s

Sounds(N) == \A n \in N : Sound(n)

LEMMA EntryIs ==
  ASSUME NEW N, NEW e \in Entry(N)
  PROVE  /\ e.key \in Keys /\ e.key \in Nat /\ e.node \in N
         /\ e = [key |-> e.key, node |-> e.node]
BY TreeAssumption DEF Entry, TreeAssumption

\* The key of an entry before another, and its node's first one, are the lower.
LEMMA BeforeLess ==
  ASSUME NEW N, Sounds(N), NEW e \in Entry(N), NEW f \in Entry(N), Own(e), Before(e, f)
  PROVE  e.key < f.key /\ MinKey(e.node) < f.key
<1>1. /\ e.key \in Nat /\ f.key \in Nat /\ Sound(e.node)
  BY EntryIs DEF Sounds
<1>2. MinKey(e.node) \in Nat /\ \A k \in KeysOf(e.node) : k \in Nat
  BY <1>1, TreeAssumption DEF Sound, TreeAssumption
<1>3. PICK k \in KeysOf(e.node) : TRUE
  BY <1>1 DEF Sound
<1>4. MinKey(e.node) <= k /\ k < f.key /\ e.key <= MinKey(e.node) /\ k \in Nat
  BY <1>1, <1>2, <1>3 DEF Sound, Before, Own
<1> QED BY <1>1, <1>2, <1>4

\* One of the nodes in the middle of a row is replaced by others.
LEMMA Swap ==
  ASSUME NEW N, Sounds(N),
         NEW a \in Seq(Entry(N)), NEW m \in Seq(Entry(N)), NEW c \in Seq(Entry(N)),
         NEW w \in Seq(Entry(N)), Fan(a \o m \o c), Fan(w),
         \A x \in Elems(w) : \E y \in Elems(m) : y.key <= x.key,
         \A x \in Elems(w) : \A k \in KeysOf(x.node) :
            \E y \in Elems(m) : k \in KeysOf(y.node)
  PROVE  Fan(a \o w \o c)
<1>1. a \o m \in Seq(Entry(N)) /\ a \o w \in Seq(Entry(N))
  BY ConcatProperties
<1>2. Fan(a \o m) /\ Fan(c) /\ Apart(Elems(a \o m), Elems(c))
  BY <1>1, FanConcat
<1>3. Fan(a) /\ Fan(m) /\ Apart(Elems(a), Elems(m))
  BY <1>2, FanConcat
<1>4. Elems(a \o m) = Elems(a) \cup Elems(m) /\ Elems(a \o w) = Elems(a) \cup Elems(w)
  BY ElemsConcat
<1>5. Elems(a) \subseteq Entry(N) /\ Elems(m) \subseteq Entry(N) /\ Elems(w) \subseteq Entry(N)
  BY ElemsOf
<1>6. Apart(Elems(a), Elems(w))
  <2> SUFFICES ASSUME NEW x \in Elems(a), NEW y \in Elems(w), NEW k \in KeysOf(x.node)
               PROVE  k < y.key
    BY DEF Apart, Before
  <2>1. PICK z \in Elems(m) : z.key <= y.key
    OBVIOUS
  <2>2. k < z.key
    BY <1>3 DEF Apart, Before
  <2>3. y.key \in Nat /\ z.key \in Nat /\ x.node \in N
    BY <1>5, EntryIs
  <2>4. k \in Nat
    BY <2>3, TreeAssumption DEF Sounds, Sound, TreeAssumption
  <2> QED BY <2>1, <2>2, <2>3, <2>4
<1>7. Apart(Elems(a \o w), Elems(c))
  BY <1>2, <1>4 DEF Apart, Before
<1>8. Fan(a \o w)
  BY <1>3, <1>6, FanConcat
<1> QED BY <1>1, <1>2, <1>7, <1>8, FanConcat

\* An inner node over sound nodes is sound.
LEMMA FansSound ==
  ASSUME NEW N, Layer(N), NEW n \in Fans(N)
  PROVE  /\ n = Inner(n.es) /\ ~n.leaf /\ n.es \in Seq(Entry(N)) /\ n.es # <<>> /\ Fan(n.es)
         /\ MinKey(n) = n.es[1].key
         /\ Entries(n) = Held(n.es) /\ Bottom(n) = Under(n.es)
         /\ Sound(n)
<1>1. PICK es \in Seq(Entry(N)) : es # <<>> /\ Fan(es) /\ n = Inner(es)
  BY DEF Fans
<1>2. n.es = es /\ ~n.leaf
  BY <1>1 DEF Inner
<1>3. MinKey(n) = es[1].key
  BY <1>2 DEF MinKey
<1>4. Entries(n) = Held(es) /\ KeysOf(n) = {x[1] : x \in Held(es)} /\ Bottom(n) = Under(es)
  BY <1>1 DEF Layer
<1>5. Sounds(N) /\ 1 \in 1 .. Len(es) /\ Len(es) \in Nat
  BY <1>1, EmptySeq, LenProperties DEF Layer, Sounds
<1>6. \A i \in 1 .. Len(es) : es[i] \in Entry(N)
  BY ElementOfSeq
<1>7. \A i \in 1 .. Len(es) :
        /\ es[i].key \in Keys /\ es[i].key \in Nat /\ es[i].node \in N /\ Sound(es[i].node)
        /\ Own(es[i])
  BY <1>1, <1>5, <1>6, EntryIs DEF Sounds, Fan, Own
<1>8. ASSUME NEW i \in 1 .. Len(es), NEW j \in 1 .. Len(es), i < j
      PROVE  es[i].key < es[j].key
  <2>1. Before(es[i], es[j])
    BY <1>1, <1>8 DEF Fan
  <2> QED BY <1>5, <1>6, <1>7, <2>1, BeforeLess
<1>9. ASSUME NEW x \in Held(es)
      PROVE  \E i \in 1 .. Len(es) : x \in Entries(es[i].node) /\ x[1] \in KeysOf(es[i].node)
  <2>1. PICK i \in 1 .. Len(es) : x \in Entries(es[i].node)
    BY DEF Held, Elems
  <2> QED BY <1>7, <2>1 DEF Sound
<1>10. ASSUME NEW i \in 1 .. Len(es), NEW k \in KeysOf(es[i].node)
       PROVE  k \in Keys /\ k \in Nat /\ es[i].key <= k /\ es[1].key <= k
  <2>1. k \in Keys /\ k \in Nat /\ MinKey(es[i].node) <= k /\ MinKey(es[i].node) \in Nat
    BY <1>7, TreeAssumption DEF Sound, TreeAssumption
  <2>2. es[i].key <= k
    BY <1>7, <2>1 DEF Own
  <2>3. es[1].key <= es[i].key
    BY <1>5, <1>7, <1>8
  <2> QED BY <1>5, <1>7, <2>1, <2>2, <2>3
<1>11. ASSUME NEW x \in Held(es), NEW y \in Held(es), x[1] = y[1] PROVE x = y
  <2>1. PICK i \in 1 .. Len(es) : x \in Entries(es[i].node) /\ x[1] \in KeysOf(es[i].node)
    BY <1>9
  <2>2. PICK j \in 1 .. Len(es) : y \in Entries(es[j].node) /\ y[1] \in KeysOf(es[j].node)
    BY <1>9
  <2>3. ASSUME NEW p \in 1 .. Len(es), NEW q \in 1 .. Len(es), p < q,
               NEW k \in KeysOf(es[p].node), k \in KeysOf(es[q].node)
        PROVE  FALSE
    <3>1. k < es[q].key
      BY <1>1, <2>3 DEF Fan, Before
    <3>2. es[q].key <= k /\ k \in Nat /\ es[q].key \in Nat
      BY <1>7, <1>10, <2>3
    <3> QED BY <3>1, <3>2
  <2>5. ~(i < j)
    BY <1>11, <2>1, <2>2, <2>3
  <2>6. ~(j < i)
    BY <1>11, <2>1, <2>2, <2>3
  <2>4. i = j
    BY <1>5, <2>5, <2>6
  <2> QED BY <1>7, <1>11, <2>1, <2>2, <2>4 DEF Sound
<1>12. Held(es) \subseteq Keys \X Values /\ Held(es) # {}
  <2>1. \A i \in 1 .. Len(es) : Entries(es[i].node) \subseteq Keys \X Values
    BY <1>7 DEF Sound
  <2>2. Held(es) \subseteq Keys \X Values
    BY <2>1 DEF Held, Elems
  <2>3. KeysOf(es[1].node) # {} /\ KeysOf(es[1].node) = {x[1] : x \in Entries(es[1].node)}
    BY <1>5, <1>7 DEF Sound
  <2>4. PICK x \in Entries(es[1].node) : TRUE
    BY <2>3
  <2>5. es[1] \in Elems(es)
    BY <1>5 DEF Elems
  <2>6. x \in Held(es)
    BY <2>4, <2>5 DEF Held
  <2> QED BY <2>2, <2>6
<1>13. KeysOf(n) # {} /\ KeysOf(n) \subseteq Keys /\ \A k \in KeysOf(n) : es[1].key <= k
  BY <1>4, <1>9, <1>10, <1>12
<1>14. Sound(n)
  BY <1>3, <1>4, <1>5, <1>7, <1>11, <1>12, <1>13 DEF Sound
<1> QED BY <1>1, <1>2, <1>3, <1>4, <1>14

\* findIndex.
LEMMA FindIndexAt ==
  ASSUME NEW es, Len(es) \in Nat, NEW k, NEW m \in 0 .. Len(es),
         \A i \in 1 .. Len(es) : es[i].key <= k <=> i <= m
  PROVE  FindIndex(es, k) = m
<1>1. {i \in 1 .. Len(es) : es[i].key <= k} = 1 .. m
  <2>1. \A i \in 1 .. Len(es) : i <= m => i \in 1 .. m
    OBVIOUS
  <2>2. \A i \in 1 .. m : i \in 1 .. Len(es) /\ i <= m
    OBVIOUS
  <2> QED BY <2>1, <2>2
<1>2. Cardinality(1 .. m) = m
  <2>1. 1 \in Int /\ m \in Int
    OBVIOUS
  <2>2. IsFiniteSet(1 .. m) /\ Cardinality(1 .. m) = IF 1 > m THEN 0 ELSE m - 1 + 1
    BY <2>1, FS_Interval
  <2> QED BY <2>2
<1> QED BY <1>1, <1>2 DEF FindIndex

LEMMA FindIndexIs ==
  ASSUME NEW N, Sounds(N), NEW es \in Seq(Entry(N)), Fan(es), NEW k \in Keys
  PROVE  /\ FindIndex(es, k) \in 0 .. Len(es)
         /\ \A i \in 1 .. Len(es) : es[i].key <= k <=> i <= FindIndex(es, k)
<1>1. Len(es) \in Nat /\ k \in Nat
  BY LenProperties, TreeAssumption DEF TreeAssumption
<1>2. \A i \in 1 .. Len(es) : es[i] \in Entry(N) /\ es[i].key \in Nat
  BY ElementOfSeq, EntryIs
<1>3. ASSUME NEW i \in 1 .. Len(es), NEW j \in 1 .. Len(es), i < j
      PROVE  es[i].key < es[j].key
  <2>1. Before(es[i], es[j]) /\ Own(es[i])
    BY <1>3 DEF Fan, Own
  <2> QED BY <1>2, <2>1, BeforeLess
<1> DEFINE T == {i \in 1 .. Len(es) : es[i].key <= k}
<1>4. \E m \in 0 .. Len(es) : \A i \in 1 .. Len(es) : es[i].key <= k <=> i <= m
  <2>1. CASE T = {}
    <3>1. \A i \in 1 .. Len(es) : es[i].key <= k <=> i <= 0
      BY <2>1
    <3> QED BY <1>1, <3>1
  <2>2. CASE T # {}
    <3>1. PICK m \in T : \A i \in T : i <= m
      <4>1. IsFiniteSet(1 .. Len(es))
        BY <1>1, FS_Interval
      <4>2. IsFiniteSet(T) /\ T \subseteq Nat
        BY <4>1, FS_Subset
      <4> HIDE DEF T
      <4> QED BY <2>2, <4>2, GreatestExists
    <3>2. ASSUME NEW i \in 1 .. Len(es), i <= m PROVE es[i].key <= k
      <4>1. i = m \/ i < m
        BY <3>2
      <4>2. m \in 1 .. Len(es) /\ es[m].key <= k
        OBVIOUS
      <4>3. i < m => es[i].key < es[m].key
        BY <1>3, <4>2
      <4> QED BY <1>1, <1>2, <4>1, <4>2, <4>3
    <3>3. \A i \in 1 .. Len(es) : es[i].key <= k <=> i <= m
      BY <3>1, <3>2
    <3>4. m \in 0 .. Len(es)
      OBVIOUS
    <3> QED BY <3>3, <3>4
  <2> QED BY <2>1, <2>2
<1>5. PICK m \in 0 .. Len(es) : \A i \in 1 .. Len(es) : es[i].key <= k <=> i <= m
  BY <1>4
<1>6. FindIndex(es, k) = m
  BY <1>1, <1>5, FindIndexAt
<1> QED BY <1>5, <1>6

\* A key is below the child findIndex finds, or nowhere.
LEMMA OnlyThere ==
  ASSUME NEW N, Sounds(N), NEW es \in Seq(Entry(N)), Fan(es), NEW k \in Keys,
         NEW j \in 1 .. Len(es), j # FindIndex(es, k)
  PROVE  k \notin KeysOf(es[j].node) /\ \A x \in Entries(es[j].node) : x[1] # k
<1> DEFINE i == FindIndex(es, k)
<1>1. i \in 0 .. Len(es) /\ \A m \in 1 .. Len(es) : es[m].key <= k <=> m <= i
  BY FindIndexIs
<1>2. j # i
  OBVIOUS
<1> HIDE DEF i
<1>3. /\ Len(es) \in Nat /\ k \in Nat /\ es[j].node \in N /\ es[j].key \in Nat
      /\ \A m \in 1 .. Len(es) : es[m].key \in Nat
  BY LenProperties, ElementOfSeq, EntryIs, TreeAssumption DEF TreeAssumption
<1>4. Sound(es[j].node)
  BY <1>3 DEF Sounds
<1>5. ASSUME k \in KeysOf(es[j].node) PROVE FALSE
  <2>1. CASE j < i
    <3>1. i \in 1 .. Len(es) /\ es[i].key <= k /\ es[i].key \in Nat
      BY <1>1, <1>3, <2>1
    <3>2. k < es[i].key
      BY <1>5, <2>1, <3>1 DEF Fan, Before
    <3> QED BY <1>3, <3>1, <3>2
  <2>2. CASE j > i
    <3>1. ~(es[j].key <= k)
      BY <1>1, <2>2
    <3>2. MinKey(es[j].node) <= k /\ es[j].key <= MinKey(es[j].node) /\ MinKey(es[j].node) \in Nat
      BY <1>4, <1>5, TreeAssumption DEF Sound, Fan, TreeAssumption
    <3> QED BY <1>3, <3>1, <3>2
  <2> QED BY <1>1, <1>2, <2>1, <2>2
<1> QED BY <1>4, <1>5 DEF Sound
-----------------------------------------------------------------------------
\* Insertion into an inner node.

\* The node of an entry is replaced, or the first separator refreshed.
IsPut(t, s, i, x) == t = [s EXCEPT ![i].node = x]

LEMMA PutNode ==
  ASSUME NEW N, NEW s \in Seq(Entry(N)), NEW i \in 1 .. Len(s), NEW x \in N,
         NEW t, IsPut(t, s, i, x)
  PROVE  /\ t \in Seq(Entry(N)) /\ Len(t) = Len(s)
         /\ t[i] = [key |-> s[i].key, node |-> x]
         /\ \A j \in 1 .. Len(s) : j # i => t[j] = s[j]
<1>1. s[i] \in Entry(N) /\ s[i] = [key |-> s[i].key, node |-> s[i].node] /\ s[i].key \in Keys
  BY ElementOfSeq, EntryIs
<1> DEFINE e == [key |-> s[i].key, node |-> x]
<1>2. [s[i] EXCEPT !.node = x] = e
  BY <1>1
<1>3. t = [s EXCEPT ![i] = e]
  BY <1>2 DEF IsPut
<1>4. e \in Entry(N)
  BY <1>1 DEF Entry
<1> HIDE DEF e
<1>5. /\ [s EXCEPT ![i] = e] \in Seq(Entry(N))
      /\ Len([s EXCEPT ![i] = e]) = Len(s)
      /\ \A j \in 1 .. Len(s) : [s EXCEPT ![i] = e][j] = IF j = i THEN e ELSE s[j]
  BY <1>4, ExceptSeq
<1> QED BY <1>3, <1>5 DEF e

LEMMA Refresh ==
  ASSUME NEW N, NEW s \in Seq(Entry(N)), s # <<>>, MinKey(s[1].node) \in Keys
  PROVE  /\ RefreshFirst(s) \in Seq(Entry(N)) /\ Len(RefreshFirst(s)) = Len(s)
         /\ RefreshFirst(s)[1] = [key |-> MinKey(s[1].node), node |-> s[1].node]
         /\ \A j \in 1 .. Len(s) : j # 1 => RefreshFirst(s)[j] = s[j]
<1>0. 1 \in 1 .. Len(s) /\ Len(s) \in Nat
  BY EmptySeq, LenProperties
<1>1. s[1] \in Entry(N) /\ s[1] = [key |-> s[1].key, node |-> s[1].node] /\ s[1].node \in N
  BY <1>0, ElementOfSeq, EntryIs
<1> DEFINE e == [key |-> MinKey(s[1].node), node |-> s[1].node]
           t == [s EXCEPT ![1] = e]
<1>2. [s[1] EXCEPT !.key = MinKey(s[1].node)] = e
  BY <1>1
<1>3. RefreshFirst(s) = t
  BY <1>2 DEF RefreshFirst
<1>4. e \in Entry(N)
  BY <1>1 DEF Entry
<1> HIDE DEF e
<1>5. t \in Seq(Entry(N)) /\ Len(t) = Len(s) /\ \A j \in 1 .. Len(s) : t[j] = IF j = 1 THEN e ELSE s[j]
  BY <1>0, <1>4, ExceptSeq
<1> QED BY <1>0, <1>3, <1>5 DEF e

\* insertNonFull of an entry that belongs behind the first i.
Belongs(es, e, i) ==
  /\ Own(e)
  /\ \A j \in 1 .. Len(es) : IF j <= i THEN Before(es[j], e) ELSE Before(e, es[j])

LEMMA InsertChild ==
  ASSUME NEW N, Sounds(N), NEW es \in Seq(Entry(N)), Fan(es), NEW e \in Entry(N),
         NEW i \in 0 .. Len(es), Belongs(es, e, i)
  PROVE  /\ FindIndex(es, e.key) = i
         /\ InsertNonFull(es, e) \in Seq(Entry(N))
         /\ Len(InsertNonFull(es, e)) = Len(es) + 1
         /\ Fan(InsertNonFull(es, e))
         /\ Elems(InsertNonFull(es, e)) = Elems(es) \cup {e}
         /\ i >= 1 => InsertNonFull(es, e)[1] = es[1]
<1>1. Len(es) \in Nat /\ e.key \in Nat
  BY LenProperties, EntryIs
<1>2. \A j \in 1 .. Len(es) : es[j] \in Entry(N) /\ es[j].key \in Nat /\ Own(es[j])
  BY ElementOfSeq, EntryIs DEF Fan, Own
<1>3. \A j \in 1 .. Len(es) : es[j].key <= e.key <=> j <= i
  <2> SUFFICES ASSUME NEW j \in 1 .. Len(es) PROVE es[j].key <= e.key <=> j <= i
    OBVIOUS
  <2>1. CASE j <= i
    <3>1. es[j].key < e.key
      BY <1>2, <2>1, BeforeLess DEF Belongs
    <3> QED BY <1>1, <1>2, <2>1, <3>1
  <2>2. CASE ~(j <= i)
    <3>1. e.key < es[j].key
      BY <1>2, <2>2, BeforeLess DEF Belongs
    <3> QED BY <1>1, <1>2, <2>2, <3>1
  <2> QED BY <2>1, <2>2
<1>4. FindIndex(es, e.key) = i
  BY <1>1, <1>3, FindIndexAt
<1>5. PICK a, c \in Seq(Entry(N)) : IsSplit(Entry(N), es, i, a, c)
  BY CutInsert
<1>6. es = a \o c /\ InsertNonFull(es, e) = a \o <<e>> \o c
  BY <1>4, <1>5 DEF IsSplit, InsertNonFull
<1>7. /\ Len(a) = i /\ Len(c) = Len(es) - i
      /\ \A j \in 1 .. i : a[j] = es[j]
      /\ \A j \in 1 .. Len(es) - i : c[j] = es[i + j]
  BY <1>5 DEF IsSplit
<1>8. /\ <<e>> \in Seq(Entry(N)) /\ Len(<<e>>) = 1 /\ Elems(<<e>>) = {e}
      /\ Fan(<<e>>) <=> Own(e)
  BY FanOne
<1>9. Fan(a) /\ Fan(c) /\ Apart(Elems(a), Elems(c))
  BY <1>6, FanConcat
<1>10. Apart(Elems(a), {e})
  <2>1. \A j \in 1 .. Len(a) : Before(a[j], e)
    <3> SUFFICES ASSUME NEW j \in 1 .. Len(a) PROVE Before(a[j], e)
      OBVIOUS
    <3>1. j \in 1 .. i /\ j \in 1 .. Len(es) /\ j <= i
      BY <1>1, <1>7
    <3> QED BY <1>7, <3>1 DEF Belongs
  <2> QED BY <2>1 DEF Apart, Elems
<1>11. Apart({e}, Elems(c))
  <2>1. \A j \in 1 .. Len(c) : Before(e, c[j])
    <3> SUFFICES ASSUME NEW j \in 1 .. Len(c) PROVE Before(e, c[j])
      OBVIOUS
    <3>1. j \in 1 .. Len(es) - i /\ i + j \in 1 .. Len(es) /\ ~(i + j <= i)
      BY <1>1, <1>7
    <3> QED BY <1>7, <3>1 DEF Belongs
  <2> QED BY <2>1 DEF Apart, Elems
<1> DEFINE ae == a \o <<e>>
<1>12. ae \in Seq(Entry(N)) /\ Len(ae) = i + 1
  BY <1>7, <1>8, ConcatProperties
<1>13. Elems(ae) = Elems(a) \cup {e} /\ Elems(es) = Elems(a) \cup Elems(c)
  <2> DEFINE b == <<e>>
  <2> HIDE DEF b
  <2>1. b \in Seq(Entry(N)) /\ Elems(b) = {e}
    BY <1>8 DEF b
  <2>2. Elems(a \o b) = Elems(a) \cup Elems(b)
    BY <2>1, ElemsConcat
  <2>3. Elems(a \o c) = Elems(a) \cup Elems(c)
    BY ElemsConcat
  <2> QED BY <1>6, <2>1, <2>2, <2>3 DEF b
<1>14. Fan(ae)
  BY <1>8, <1>9, <1>10, FanConcat DEF Belongs
<1> HIDE DEF ae
<1>15. Apart(Elems(ae), Elems(c))
  BY <1>9, <1>11, <1>13 DEF Apart
<1> DEFINE t == ae \o c
<1>16. Fan(t) /\ Elems(t) = Elems(ae) \cup Elems(c)
  BY <1>9, <1>12, <1>14, <1>15, FanConcat, ElemsConcat
<1>17. t \in Seq(Entry(N)) /\ Len(t) = Len(ae) + Len(c)
  BY <1>12, ConcatProperties
<1>18. InsertNonFull(es, e) = t
  BY <1>6 DEF ae
<1>19. ASSUME i >= 1 PROVE t[1] = es[1]
  <2>1. 1 \in 1 .. Len(a) /\ Len(a) \in Nat
    BY <1>1, <1>7, <1>19
  <2>2. (a \o <<e>> \o c)[1] = a[1]
    <3> DEFINE b == <<e>>
               u == a \o b \o c
    <3>1. b \in Seq(Entry(N))
      BY <1>8
    <3> HIDE DEF b
    <3>2. IsRow3(Entry(N), u, a, b, c)
      BY <3>1, Concat3
    <3> HIDE DEF u
    <3>3. u[1] = a[1]
      BY <2>1, <3>2 DEF IsRow3
    <3> QED BY <3>3 DEF u, b
  <2> QED BY <1>7, <2>1, <2>2 DEF ae
<1>20. Len(t) = Len(es) + 1
  BY <1>1, <1>7, <1>12, <1>17
<1> HIDE DEF t
<1>21. Elems(t) = Elems(es) \cup {e}
  BY <1>13, <1>16
<1> QED BY <1>4, <1>16, <1>17, <1>18, <1>19, <1>20, <1>21

\* The entries of a node and of the one split off it, once an entry is added.
Added(N, es, e, xs, ys) ==
  /\ xs \in Seq(Entry(N)) /\ ys \in Seq(Entry(N))
  /\ Fan(xs) /\ Fan(ys) /\ Apart(Elems(xs), Elems(ys))
  /\ Elems(xs) \cup Elems(ys) = Elems(es) \cup {e}
  /\ xs # <<>> /\ xs[1] = es[1]
  /\ IF ys = <<>> THEN Len(xs) = Len(es) + 1 /\ Len(es) < 2 * Degree + 1
     ELSE Len(es) <= 3 * Degree + 1 => Sized(xs) /\ Sized(ys)

\* The result of an insertion, with the entries of the nodes.
Halves(r, xs, ys) ==
  /\ r.node = Inner(xs)
  /\ r.new = IF ys = <<>> THEN <<>> ELSE <<[key |-> ys[1].key, node |-> Inner(ys)]>>

LEMMA AddChildIs ==
  ASSUME NEW N, Sounds(N), NEW es \in Seq(Entry(N)), Fan(es), NEW e \in Entry(N),
         NEW i \in 1 .. Len(es), Belongs(es, e, i)
  PROVE  \E xs, ys \in Seq(Entry(N)) :
           Added(N, es, e, xs, ys) /\ Halves(AddChild(es, e), xs, ys)
<1>0. Len(es) \in Nat /\ Degree \in Nat /\ Degree >= 1 /\ e.key \in Nat
  BY LenProperties, EntryIs, DegreeAssumption
<1>1. CASE Len(es) < 2 * Degree + 1
  <2> DEFINE xs == InsertNonFull(es, e)
             ys == <<>>
  <2>1. /\ xs \in Seq(Entry(N)) /\ Len(xs) = Len(es) + 1 /\ Fan(xs)
        /\ Elems(xs) = Elems(es) \cup {e} /\ xs[1] = es[1]
    <3>1. i \in 0 .. Len(es) /\ i >= 1
      BY <1>0
    <3> QED BY <3>1, InsertChild
  <2>2. ys \in Seq(Entry(N)) /\ Fan(ys) /\ Elems(ys) = {} /\ ys = <<>>
    BY DEF Fan, Elems
  <2>3. AddChild(es, e) = [node |-> Inner(xs), new |-> <<>>]
    BY <1>1 DEF AddChild
  <2> HIDE DEF xs, ys
  <2>4. xs # <<>>
    BY <1>0, <2>1, EmptySeq
  <2>5. Added(N, es, e, xs, ys)
    BY <1>1, <2>1, <2>2, <2>4 DEF Added, Apart
  <2>6. Halves(AddChild(es, e), xs, ys)
    BY <2>2, <2>3 DEF Halves
  <2> QED BY <2>1, <2>2, <2>5, <2>6
<1>2. CASE ~(Len(es) < 2 * Degree + 1)
  <2> DEFINE sp == SplitPoint(es)
  <2>1. /\ sp \in 1 .. Len(es) - 1 /\ sp \in 0 .. Len(es) /\ sp + 1 \in 1 .. Len(es)
        /\ Len(es) <= 3 * Degree + 1 =>
             sp \in Degree .. 2 * Degree /\ Len(es) - sp \in Degree .. 2 * Degree
    BY <1>0, <1>2 DEF SplitPoint
  <2> HIDE DEF sp
  <2>2. PICK l, r \in Seq(Entry(N)) : IsSplit(Entry(N), es, sp, l, r)
    BY <2>1, CutInsert
  <2>3. /\ Len(l) = sp /\ Len(r) = Len(es) - sp
        /\ \A j \in 1 .. sp : l[j] = es[j]
        /\ \A j \in 1 .. Len(es) - sp : r[j] = es[sp + j]
        /\ es = l \o r
        /\ l = SplitLeft(es) /\ r = SplitRight(es)
    BY <2>2 DEF IsSplit, SplitLeft, SplitRight, sp
  <2>4. Fan(l) /\ Fan(r) /\ Apart(Elems(l), Elems(r)) /\ Elems(es) = Elems(l) \cup Elems(r)
    BY <2>3, FanConcat, ElemsConcat
  <2>5. /\ 1 \in 1 .. Len(r) /\ 1 \in 1 .. Len(l) /\ r[1] = es[sp + 1] /\ l[1] = es[1]
        /\ r # <<>> /\ l # <<>>
    <3>1. 1 \in 1 .. Len(r) /\ 1 \in 1 .. Len(l) /\ 1 \in 1 .. sp /\ 1 \in 1 .. Len(es) - sp
      BY <1>0, <2>1, <2>3
    <3> QED BY <2>3, <3>1, EmptySeq
  <2>6. /\ es[sp + 1] \in Entry(N) /\ es[sp + 1].key \in Nat /\ Own(es[sp + 1]) /\ Own(e)
    BY <2>1, ElementOfSeq, EntryIs DEF Fan, Own, Belongs
  <2>7. e.key < r[1].key <=> i <= sp
    <3>1. CASE i <= sp
      <4>1. Before(e, es[sp + 1])
        BY <1>0, <2>1, <3>1 DEF Belongs
      <4>2. e.key < es[sp + 1].key
        BY <2>6, <4>1, BeforeLess
      <4> QED BY <2>5, <3>1, <4>2
    <3>2. CASE ~(i <= sp)
      <4>0. sp + 1 <= i
        BY <1>0, <2>1, <3>2
      <4>1. Before(es[sp + 1], e)
        BY <2>1, <4>0 DEF Belongs
      <4>2. es[sp + 1].key < e.key
        BY <2>6, <4>1, BeforeLess
      <4> QED BY <1>0, <2>5, <2>6, <3>2, <4>2
    <3> QED BY <3>1, <3>2
  <2>8. CASE i <= sp
    <3> DEFINE xs == InsertNonFull(l, e)
    <3>1. Belongs(l, e, i)
      <4>1. \A j \in 1 .. Len(l) : j \in 1 .. Len(es) /\ l[j] = es[j]
        BY <1>0, <2>1, <2>3
      <4> QED BY <4>1 DEF Belongs
    <3>2. i \in 0 .. Len(l) /\ i >= 1
      BY <1>0, <2>1, <2>3, <2>8
    <3>3. /\ xs \in Seq(Entry(N)) /\ Len(xs) = Len(l) + 1 /\ Fan(xs)
          /\ Elems(xs) = Elems(l) \cup {e} /\ xs[1] = l[1]
      BY <2>4, <3>1, <3>2, InsertChild
    <3>4. AddChild(es, e) = [node |-> Inner(xs), new |-> <<[key |-> r[1].key, node |-> Inner(r)]>>]
      BY <1>2, <2>3, <2>7, <2>8 DEF AddChild
    <3> HIDE DEF xs
    <3>5. xs # <<>>
      BY <2>1, <2>3, <3>3, EmptySeq
    <3>6. ASSUME NEW x \in Elems(r) PROVE Before(e, x)
      <4>1. PICK j \in 1 .. Len(r) : x = r[j]
        BY DEF Elems
      <4>2. j \in 1 .. Len(es) - sp /\ sp + j \in 1 .. Len(es) /\ ~(sp + j <= i)
        BY <1>0, <2>1, <2>3, <2>8
      <4> QED BY <2>3, <4>1, <4>2 DEF Belongs
    <3>7. Apart(Elems(xs), Elems(r))
      BY <2>4, <3>3, <3>6 DEF Apart
    <3>8. Len(es) <= 3 * Degree + 1 => Sized(xs) /\ Sized(r)
      <4>1. Len(xs) = sp + 1 /\ Len(r) = Len(es) - sp /\ sp \in Nat
        <5>1. sp \in Nat
          BY <1>0, <2>1
        <5>2. Len(l) = sp /\ Len(r) = Len(es) - sp
          BY <2>3
        <5> QED BY <1>0, <3>3, <5>1, <5>2
      <4> QED BY <1>0, <2>1, <4>1 DEF Sized
    <3>9. Elems(xs) \cup Elems(r) = Elems(es) \cup {e}
      BY <2>4, <3>3
    <3>10. Added(N, es, e, xs, r)
      BY <2>4, <2>5, <3>3, <3>5, <3>7, <3>8, <3>9 DEF Added
    <3>11. Halves(AddChild(es, e), xs, r)
      BY <2>5, <3>4 DEF Halves
    <3> QED BY <3>3, <3>10, <3>11
  <2>9. CASE ~(i <= sp)
    <3> DEFINE ys == InsertNonFull(r, e)
               m == i - sp
    <3>0. m \in 0 .. Len(r) /\ m >= 1 /\ \A j \in 1 .. Len(r) : j <= m <=> sp + j <= i
      BY <1>0, <2>1, <2>3, <2>9
    <3> HIDE DEF m
    <3>1. Belongs(r, e, m)
      <4>1. \A j \in 1 .. Len(r) : sp + j \in 1 .. Len(es) /\ r[j] = es[sp + j]
        BY <1>0, <2>1, <2>3
      <4> QED BY <3>0, <4>1 DEF Belongs
    <3>3. /\ ys \in Seq(Entry(N)) /\ Len(ys) = Len(r) + 1 /\ Fan(ys)
          /\ Elems(ys) = Elems(r) \cup {e} /\ ys[1] = r[1]
      BY <2>4, <3>0, <3>1, InsertChild
    <3>4. AddChild(es, e) = [node |-> Inner(l), new |-> <<[key |-> r[1].key, node |-> Inner(ys)]>>]
      BY <1>2, <2>3, <2>7, <2>9 DEF AddChild
    <3> HIDE DEF ys
    <3>5. ys # <<>>
      BY <1>0, <2>1, <2>3, <3>3, EmptySeq
    <3>6. ASSUME NEW x \in Elems(l) PROVE Before(x, e)
      <4>1. PICK j \in 1 .. Len(l) : x = l[j]
        BY DEF Elems
      <4>2. j \in 1 .. sp /\ j \in 1 .. Len(es) /\ j <= i
        BY <1>0, <2>1, <2>3, <2>9
      <4> QED BY <2>3, <4>1, <4>2 DEF Belongs
    <3>7. Apart(Elems(l), Elems(ys))
      BY <2>4, <3>3, <3>6 DEF Apart
    <3>8. Len(es) <= 3 * Degree + 1 => Sized(l) /\ Sized(ys)
      <4>1. Len(l) = sp /\ Len(ys) = Len(es) - sp + 1 /\ sp \in Nat
        <5>1. sp \in Nat
          BY <1>0, <2>1
        <5>2. Len(l) = sp /\ Len(r) = Len(es) - sp
          BY <2>3
        <5> QED BY <1>0, <3>3, <5>1, <5>2
      <4> QED BY <1>0, <2>1, <4>1 DEF Sized
    <3>9. Elems(l) \cup Elems(ys) = Elems(es) \cup {e}
      BY <2>4, <3>3
    <3>10. Added(N, es, e, l, ys)
      BY <2>4, <2>5, <3>3, <3>5, <3>7, <3>8, <3>9 DEF Added
    <3>11. Halves(AddChild(es, e), l, ys)
      BY <3>3, <3>4, <3>5 DEF Halves
    <3> QED BY <3>3, <3>10, <3>11
  <2> QED BY <2>8, <2>9
<1> QED BY <1>1, <1>2
\* The pairs E with one for k, new or in place of the one there was.
Put(E, k, v) == {x \in E : x[1] # k} \cup {<<k, v>>}

\* The leaves B become the leaves C: all stay but one, which goes or gives way to
\* one or two that have keys of it.
Shares(m, l) == \E k \in DOMAIN m.kv : k \in DOMAIN l.kv

Edited(B, C) ==
  \/ C = B
  \/ \E X, l, m, n : /\ Shares(m, l) /\ Shares(n, l)
                     /\ B = X \cup {l} /\ (C = X \/ C = X \cup {m, n})

LEMMA EditedBy ==
  ASSUME NEW B, NEW C, NEW X, NEW l, NEW m, NEW n, Shares(m, l), Shares(n, l),
         B = X \cup {l}, C = X \/ C = X \cup {m, n}
  PROVE  Edited(B, C)
BY DEF Edited

\* It is enough that the node at i changes like that.
LEMMA EditedUnder ==
  ASSUME NEW es, NEW t, Len(es) \in Nat, Len(t) = Len(es), NEW i \in 1 .. Len(es),
         \A j \in 1 .. Len(es) : j # i => t[j].node = es[j].node,
         NEW Z, Edited(Bottom(es[i].node), Bottom(t[i].node) \cup Z)
  PROVE  Edited(Under(es), Under(t) \cup Z)
<1> DEFINE Y == UNION {Bottom(es[j].node) : j \in {x \in 1 .. Len(es) : x # i}}
           B == Bottom(es[i].node)
           C == Bottom(t[i].node) \cup Z
<1>1. ASSUME NEW x PROVE x \in Under(es) <=> x \in B \cup Y
  <2>1. x \in Under(es) <=> \E j \in 1 .. Len(es) : x \in Bottom(es[j].node)
    BY DEF Under, Elems
  <2> QED BY <2>1
<1>2. ASSUME NEW x PROVE x \in Under(t) \cup Z <=> x \in C \cup Y
  <2>1. x \in Under(t) <=> \E j \in 1 .. Len(es) : x \in Bottom(t[j].node)
    BY DEF Under, Elems
  <2>2. (\E j \in 1 .. Len(es) : x \in Bottom(t[j].node))
        <=> x \in Bottom(t[i].node) \/ \E j \in 1 .. Len(es) : j # i /\ x \in Bottom(es[j].node)
    OBVIOUS
  <2> QED BY <2>1, <2>2
<1>3. Edited(B, C)
  OBVIOUS
<1>4. Under(es) = B \cup Y /\ Under(t) \cup Z = C \cup Y
  BY <1>1, <1>2
<1> HIDE DEF B, C, Y
<1>5. Edited(B \cup Y, C \cup Y)
  <2>1. CASE C = B
    BY <2>1 DEF Edited
  <2>2. ASSUME NEW X, NEW l, NEW m, NEW n, Shares(m, l), Shares(n, l),
               B = X \cup {l}, C = X \/ C = X \cup {m, n}
        PROVE  Edited(B \cup Y, C \cup Y)
    <3> DEFINE W == X \cup Y
               D == B \cup Y
               E == C \cup Y
    <3>1. D = W \cup {l} /\ (E = W \/ E = W \cup {m, n})
      BY <2>2
    <3> HIDE DEF W, D, E
    <3>2. Edited(D, E)
      BY <2>2, <3>1, EditedBy
    <3> QED BY <3>2 DEF D, E
  <2>3. C = B \/ \E X, l, m, n : /\ Shares(m, l) /\ Shares(n, l)
                                 /\ B = X \cup {l} /\ (C = X \/ C = X \cup {m, n})
    BY <1>3 DEF Edited
  <2> QED BY <2>1, <2>2, <2>3
<1> QED BY <1>4, <1>5

\* What an insertion into a node returns: the node and perhaps a new right
\* brother, which hold what the node did and the new pair between them.
Inserted(N, node, k, v, r) ==
  /\ r.node \in N
  /\ \A m \in Nat : m <= MinKey(node) /\ m <= k => m <= MinKey(r.node)
  /\ \/ /\ r.new = <<>> /\ Entries(r.node) = Put(Entries(node), k, v)
        /\ Edited(Bottom(node), Bottom(r.node))
     \/ \E e \in Entry(N) :
          /\ r.new = <<e>> /\ Own(e)
          /\ \A x \in KeysOf(r.node) : x < e.key
          /\ Entries(r.node) \cup Entries(e.node) = Put(Entries(node), k, v)
          /\ Edited(Bottom(node), Bottom(r.node) \cup Bottom(e.node))

\* The same of the entries of an inner node, and of those of the two it becomes.
Grew(N, es, k, v, xs, ys) ==
  /\ xs \in Seq(Entry(N)) /\ ys \in Seq(Entry(N))
  /\ Fan(xs) /\ Fan(ys) /\ Apart(Elems(xs), Elems(ys)) /\ xs # <<>>
  /\ Held(xs) \cup Held(ys) = Put(Held(es), k, v)
  /\ Edited(Under(es), Under(xs) \cup Under(ys))
  /\ \A m \in Nat : m <= es[1].key /\ m <= k => m <= xs[1].key
  /\ IF ys = <<>> THEN Len(xs) = Len(es) \/ (Len(xs) = Len(es) + 1 /\ Len(es) < 2 * Degree + 1)
     ELSE Len(es) <= 3 * Degree + 1 => Sized(xs) /\ Sized(ys)

LEMMA InsertStepIs ==
  ASSUME NEW N, Sounds(N), NEW es \in Seq(Entry(N)), es # <<>>, Fan(es),
         NEW k \in Keys, NEW v \in Values, NEW r,
         Inserted(N, es[At(es, k)].node, k, v, r)
  PROVE  \E xs, ys \in Seq(Entry(N)) :
           Grew(N, es, k, v, xs, ys) /\ Halves(InsertStep(es, k, r), xs, ys)
<1> DEFINE p == FindIndex(es, k)
           i == At(es, k)
           old == es[i].node
<1>0. Len(es) \in Nat /\ Len(es) >= 1 /\ k \in Nat /\ 1 \in 1 .. Len(es)
  BY EmptySeq, LenProperties, TreeAssumption DEF TreeAssumption
<1>1. p \in 0 .. Len(es) /\ \A j \in 1 .. Len(es) : es[j].key <= k <=> j <= p
  BY FindIndexIs
<1>2. i = IF p = 0 THEN 1 ELSE p
  BY DEF At
<1>3. Inserted(N, old, k, v, r)
  OBVIOUS
<1>4. \A j \in 1 .. Len(es) : j # p => k \notin KeysOf(es[j].node) /\ \A x \in Entries(es[j].node) : x[1] # k
  <2> SUFFICES ASSUME NEW j \in 1 .. Len(es), j # FindIndex(es, k)
               PROVE  k \notin KeysOf(es[j].node) /\ \A x \in Entries(es[j].node) : x[1] # k
    OBVIOUS
  <2> QED BY OnlyThere
<1>5. InsertStep(es, k, r)
      = LET es1 == [es EXCEPT ![i].node = r.node]
            es2 == IF p = 0 THEN RefreshFirst(es1) ELSE es1
        IN IF r.new = <<>> THEN [node |-> Inner(es2), new |-> <<>>]
           ELSE AddChild(es2, r.new[1])
  BY DEF InsertStep
<1> DEFINE es1 == [es EXCEPT ![i].node = r.node]
           es2 == IF p = 0 THEN RefreshFirst(es1) ELSE es1
           key == IF p = 0 THEN MinKey(r.node) ELSE es[i].key
<1> HIDE DEF p, i
<1>6. i \in 1 .. Len(es) /\ (p = 0 => i = 1) /\ (p # 0 => i = p)
  BY <1>0, <1>1, <1>2
<1>7. \A j \in 1 .. Len(es) :
        /\ es[j] \in Entry(N) /\ es[j].key \in Keys /\ es[j].key \in Nat
        /\ es[j].node \in N /\ Sound(es[j].node) /\ Own(es[j])
  BY ElementOfSeq, EntryIs DEF Sounds, Fan, Own
<1>8. /\ old \in N /\ r.node \in N /\ Sound(old) /\ Sound(r.node)
      /\ MinKey(old) \in Nat /\ MinKey(r.node) \in Nat /\ MinKey(r.node) \in Keys
  BY <1>3, <1>6, <1>7, TreeAssumption DEF Sounds, Sound, Inserted, TreeAssumption
<1>9. /\ Entries(r.node) \subseteq Put(Entries(old), k, v)
      /\ \A e \in Entry(N) : r.new = <<e>> => Entries(e.node) \subseteq Put(Entries(old), k, v)
  <2>1. \A e, f : <<e>> = <<f>> => e = f
    OBVIOUS
  <2>2. \A e : <<e>> # <<>>
    OBVIOUS
  <2> QED BY <1>3, <2>1, <2>2 DEF Inserted
<1>10. ASSUME NEW n \in N, Entries(n) \subseteq Put(Entries(old), k, v), NEW x \in KeysOf(n)
       PROVE  x \in KeysOf(old) \/ x = k
  <2>1. PICK y \in Entries(n) : x = y[1]
    BY <1>10 DEF Sounds, Sound
  <2>2. y \in Entries(old) \/ y = <<k, v>>
    BY <1>10, <2>1 DEF Put
  <2> QED BY <1>8, <2>1, <2>2 DEF Sound
<1>11. \A x \in KeysOf(r.node) : x \in KeysOf(old) \/ x = k
  BY <1>8, <1>9, <1>10
<1>12. /\ es1 \in Seq(Entry(N)) /\ Len(es1) = Len(es)
       /\ es1[i] = [key |-> es[i].key, node |-> r.node]
       /\ \A j \in 1 .. Len(es) : j # i => es1[j] = es[j]
  <2>1. IsPut(es1, es, i, r.node)
    BY DEF IsPut
  <2> HIDE DEF es1
  <2> QED BY <1>6, <1>8, <2>1, PutNode
<1> HIDE DEF es1
<1>13. /\ es2 \in Seq(Entry(N)) /\ Len(es2) = Len(es)
       /\ es2[i] = [key |-> key, node |-> r.node]
       /\ \A j \in 1 .. Len(es) : j # i => es2[j] = es[j]
  <2>1. CASE p = 0
    <3>1. es1[1].node = r.node
      BY <1>6, <1>12, <2>1
    <3>3. es1 # <<>>
      BY <1>0, <1>12, EmptySeq
    <3>2. /\ RefreshFirst(es1) \in Seq(Entry(N)) /\ Len(RefreshFirst(es1)) = Len(es1)
          /\ RefreshFirst(es1)[1] = [key |-> MinKey(es1[1].node), node |-> es1[1].node]
          /\ \A j \in 1 .. Len(es1) : j # 1 => RefreshFirst(es1)[j] = es1[j]
      <4>1. MinKey(es1[1].node) \in Keys
        BY <1>8, <3>1
      <4> HIDE DEF es2, key
      <4> QED BY <1>12, <3>3, <4>1, Refresh
    <3> QED BY <1>6, <1>12, <2>1, <3>1, <3>2
  <2>2. CASE p # 0
    BY <1>12, <2>2
  <2> QED BY <2>1, <2>2
<1>14. InsertStep(es, k, r)
       = IF r.new = <<>> THEN [node |-> Inner(es2), new |-> <<>>]
         ELSE AddChild(es2, r.new[1])
  BY <1>5 DEF es1
<1> HIDE DEF es2
<1>15. es2[i].key = key /\ es2[i].node = r.node /\ key \in Nat /\ Own(es2[i]) /\ es2[i] \in Entry(N)
  <2>1. es2[i].key = key /\ es2[i].node = r.node /\ key \in Nat /\ es2[i] \in Entry(N)
    BY <1>6, <1>7, <1>8, <1>13, ElementOfSeq
  <2>2. CASE p = 0
    BY <1>8, <2>1, <2>2 DEF Own
  <2>3. CASE p # 0
    <3>1. es[i].key <= MinKey(old) /\ es[i].key <= k /\ es[i].key \in Nat
      BY <1>1, <1>6, <1>7, <2>3 DEF Own
    <3>2. es[i].key <= MinKey(r.node)
      BY <1>3, <3>1 DEF Inserted
    <3> QED BY <2>1, <2>3, <3>2 DEF Own
  <2> QED BY <2>1, <2>2, <2>3
<1>16. ASSUME NEW j \in 1 .. Len(es), i < j, NEW x, x \in KeysOf(old) \/ x = k
       PROVE  x < es[j].key
  <2>1. CASE x \in KeysOf(old)
    BY <1>6, <1>16, <2>1 DEF Fan, Before
  <2>2. CASE x = k
    <3>1. ~(j <= p) /\ es[j].key \in Nat
      BY <1>0, <1>1, <1>6, <1>7, <1>16
    <3> QED BY <1>0, <1>1, <2>2, <3>1
  <2> QED BY <1>16, <2>1, <2>2
<1>17. Fan(es2)
  <2>1. ASSUME NEW j \in 1 .. Len(es2) PROVE es2[j].key <= MinKey(es2[j].node)
    BY <1>7, <1>13, <1>15 DEF Own
  <2>2. ASSUME NEW a \in 1 .. Len(es2), NEW b \in 1 .. Len(es2), a < b
        PROVE  Before(es2[a], es2[b])
    <3>0. a \in 1 .. Len(es) /\ b \in 1 .. Len(es) /\ Before(es[a], es[b])
      BY <1>13, <2>2 DEF Fan
    <3>1. CASE a = i
      <4>1. es2[b] = es[b] /\ i < b
        BY <1>13, <2>2, <3>0, <3>1
      <4> QED BY <1>11, <1>15, <1>16, <3>0, <3>1, <4>1 DEF Before
    <3>2. CASE b = i
      <4>1. es2[a] = es[a] /\ a # i
        BY <1>13, <2>2, <3>0, <3>2
      <4>2. key = es[i].key
        BY <1>0, <1>6, <2>2, <3>0, <3>2
      <4> QED BY <1>15, <3>0, <3>2, <4>1, <4>2 DEF Before
    <3>3. CASE a # i /\ b # i
      BY <1>13, <3>0, <3>3
    <3> QED BY <3>1, <3>2, <3>3
  <2> QED BY <2>1, <2>2 DEF Fan
<1>18. ASSUME NEW m \in Nat, m <= es[1].key, m <= k PROVE m <= es2[1].key
  <2>1. CASE i = 1
    <3>1. m <= MinKey(old)
      <4>1. es[1].key <= MinKey(old) /\ es[1].key \in Nat
        BY <1>0, <1>7, <2>1 DEF Own
      <4> QED BY <1>8, <1>18, <4>1
    <3>2. m <= MinKey(r.node)
      BY <1>3, <1>18, <3>1 DEF Inserted
    <3> QED BY <1>15, <1>18, <2>1, <3>2
  <2>2. CASE i # 1
    BY <1>0, <1>13, <1>18, <2>2
  <2> QED BY <2>1, <2>2
<1>19. /\ \A x \in Held(es2) : x \in Entries(r.node) \/ \E j \in 1 .. Len(es) : j # i /\ x \in Entries(es[j].node)
       /\ Entries(r.node) \subseteq Held(es2)
       /\ \A j \in 1 .. Len(es) : j # i => Entries(es[j].node) \subseteq Held(es2)
  <2>1. \A j \in 1 .. Len(es) : es2[j] \in Elems(es2)
    BY <1>13 DEF Elems
  <2>2. ASSUME NEW x \in Held(es2)
        PROVE  x \in Entries(r.node) \/ \E j \in 1 .. Len(es) : j # i /\ x \in Entries(es[j].node)
    <3>1. PICK j \in 1 .. Len(es) : x \in Entries(es2[j].node)
      BY <1>13 DEF Held, Elems
    <3> QED BY <1>13, <1>15, <3>1
  <2>3. Entries(r.node) \subseteq Held(es2)
    BY <1>6, <1>15, <2>1 DEF Held
  <2>4. ASSUME NEW j \in 1 .. Len(es), j # i PROVE Entries(es[j].node) \subseteq Held(es2)
    BY <1>13, <2>1, <2>4 DEF Held
  <2> QED BY <2>2, <2>3, <2>4
<1>20. ASSUME NEW E, Entries(r.node) \cup E = Put(Entries(old), k, v)
       PROVE  Held(es2) \cup E = Put(Held(es), k, v)
  <2>1. \A j \in 1 .. Len(es) : j # i => \A x \in Entries(es[j].node) : x[1] # k
    BY <1>4, <1>6
  <2>2. \A j \in 1 .. Len(es) : Entries(es[j].node) \subseteq Held(es)
    BY DEF Held, Elems
  <2>3. ASSUME NEW x \in Held(es2) \cup E PROVE x \in Put(Held(es), k, v)
    <3>1. CASE x \in Put(Entries(old), k, v)
      BY <1>6, <2>2, <3>1 DEF Put
    <3>2. CASE \E j \in 1 .. Len(es) : j # i /\ x \in Entries(es[j].node)
      BY <2>1, <2>2, <3>2 DEF Put
    <3> QED BY <1>19, <1>20, <3>1, <3>2
  <2>4. ASSUME NEW x \in Put(Held(es), k, v) PROVE x \in Held(es2) \cup E
    <3>1. CASE x = <<k, v>>
      BY <1>19, <1>20, <3>1 DEF Put
    <3>2. CASE x \in Held(es) /\ x[1] # k
      <4>1. PICK j \in 1 .. Len(es) : x \in Entries(es[j].node)
        BY <3>2 DEF Held, Elems
      <4>2. CASE j = i
        <5>1. x \in Put(Entries(old), k, v)
          BY <3>2, <4>1, <4>2 DEF Put
        <5> QED BY <1>19, <1>20, <5>1
      <4>3. CASE j # i
        BY <1>19, <4>1, <4>3
      <4> QED BY <4>2, <4>3
    <3> QED BY <3>1, <3>2 DEF Put
  <2> QED BY <2>3, <2>4
<1>23. ASSUME NEW Z, Edited(Bottom(old), Bottom(r.node) \cup Z)
       PROVE  Edited(Under(es), Under(es2) \cup Z)
  <2>1. /\ es2[i].node = r.node /\ Len(es2) = Len(es)
        /\ \A j \in 1 .. Len(es) : j # i => es2[j].node = es[j].node
    BY <1>13, <1>15
  <2> HIDE DEF es2
  <2> QED BY <1>0, <1>6, <1>23, <2>1, EditedUnder
<1>21. CASE r.new = <<>>
  <2> DEFINE ys == <<>>
  <2>1. /\ ys \in Seq(Entry(N)) /\ Fan(ys) /\ Elems(ys) = {} /\ ys = <<>>
        /\ Held(ys) = {} /\ Under(ys) = {}
    BY DEF Fan, Elems, Held, Under
  <2> HIDE DEF ys
  <2>9. Edited(Under(es), Under(es2) \cup Under(ys))
    <3>1. \A e : <<e>> # <<>>
      OBVIOUS
    <3>2. Edited(Bottom(old), Bottom(r.node) \cup {})
      BY <1>3, <1>21, <3>1 DEF Inserted
    <3> QED BY <1>23, <2>1, <3>2
  <2>2. Entries(r.node) \cup {} = Put(Entries(old), k, v)
    <3>1. \A e : <<e>> # <<>>
      OBVIOUS
    <3> QED BY <1>3, <1>21, <3>1 DEF Inserted
  <2>3. Held(es2) \cup {} = Put(Held(es), k, v)
    BY <1>20, <2>2
  <2>4. es2 # <<>>
    BY <1>0, <1>13, EmptySeq
  <2>7. Apart(Elems(es2), Elems(ys)) /\ Held(es2) \cup Held(ys) = Put(Held(es), k, v)
    BY <2>1, <2>3 DEF Apart
  <2>8. Len(es2) = Len(es) /\ es2 \in Seq(Entry(N))
    BY <1>13
  <2>5. Grew(N, es, k, v, es2, ys)
    <3>1. \A m \in Nat : m <= es[1].key /\ m <= k => m <= es2[1].key
      BY <1>18
    <3>2. IF ys = <<>> THEN Len(es2) = Len(es) \/ (Len(es2) = Len(es) + 1 /\ Len(es) < 2 * Degree + 1)
          ELSE Len(es) <= 3 * Degree + 1 => Sized(es2) /\ Sized(ys)
      BY <2>1, <2>8
    <3> QED BY <1>17, <2>1, <2>4, <2>7, <2>8, <2>9, <3>1, <3>2 DEF Grew
  <2>6. Halves(InsertStep(es, k, r), es2, ys)
    BY <1>14, <1>21, <2>1 DEF Halves
  <2> QED BY <1>13, <2>1, <2>5, <2>6
<1>22. CASE r.new # <<>>
  <2>1. PICK e \in Entry(N) :
          /\ r.new = <<e>> /\ Own(e)
          /\ \A x \in KeysOf(r.node) : x < e.key
          /\ Entries(r.node) \cup Entries(e.node) = Put(Entries(old), k, v)
          /\ Edited(Bottom(old), Bottom(r.node) \cup Bottom(e.node))
    BY <1>3, <1>22 DEF Inserted
  <2>2. Before(es2[i], e) /\ e.key \in Nat /\ e.node \in N
    BY <1>15, <2>1, EntryIs DEF Before
  <2>3. es2[i].key < e.key
    BY <1>15, <2>2, BeforeLess
  <2>4. \A x \in KeysOf(e.node) : x \in KeysOf(old) \/ x = k
    BY <1>9, <1>10, <2>1, <2>2
  <2>5. Belongs(es2, e, i)
    <3> SUFFICES ASSUME NEW j \in 1 .. Len(es2)
                 PROVE  IF j <= i THEN Before(es2[j], e) ELSE Before(e, es2[j])
      BY <2>1 DEF Belongs
    <3>1. CASE j = i
      BY <1>6, <2>2, <3>1
    <3>2. CASE j < i
      <4>1. Before(es2[j], es2[i])
        BY <1>6, <1>13, <1>17, <3>2 DEF Fan
      <4>2. es2[j] = es[j] /\ \A x \in KeysOf(es2[j].node) : x \in Nat
        <5>1. j \in 1 .. Len(es) /\ es2[j] = es[j]
          BY <1>6, <1>13, <3>2
        <5> QED BY <1>7, <5>1, TreeAssumption DEF Sound, TreeAssumption
      <4>3. Before(es2[j], e)
        BY <1>15, <2>2, <2>3, <4>1, <4>2 DEF Before
      <4> QED BY <1>6, <3>2, <4>3
    <3>3. CASE j > i
      <4>1. es2[j] = es[j] /\ j \in 1 .. Len(es) /\ ~(j <= i)
        BY <1>6, <1>13, <3>3
      <4>2. Before(e, es2[j])
        BY <1>16, <2>4, <3>3, <4>1 DEF Before
      <4> QED BY <4>1, <4>2
    <3>4. j = i \/ j < i \/ j > i
      BY <1>6
    <3> QED BY <3>1, <3>2, <3>3, <3>4
  <2>6. PICK xs, ys \in Seq(Entry(N)) : Added(N, es2, e, xs, ys) /\ Halves(AddChild(es2, e), xs, ys)
    <3>1. i \in 1 .. Len(es2)
      BY <1>6, <1>13
    <3> QED BY <1>13, <1>17, <2>5, <3>1, AddChildIs
  <2>7. Held(xs) \cup Held(ys) = Held(es2) \cup Entries(e.node)
    <3>1. Elems(xs) \cup Elems(ys) = Elems(es2) \cup {e}
      BY <2>6 DEF Added
    <3> QED BY <3>1 DEF Held
  <2>11. Edited(Under(es), Under(xs) \cup Under(ys))
    <3>1. Elems(xs) \cup Elems(ys) = Elems(es2) \cup {e}
      BY <2>6 DEF Added
    <3>2. Under(xs) \cup Under(ys) = Under(es2) \cup Bottom(e.node)
      BY <3>1 DEF Under
    <3> QED BY <1>23, <2>1, <3>2
  <2>8. Held(es2) \cup Entries(e.node) = Put(Held(es), k, v)
    BY <1>20, <2>1
  <2>9. Grew(N, es, k, v, xs, ys)
    BY <1>13, <1>18, <2>6, <2>7, <2>8, <2>11 DEF Grew, Added
  <2>10. InsertStep(es, k, r) = AddChild(es2, e)
    <3>1. r.new[1] = e
      BY <2>1
    <3> QED BY <1>14, <1>22, <3>1
  <2> QED BY <2>6, <2>9, <2>10
<1> QED BY <1>21, <1>22
-----------------------------------------------------------------------------
\* Two neighbours under one parent: what they hold between them may be divided in
\* another way, or put into one of them.

LEMMA FirstLeast ==
  ASSUME NEW N, Sounds(N), NEW es \in Seq(Entry(N)), Fan(es), NEW y \in Elems(es)
  PROVE  es[1].key <= y.key /\ 1 \in 1 .. Len(es)
<1>1. PICK j \in 1 .. Len(es) : y = es[j]
  BY DEF Elems
<1>2. Len(es) \in Nat /\ 1 \in 1 .. Len(es)
  BY <1>1, LenProperties
<1>3. es[1] \in Entry(N) /\ es[j] \in Entry(N) /\ es[1].key \in Nat
  BY <1>2, ElementOfSeq, EntryIs
<1>4. CASE j = 1
  BY <1>1, <1>2, <1>3, <1>4
<1>5. CASE j # 1
  <2>1. 1 < j
    BY <1>2, <1>5
  <2>2. Before(es[1], es[j]) /\ Own(es[1])
    BY <1>2, <2>1 DEF Fan, Own
  <2>3. es[1].key < es[j].key /\ es[j].key \in Nat
    BY <1>3, <2>2, BeforeLess, EntryIs
  <2> QED BY <1>1, <1>2, <1>3, <2>3
<1> QED BY <1>4, <1>5

LEMMA FansIntro ==
  ASSUME NEW N, Layer(N), NEW zs \in Seq(Entry(N)), zs # <<>>, Fan(zs)
  PROVE  /\ Inner(zs) \in Fans(N) /\ Inner(zs).es = zs /\ ~Inner(zs).leaf
         /\ Entries(Inner(zs)) = Held(zs) /\ Bottom(Inner(zs)) = Under(zs)
         /\ MinKey(Inner(zs)) = zs[1].key
         /\ \A k \in KeysOf(Inner(zs)) : \E z \in Elems(zs) : k \in KeysOf(z.node)
<1>1. Inner(zs).es = zs /\ ~Inner(zs).leaf
  BY DEF Inner
<1>2. Inner(zs) \in Fans(N)
  BY DEF Fans
<1>3. /\ Entries(Inner(zs)) = Held(zs) /\ KeysOf(Inner(zs)) = {x[1] : x \in Held(zs)}
      /\ Bottom(Inner(zs)) = Under(zs)
  BY DEF Layer
<1>4. ASSUME NEW k \in KeysOf(Inner(zs)) PROVE \E z \in Elems(zs) : k \in KeysOf(z.node)
  <2>1. PICK x \in Held(zs) : k = x[1]
    BY <1>3
  <2>2. PICK z \in Elems(zs) : x \in Entries(z.node)
    BY DEF Held
  <2>3. z.node \in N
    BY ElemsOf, EntryIs
  <2> QED BY <2>1, <2>2, <2>3 DEF Layer, Sound
<1> QED BY <1>1, <1>2, <1>3, <1>4 DEF MinKey

LEMMA Pair ==
  ASSUME NEW N, Layer(N), NEW e \in Entry(Fans(N)), NEW f \in Entry(Fans(N)),
         Own(e), Before(e, f), Own(f)
  PROVE  /\ e.node.es \in Seq(Entry(N)) /\ e.node.es # <<>>
         /\ f.node.es \in Seq(Entry(N)) /\ f.node.es # <<>>
         /\ e.node.es \o f.node.es \in Seq(Entry(N))
         /\ Fan(e.node.es \o f.node.es)
         /\ Held(e.node.es \o f.node.es) = Entries(e.node) \cup Entries(f.node)
         /\ Under(e.node.es \o f.node.es) = Bottom(e.node) \cup Bottom(f.node)
         /\ e.key <= e.node.es[1].key
<1> DEFINE xs == e.node.es
           ys == f.node.es
<1>1. e.node \in Fans(N) /\ f.node \in Fans(N) /\ e.key \in Nat /\ f.key \in Nat
  BY EntryIs
<1>2. /\ xs \in Seq(Entry(N)) /\ xs # <<>> /\ Fan(xs)
      /\ MinKey(e.node) = xs[1].key /\ Entries(e.node) = Held(xs) /\ Sound(e.node)
      /\ Bottom(e.node) = Under(xs)
  BY <1>1, FansSound
<1>3. /\ ys \in Seq(Entry(N)) /\ ys # <<>> /\ Fan(ys)
      /\ MinKey(f.node) = ys[1].key /\ Entries(f.node) = Held(ys) /\ Sound(f.node)
      /\ Bottom(f.node) = Under(ys)
  BY <1>1, FansSound
<1> HIDE DEF xs, ys
<1>4. Sounds(N)
  BY DEF Layer, Sounds
<1>5. Apart(Elems(xs), Elems(ys))
  <2> SUFFICES ASSUME NEW x \in Elems(xs), NEW y \in Elems(ys), NEW k \in KeysOf(x.node)
               PROVE  k < y.key
    BY DEF Apart, Before
  <2>1. x \in Entry(N) /\ y \in Entry(N) /\ x.node \in N /\ y.key \in Nat
    BY <1>2, <1>3, ElemsOf, EntryIs
  <2>2. ys[1].key <= y.key /\ 1 \in 1 .. Len(ys)
    BY <1>3, <1>4, FirstLeast
  <2>3. ys[1].key \in Nat
    BY <1>3, <2>2, ElementOfSeq, EntryIs
  <2>4. k \in KeysOf(e.node) /\ k \in Nat
    <3>1. PICK z \in Entries(x.node) : k = z[1]
      BY <1>4, <2>1 DEF Sounds, Sound
    <3>2. z \in Entries(e.node)
      BY <1>2, <3>1 DEF Held
    <3>3. k \in KeysOf(e.node) /\ k \in Keys
      BY <1>2, <3>1, <3>2 DEF Sound
    <3> QED BY <3>3, TreeAssumption DEF TreeAssumption
  <2>5. k < f.key /\ f.key <= ys[1].key
    BY <1>3, <2>4 DEF Before, Own
  <2> QED BY <1>1, <2>1, <2>2, <2>3, <2>4, <2>5
<1>6. /\ xs \o ys \in Seq(Entry(N)) /\ Fan(xs \o ys)
      /\ Held(xs \o ys) = Held(xs) \cup Held(ys) /\ Under(xs \o ys) = Under(xs) \cup Under(ys)
  BY <1>2, <1>3, <1>5, ConcatProperties, FanConcat, HeldConcat
<1>7. e.key <= xs[1].key
  BY <1>2 DEF Own
<1> QED BY <1>2, <1>3, <1>6, <1>7 DEF xs, ys

\* Entries with the separator their node begins with, and with the one of another.
Heading(zs)   == [key |-> zs[1].key, node |-> Inner(zs)]
InPlace(e, xs) == [key |-> e.key, node |-> Inner(xs)]

Adjacent(N, e, f) ==
  /\ e \in Entry(Fans(N)) /\ f \in Entry(Fans(N))
  /\ Own(e) /\ Own(f) /\ Before(e, f)

\* All of it in one node.
IsJoined(N, e, f, g) ==
  /\ g \in Entry(Fans(N)) /\ Own(g) /\ e.key <= g.key
  /\ Entries(g.node) = Entries(e.node) \cup Entries(f.node)
  /\ Bottom(g.node) = Bottom(e.node) \cup Bottom(f.node)
  /\ Len(g.node.es) = Len(e.node.es) + Len(f.node.es)

LEMMA Joined ==
  ASSUME NEW N, Layer(N), NEW e, NEW f, Adjacent(N, e, f)
  PROVE  IsJoined(N, e, f, Heading(e.node.es \o f.node.es))
<1> DEFINE xs == e.node.es
           ys == f.node.es
           zs == e.node.es \o f.node.es
           g == Heading(zs)
<1>1. /\ xs \in Seq(Entry(N)) /\ xs # <<>> /\ ys \in Seq(Entry(N)) /\ ys # <<>>
      /\ xs \o ys \in Seq(Entry(N)) /\ Fan(xs \o ys)
      /\ Held(xs \o ys) = Entries(e.node) \cup Entries(f.node)
      /\ Under(xs \o ys) = Bottom(e.node) \cup Bottom(f.node)
      /\ e.key <= xs[1].key
  BY Pair DEF Adjacent
<1>2. zs = xs \o ys
  OBVIOUS
<1> HIDE DEF xs, ys, zs
<1>3. /\ Len(zs) = Len(xs) + Len(ys)
      /\ \A i \in 1 .. Len(xs) + Len(ys) : zs[i] = IF i <= Len(xs) THEN xs[i] ELSE ys[i - Len(xs)]
  BY <1>1, <1>2, ConcatProperties
<1>4. Len(xs) \in Nat /\ Len(ys) \in Nat /\ Len(xs) >= 1
  BY <1>1, LenProperties, EmptySeq
<1>5. zs[1] = xs[1] /\ zs # <<>> /\ zs \in Seq(Entry(N)) /\ Fan(zs) /\ 1 \in 1 .. Len(zs)
  <2>1. 1 \in 1 .. Len(xs) + Len(ys) /\ 1 <= Len(xs) /\ 1 \in 1 .. Len(zs)
    BY <1>3, <1>4
  <2> QED BY <1>1, <1>2, <1>3, <2>1, EmptySeq
<1>6. zs[1] \in Entry(N) /\ zs[1].key \in Keys /\ zs[1].key \in Nat
  BY <1>5, ElementOfSeq, EntryIs
<1>7. /\ Inner(zs) \in Fans(N) /\ Inner(zs).es = zs
      /\ Entries(Inner(zs)) = Held(zs) /\ Bottom(Inner(zs)) = Under(zs)
      /\ MinKey(Inner(zs)) = zs[1].key
  BY <1>5, FansIntro
<1>8. g \in Entry(Fans(N)) /\ Own(g)
  <2>1. zs[1].key <= MinKey(Inner(zs))
    <3>1. \A n, m : n \in Nat /\ m = n => n <= m
      OBVIOUS
    <3>2. zs[1].key \in Nat
      BY <1>6
    <3>3. MinKey(Inner(zs)) = zs[1].key
      BY <1>7
    <3> QED BY <3>1, <3>2, <3>3
  <2>2. Own(g)
    BY <2>1 DEF Own, Heading
  <2>3. g \in Entry(Fans(N))
    BY <1>6, <1>7 DEF Entry, Heading
  <2> QED BY <2>2, <2>3
<1>9. g.node = Inner(zs) /\ g.key = zs[1].key
  BY DEF Heading
<1>10. /\ e.key <= g.key
       /\ Entries(g.node) = Entries(e.node) \cup Entries(f.node)
       /\ Bottom(g.node) = Bottom(e.node) \cup Bottom(f.node)
       /\ Len(g.node.es) = Len(e.node.es) + Len(f.node.es)
  BY <1>1, <1>2, <1>3, <1>5, <1>7, <1>9 DEF xs, ys
<1> HIDE DEF g
<1>11. IsJoined(N, e, f, g)
  BY <1>8, <1>10 DEF IsJoined
<1> QED BY <1>11 DEF g, zs

\* Another division.
SameRow(xs, ys, us, vs) == xs \o ys = us \o vs

IsResplit(N, e, f, d, g) ==
  /\ d \in Entry(Fans(N)) /\ g \in Entry(Fans(N))
  /\ Own(d) /\ Own(g) /\ Before(d, g)
  /\ e.key <= d.key /\ e.key <= g.key
  /\ Entries(d.node) \cup Entries(g.node) = Entries(e.node) \cup Entries(f.node)
  /\ Bottom(d.node) \cup Bottom(g.node) = Bottom(e.node) \cup Bottom(f.node)

LEMMA Resplit ==
  ASSUME NEW N, Layer(N), NEW e, NEW f, Adjacent(N, e, f),
         NEW xs \in Seq(Entry(N)), NEW ys \in Seq(Entry(N)), xs # <<>>, ys # <<>>,
         SameRow(xs, ys, e.node.es, f.node.es)
  PROVE  IsResplit(N, e, f, InPlace(e, xs), Heading(ys))
<1>0. e \in Entry(Fans(N)) /\ f \in Entry(Fans(N)) /\ Own(e) /\ Before(e, f) /\ Own(f)
  BY DEF Adjacent
<1> DEFINE d == [key |-> e.key, node |-> Inner(xs)]
           g == [key |-> ys[1].key, node |-> Inner(ys)]
<1> DEFINE us == e.node.es
           zs == e.node.es \o f.node.es
<1>1. /\ us \in Seq(Entry(N)) /\ us # <<>>
      /\ f.node.es \in Seq(Entry(N)) /\ f.node.es # <<>>
      /\ zs \in Seq(Entry(N)) /\ Fan(zs)
      /\ Held(zs) = Entries(e.node) \cup Entries(f.node)
      /\ Under(zs) = Bottom(e.node) \cup Bottom(f.node)
      /\ e.key <= us[1].key
  BY <1>0, Pair
<1>2. Len(us) >= 1 /\ Len(xs) >= 1 /\ Len(us) \in Nat /\ Len(xs) \in Nat /\ Len(ys) \in Nat /\ Len(f.node.es) \in Nat
  BY <1>1, EmptySeq, LenProperties
<1>3. zs[1] = us[1] /\ zs[1] = xs[1]
  <2>1. \A i \in 1 .. Len(us) + Len(f.node.es) :
          zs[i] = IF i <= Len(us) THEN us[i] ELSE f.node.es[i - Len(us)]
    BY <1>1, ConcatProperties
  <2>2. \A i \in 1 .. Len(xs) + Len(ys) :
          (xs \o ys)[i] = IF i <= Len(xs) THEN xs[i] ELSE ys[i - Len(xs)]
    BY ConcatProperties
  <2>3. 1 \in 1 .. Len(us) + Len(f.node.es) /\ 1 <= Len(us) /\ 1 \in 1 .. Len(xs) + Len(ys) /\ 1 <= Len(xs)
    <3>1. \A m, n \in Nat : m >= 1 => 1 \in 1 .. m + n /\ 1 <= m
      OBVIOUS
    <3> HIDE DEF us
    <3> QED BY <1>2, <3>1
  <2>4. zs[1] = us[1]
    BY <2>1, <2>3
  <2>5. (xs \o ys)[1] = xs[1]
    BY <2>2, <2>3
  <2> QED BY <2>4, <2>5 DEF SameRow
<1>z. zs = xs \o ys
  BY DEF SameRow
<1> HIDE DEF us, zs
<1>4. /\ Fan(xs) /\ Fan(ys) /\ Apart(Elems(xs), Elems(ys))
      /\ Held(zs) = Held(xs) \cup Held(ys) /\ Under(zs) = Under(xs) \cup Under(ys)
  <2>1. Fan(xs \o ys)
    BY <1>1, <1>z
  <2>2. Fan(xs) /\ Fan(ys) /\ Apart(Elems(xs), Elems(ys))
    BY <2>1, FanConcat
  <2>3. Held(xs \o ys) = Held(xs) \cup Held(ys) /\ Under(xs \o ys) = Under(xs) \cup Under(ys)
    BY HeldConcat
  <2> QED BY <1>z, <2>2, <2>3
<1>5. /\ Inner(xs) \in Fans(N) /\ MinKey(Inner(xs)) = xs[1].key
      /\ Entries(Inner(xs)) = Held(xs) /\ Bottom(Inner(xs)) = Under(xs)
      /\ \A k \in KeysOf(Inner(xs)) : \E z \in Elems(xs) : k \in KeysOf(z.node)
  BY <1>4, FansIntro
<1>6. /\ Inner(ys) \in Fans(N) /\ MinKey(Inner(ys)) = ys[1].key
      /\ Entries(Inner(ys)) = Held(ys) /\ Bottom(Inner(ys)) = Under(ys)
  BY <1>4, FansIntro
<1>7. /\ 1 \in 1 .. Len(ys) /\ ys[1] \in Entry(N) /\ ys[1].key \in Keys /\ ys[1].key \in Nat
      /\ ys[1] \in Elems(ys) /\ e.key \in Keys /\ e.key \in Nat
  <2>1. 1 \in 1 .. Len(ys)
    BY <1>2, EmptySeq
  <2> QED BY <1>0, <2>1, ElementOfSeq, EntryIs, ElemsOf
<1>8. Before(d, g)
  <2> SUFFICES ASSUME NEW k \in KeysOf(Inner(xs)) PROVE k < ys[1].key
    BY DEF Before
  <2>1. PICK z \in Elems(xs) : k \in KeysOf(z.node)
    BY <1>5
  <2> QED BY <1>4, <1>7, <2>1 DEF Apart, Before
<1>9. Own(d) /\ Own(g)
  <2>1. e.key <= MinKey(Inner(xs))
    BY <1>1, <1>3, <1>5
  <2>2. ys[1].key <= MinKey(Inner(ys))
    BY <1>6, <1>7
  <2> QED BY <2>1, <2>2 DEF Own
<1>10. e.key <= d.key /\ e.key <= g.key
  <2>1. ys[1] \in Elems(zs)
    <3>1. Elems(zs) = Elems(xs) \cup Elems(ys)
      BY <1>z, ElemsConcat
    <3> QED BY <1>7, <3>1
  <2>2. zs[1].key <= ys[1].key /\ 1 \in 1 .. Len(zs)
    BY <1>1, <2>1, FirstLeast DEF Layer, Sounds
  <2>3. zs[1].key \in Nat
    BY <1>1, <2>2, ElementOfSeq, EntryIs
  <2>4. e.key <= zs[1].key
    BY <1>1, <1>3
  <2>5. e.key <= ys[1].key
    BY <1>7, <2>2, <2>3, <2>4
  <2> QED BY <1>7, <2>5
<1>11. d \in Entry(Fans(N)) /\ g \in Entry(Fans(N))
  BY <1>5, <1>6, <1>7 DEF Entry
<1>12. /\ Entries(d.node) \cup Entries(g.node) = Entries(e.node) \cup Entries(f.node)
       /\ Bottom(d.node) \cup Bottom(g.node) = Bottom(e.node) \cup Bottom(f.node)
  BY <1>1, <1>4, <1>5, <1>6
<1> HIDE DEF d, g
<1>13. IsResplit(N, e, f, d, g)
  BY <1>8, <1>9, <1>10, <1>11, <1>12 DEF IsResplit
<1> QED BY <1>13 DEF d, g, InPlace, Heading

\* Neighbours q and q + 1 of p give way to w, which holds the same.
Regrouped(N, p, q, w, t) ==
  /\ t \in Seq(Entry(N)) /\ Fan(t) /\ Held(t) = Held(p) /\ Under(t) = Under(p)
  /\ Len(t) = Len(p) - 2 + Len(w)
  /\ \A x \in Elems(t) : p[1].key <= x.key
  /\ \A x \in Elems(t) : x \in Elems(w) \/ \E j \in 1 .. Len(p) : j # q /\ j # q + 1 /\ x = p[j]

LEMMA PairSwap ==
  ASSUME NEW N, Sounds(N), NEW p \in Seq(Entry(N)), Fan(p), NEW q \in 1 .. Len(p) - 1,
         NEW a \in Seq(Entry(N)), NEW c \in Seq(Entry(N)), IsCut2(Entry(N), p, q, a, c),
         NEW w \in Seq(Entry(N)), Fan(w),
         Held(w) = Entries(p[q].node) \cup Entries(p[q + 1].node),
         Under(w) = Bottom(p[q].node) \cup Bottom(p[q + 1].node),
         \A x \in Elems(w) : p[q].key <= x.key
  PROVE  Regrouped(N, p, q, w, a \o w \o c)
<1> DEFINE e == p[q]
           f == p[q + 1]
           m == <<e, f>>
           t == a \o w \o c
<1>0. Len(p) \in Nat /\ q \in Nat /\ q \in 1 .. Len(p) /\ q + 1 \in 1 .. Len(p)
  BY LenProperties
<1>1. e \in Entry(N) /\ f \in Entry(N) /\ p[1] \in Entry(N) /\ 1 \in 1 .. Len(p)
  <2>1. 1 \in 1 .. Len(p)
    BY <1>0
  <2> QED BY <1>0, <2>1, ElementOfSeq
<1>2. Len(a) = q - 1 /\ Len(c) = Len(p) - q - 1 /\ p = a \o m \o c
  BY DEF IsCut2
<1>3. /\ Len(m) = 2 /\ Elems(m) = {e, f}
      /\ Held(m) = Entries(e.node) \cup Entries(f.node) /\ m \in Seq(Entry(N))
      /\ Under(m) = Bottom(e.node) \cup Bottom(f.node)
  <2>1. m \in Seq(Entry(N))
    BY <1>1
  <2>2. /\ Len(m) = 2 /\ Elems(m) = {e, f} /\ Held(m) = Entries(e.node) \cup Entries(f.node)
        /\ Under(m) = Bottom(e.node) \cup Bottom(f.node)
    BY FanTwo
  <2> QED BY <2>1, <2>2
<1>4. Held(w) = Held(m)
  BY <1>3
<1>16. Under(w) = Under(m)
  BY <1>3
<1>5. \A x \in Elems(w) : \E y \in Elems(m) : y.key <= x.key
  BY <1>3
<1>6. /\ \A i \in 1 .. Len(a) : p[i] = a[i]
      /\ \A i \in 1 .. Len(c) : p[Len(a) + Len(m) + i] = c[i]
  <2> HIDE DEF m, e, f, t
  <2>0. m \in Seq(Entry(N))
    BY <1>3
  <2> DEFINE u == a \o m \o c
  <2>1. IsRow3(Entry(N), u, a, m, c)
    BY <2>0, Concat3
  <2>2. u = p
    BY <1>2
  <2> HIDE DEF u
  <2>3. IsRow3(Entry(N), p, a, m, c)
    BY <2>1, <2>2
  <2> QED BY <2>3 DEF IsRow3
<1> HIDE DEF e, f, m
<1>7. ASSUME NEW x \in Elems(w), NEW k \in KeysOf(x.node)
      PROVE  \E y \in Elems(m) : k \in KeysOf(y.node)
  <2>1. x.node \in N
    BY ElemsOf, EntryIs
  <2>2. PICK z \in Entries(x.node) : k = z[1]
    BY <2>1 DEF Sounds, Sound
  <2>3. z \in Held(m)
    BY <1>4, <2>2 DEF Held
  <2>4. PICK y \in Elems(m) : z \in Entries(y.node)
    BY <2>3 DEF Held
  <2>5. y.node \in N
    BY <1>1, <1>3, <2>4, EntryIs
  <2> QED BY <2>2, <2>4, <2>5 DEF Sounds, Sound
<1>8. Fan(t)
  <2>1. Fan(a \o m \o c)
    BY <1>2
  <2> QED BY <1>3, <1>5, <1>7, <2>1, Swap
<1>9. /\ t \in Seq(Entry(N)) /\ Len(t) = Len(a) + Len(w) + Len(c)
      /\ Elems(t) = Elems(a) \cup Elems(w) \cup Elems(c)
  <2>1. a \o w \in Seq(Entry(N)) /\ Len(a \o w) = Len(a) + Len(w) /\ Elems(a \o w) = Elems(a) \cup Elems(w)
    BY ConcatProperties, ElemsConcat
  <2> DEFINE aw == a \o w
  <2> HIDE DEF aw
  <2>2. aw \in Seq(Entry(N)) /\ Len(aw) = Len(a) + Len(w) /\ Elems(aw) = Elems(a) \cup Elems(w)
    BY <2>1 DEF aw
  <2>4. aw \o c \in Seq(Entry(N)) /\ Len(aw \o c) = Len(aw) + Len(c)
    BY <2>2, ConcatProperties
  <2>5. Elems(aw \o c) = Elems(aw) \cup Elems(c)
    BY <2>2, ElemsConcat
  <2>3. aw \o c \in Seq(Entry(N)) /\ Len(aw \o c) = Len(aw) + Len(c) /\ Elems(aw \o c) = Elems(aw) \cup Elems(c)
    BY <2>4, <2>5
  <2> QED BY <2>2, <2>3 DEF aw
<1>10. Elems(p) = Elems(a) \cup Elems(m) \cup Elems(c)
  <2>1. a \o m \in Seq(Entry(N)) /\ Elems(a \o m) = Elems(a) \cup Elems(m)
    BY <1>3, ConcatProperties, ElemsConcat
  <2> DEFINE am == a \o m
  <2>2. am \in Seq(Entry(N)) /\ Elems(am) = Elems(a) \cup Elems(m) /\ p = am \o c
    BY <1>2, <2>1
  <2> HIDE DEF am
  <2>3. Elems(am \o c) = Elems(am) \cup Elems(c)
    BY <2>2, ElemsConcat
  <2> QED BY <2>2, <2>3
<1>11. Held(t) = Held(p) /\ Under(t) = Under(p)
  <2>1. Held(t) = Held(p)
    BY <1>4, <1>9, <1>10 DEF Held
  <2>2. Under(t) = Under(p)
    BY <1>16, <1>9, <1>10 DEF Under
  <2> QED BY <2>1, <2>2
<1>12. ASSUME NEW x \in Elems(t)
       PROVE  x \in Elems(w) \/ \E j \in 1 .. Len(p) : j # q /\ j # q + 1 /\ x = p[j]
  <2>1. CASE x \in Elems(a)
    <3>1. PICK j \in 1 .. Len(a) : x = a[j]
      BY <2>1 DEF Elems
    <3>2. j \in 1 .. Len(p) /\ j # q /\ j # q + 1
      BY <1>0, <1>2
    <3> QED BY <1>6, <3>1, <3>2
  <2>2. CASE x \in Elems(c)
    <3>1. PICK j \in 1 .. Len(c) : x = c[j]
      BY <2>2 DEF Elems
    <3>2. Len(a) + Len(m) + j \in 1 .. Len(p) /\ Len(a) + Len(m) + j # q /\ Len(a) + Len(m) + j # q + 1
      BY <1>0, <1>2, <1>3
    <3> QED BY <1>6, <3>1, <3>2
  <2> QED BY <1>9, <2>1, <2>2
<1>13. ASSUME NEW x \in Elems(t) PROVE p[1].key <= x.key
  <2>1. \A y \in Elems(p) : p[1].key <= y.key
    BY FirstLeast
  <2>2. e \in Elems(p)
    BY <1>0 DEF Elems, e
  <2>3. CASE x \in Elems(w)
    <3>1. e.key <= x.key /\ p[1].key <= e.key
      BY <2>1, <2>2, <2>3 DEF e
    <3>2. p[1].key \in Nat /\ e.key \in Nat /\ x.key \in Nat
      BY <1>1, <2>3, ElemsOf, EntryIs
    <3> QED BY <3>1, <3>2
  <2>4. CASE \E j \in 1 .. Len(p) : x = p[j]
    BY <2>1, <2>4 DEF Elems
  <2> QED BY <1>12, <2>3, <2>4
<1>14. Len(t) = Len(p) - 2 + Len(w)
  <2>1. Len(w) \in Nat
    BY LenProperties
  <2>2. Len(t) = Len(a) + Len(w) + Len(c)
    BY <1>9
  <2>3. Len(a) = q - 1 /\ Len(c) = Len(p) - q - 1
    BY <1>2
  <2> HIDE DEF t
  <2> QED BY <1>0, <2>1, <2>2, <2>3
<1> HIDE DEF t
<1>15. Regrouped(N, p, q, w, t)
  BY <1>8, <1>9, <1>11, <1>12, <1>13, <1>14 DEF Regrouped
<1> QED BY <1>15 DEF t
-----------------------------------------------------------------------------
\* Merging and redistributing.

\* What is known of two neighbours of a row.
Neighbours(N, p, q) ==
  /\ q \in 1 .. Len(p) /\ q + 1 \in 1 .. Len(p) /\ Len(p) \in Nat /\ (q + 1) - 1 = q
  /\ p[q] \in Entry(Fans(N)) /\ p[q + 1] \in Entry(Fans(N))
  /\ Own(p[q]) /\ Own(p[q + 1]) /\ Before(p[q], p[q + 1])

LEMMA NeighboursAre ==
  ASSUME NEW N, NEW p \in Seq(Entry(Fans(N))), Fan(p), NEW q \in 1 .. Len(p) - 1
  PROVE  Neighbours(N, p, q)
<1>1. Len(p) \in Nat
  BY LenProperties
<1>2. q \in 1 .. Len(p) /\ q + 1 \in 1 .. Len(p) /\ q < q + 1 /\ (q + 1) - 1 = q
  BY <1>1
<1>3. p[q] \in Entry(Fans(N)) /\ p[q + 1] \in Entry(Fans(N))
  BY <1>2, ElementOfSeq
<1>4. Own(p[q]) /\ Own(p[q + 1]) /\ Before(p[q], p[q + 1])
  BY <1>2 DEF Fan, Own
<1> QED BY <1>1, <1>2, <1>3, <1>4 DEF Neighbours

LEMMA SoundFans ==
  ASSUME NEW N, Layer(N)
  PROVE  Sounds(Fans(N))
<1>1. ASSUME NEW n \in Fans(N) PROVE Sound(n)
  BY FansSound
<1> QED BY <1>1 DEF Sounds

LEMMA MergeIs ==
  ASSUME NEW N, Layer(N), NEW p \in Seq(Entry(Fans(N))), Fan(p), NEW q \in 1 .. Len(p) - 1
  PROVE  \E g \in Entry(Fans(N)) :
           /\ Regrouped(Fans(N), p, q, <<g>>, RemoveAt(MergeRight(p, q), q))
           /\ Regrouped(Fans(N), p, q, <<g>>, RemoveAt(MergeLeft(p, q + 1), q + 1))
           /\ Len(MergeRight(p, q)) = Len(p) /\ Len(MergeLeft(p, q + 1)) = Len(p)
           /\ Len(g.node.es) = Len(p[q].node.es) + Len(p[q + 1].node.es)
<1> DEFINE e == p[q]
           f == p[q + 1]
           zs == e.node.es \o f.node.es
           g == Heading(zs)
<1>1. Neighbours(N, p, q)
  BY NeighboursAre
<1>2. /\ q \in 1 .. Len(p) /\ q + 1 \in 1 .. Len(p) /\ (q + 1) - 1 = q
      /\ e \in Entry(Fans(N)) /\ f \in Entry(Fans(N)) /\ Own(e) /\ Own(f) /\ Before(e, f)
  BY <1>1 DEF Neighbours
<1>3. MergeRight(p, q) = [p EXCEPT ![q + 1] = g]
  BY DEF MergeRight, Heading
<1>4. MergeLeft(p, q + 1) = [p EXCEPT ![q] = g]
  BY <1>2 DEF MergeLeft, Heading
<1>5. /\ g \in Entry(Fans(N)) /\ Own(g) /\ e.key <= g.key
      /\ Entries(g.node) = Entries(e.node) \cup Entries(f.node)
      /\ Bottom(g.node) = Bottom(e.node) \cup Bottom(f.node)
      /\ Len(g.node.es) = Len(e.node.es) + Len(f.node.es)
  <2> HIDE DEF e, f
  <2>1. Adjacent(N, e, f)
    BY <1>2 DEF Adjacent
  <2>2. IsJoined(N, e, f, Heading(e.node.es \o f.node.es))
    BY <2>1, Joined
  <2> HIDE DEF g
  <2>3. IsJoined(N, e, f, g)
    BY <2>2 DEF g
  <2> QED BY <2>3 DEF IsJoined
<1> HIDE DEF zs, g
<1>6. PICK a, c \in Seq(Entry(Fans(N))) : IsCut2(Entry(Fans(N)), p, q, a, c)
  BY Cut2
<1>7. /\ RemoveAt([p EXCEPT ![q + 1] = g], q) = a \o <<g>> \o c
      /\ RemoveAt([p EXCEPT ![q] = g], q + 1) = a \o <<g>> \o c
  BY <1>5, <1>6 DEF IsCut2
<1> DEFINE w == <<g>>
<1>8. /\ w \in Seq(Entry(Fans(N))) /\ Fan(w) /\ Elems(w) = {g}
      /\ Held(w) = Entries(e.node) \cup Entries(f.node)
      /\ Under(w) = Bottom(e.node) \cup Bottom(f.node)
  <2>1. w \in Seq(Entry(Fans(N)))
    BY <1>5
  <2>2. Fan(w) /\ Elems(w) = {g} /\ Held(w) = Entries(g.node) /\ Under(w) = Bottom(g.node)
    BY <1>5, FanOne
  <2> QED BY <1>5, <2>1, <2>2
<1> HIDE DEF w
<1>9. Regrouped(Fans(N), p, q, w, a \o w \o c)
  <2>1. \A x \in Elems(w) : p[q].key <= x.key
    BY <1>5, <1>8
  <2> QED BY <1>6, <1>8, <2>1, SoundFans, PairSwap
<1>10. RemoveAt(MergeRight(p, q), q) = a \o w \o c /\ RemoveAt(MergeLeft(p, q + 1), q + 1) = a \o w \o c
  BY <1>3, <1>4, <1>7 DEF w
<1>11. Len(MergeRight(p, q)) = Len(p) /\ Len(MergeLeft(p, q + 1)) = Len(p)
  <2>1. Len([p EXCEPT ![q + 1] = g]) = Len(p) /\ Len([p EXCEPT ![q] = g]) = Len(p)
    BY <1>2, <1>5, ExceptSeq
  <2> QED BY <1>3, <1>4, <2>1
<1> QED BY <1>5, <1>9, <1>10, <1>11 DEF w

\* The first of a row, and the rest; the last, and what is before.
LEMMA TakeFirst ==
  ASSUME NEW S, NEW s \in Seq(S), Len(s) >= 2
  PROVE  /\ s[1] \in S /\ Tail(s) \in Seq(S) /\ Tail(s) # <<>> /\ Len(Tail(s)) = Len(s) - 1
         /\ Tail(s)[1] = s[2] /\ s = <<s[1]>> \o Tail(s)
<1>1. s # <<>> /\ Len(s) \in Nat /\ 1 \in 1 .. Len(s)
  BY EmptySeq, LenProperties
<1>2. /\ Tail(s) \in Seq(S) /\ Len(Tail(s)) = Len(s) - 1
      /\ \A i \in 1 .. Len(Tail(s)) : Tail(s)[i] = s[i + 1]
  BY <1>1, HeadTailProperties
<1>3. 1 \in 1 .. Len(Tail(s)) /\ 1 + 1 = 2
  BY <1>1, <1>2
<1>4. Tail(s) # <<>> /\ Tail(s)[1] = s[2]
  <2>1. Tail(s)[1] = s[1 + 1]
    BY <1>2, <1>3
  <2> DEFINE t == Tail(s)
  <2>2. t \in Seq(S) /\ 1 \in 1 .. Len(t)
    BY <1>2, <1>3
  <2> HIDE DEF t
  <2>3. t # <<>>
    <3>1. Len(t) # 0
      BY <2>2
    <3> QED BY <2>2, <3>1, EmptySeq
  <2> QED BY <2>1, <2>3 DEF t
<1>5. s[1] \in S
  BY <1>1, ElementOfSeq
<1>6. s = <<s[1]>> \o Tail(s)
  <2>1. <<s[1]>> \in Seq(S) /\ Len(<<s[1]>>) = 1 /\ <<s[1]>>[1] = s[1]
    BY <1>5
  <2> DEFINE b == <<s[1]>>
             t == Tail(s)
  <2>2. b \in Seq(S) /\ Len(b) = 1 /\ b[1] = s[1]
    BY <2>1
  <2>3. t \in Seq(S) /\ Len(t) = Len(s) - 1 /\ \A i \in 1 .. Len(t) : t[i] = s[i + 1]
    BY <1>2
  <2> HIDE DEF b, t
  <2>4. /\ b \o t \in Seq(S) /\ Len(b \o t) = Len(b) + Len(t)
        /\ \A i \in 1 .. Len(b) + Len(t) : (b \o t)[i] = IF i <= Len(b) THEN b[i] ELSE t[i - Len(b)]
    <3>1. b \in Seq(S) /\ t \in Seq(S)
      BY <2>2, <2>3
    <3> QED BY <3>1, ConcatProperties
  <2>5. Len(s) = Len(b \o t)
    BY <1>1, <2>2, <2>3, <2>4
  <2>6. ASSUME NEW i \in 1 .. Len(s) PROVE s[i] = (b \o t)[i]
    <3>1. CASE i = 1
      BY <1>1, <2>2, <2>3, <2>4, <3>1
    <3>2. CASE i # 1
      <4>1. i - 1 \in 1 .. Len(t) /\ i \in 1 .. Len(b) + Len(t) /\ ~(i <= Len(b)) /\ (i - 1) + 1 = i
        BY <1>1, <2>2, <2>3, <3>2
      <4>2. (b \o t)[i] = t[i - 1]
        BY <2>2, <2>4, <4>1
      <4>3. t[i - 1] = s[(i - 1) + 1]
        BY <2>3, <4>1
      <4> QED BY <4>1, <4>2, <4>3
    <3> QED BY <3>1, <3>2
  <2>7. s = b \o t
    BY <2>4, <2>5, <2>6, SeqEqual
  <2> QED BY <2>7 DEF b, t
<1> QED BY <1>2, <1>4, <1>5, <1>6

LEMMA TakeLast ==
  ASSUME NEW S, NEW s \in Seq(S), Len(s) >= 2
  PROVE  /\ Last(s) \in S /\ Front(s) \in Seq(S) /\ Front(s) # <<>>
         /\ Len(Front(s)) = Len(s) - 1 /\ s = Front(s) \o <<Last(s)>>
<1> DEFINE n == Len(s) - 1
<1>1. Len(s) \in Nat /\ Len(s) \in 1 .. Len(s) /\ n \in 0 .. Len(s) /\ n >= 1 /\ n + 1 = Len(s)
  BY LenProperties
<1>2. PICK a, c \in Seq(S) : IsSplit(S, s, n, a, c)
  <2> HIDE DEF n
  <2> QED BY <1>1, CutInsert
<1>3. /\ Len(a) = n /\ Len(c) = Len(s) - n /\ \A j \in 1 .. Len(s) - n : c[j] = s[n + j]
      /\ s = a \o c /\ a = SubSeq(s, 1, n)
  BY <1>2 DEF IsSplit
<1>4. a = Front(s)
  BY <1>3 DEF Front
<1>5. Last(s) \in S /\ Last(s) = s[n + 1]
  BY <1>1, ElementOfSeq DEF Last
<1>6. c = <<Last(s)>>
  <2>1. Len(c) = 1
    BY <1>1, <1>3
  <2>2. c[1] = s[n + 1]
    BY <1>1, <1>3
  <2>3. <<Last(s)>> \in Seq(S) /\ Len(<<Last(s)>>) = 1 /\ <<Last(s)>>[1] = Last(s)
    BY <1>5
  <2> QED BY <1>5, <2>1, <2>2, <2>3, SeqEqual
<1>7. a # <<>>
  BY <1>1, <1>3, EmptySeq
<1> QED BY <1>1, <1>3, <1>4, <1>5, <1>6, <1>7

LEMMA RedistributeRightIs ==
  ASSUME NEW N, Layer(N), NEW p \in Seq(Entry(Fans(N))), Fan(p), NEW q \in 1 .. Len(p) - 1,
         Len(p[q + 1].node.es) >= 2
  PROVE  \E d, g \in Entry(Fans(N)) :
           /\ Regrouped(Fans(N), p, q, <<d, g>>, RedistributeRight(p, q))
           /\ Len(d.node.es) = Len(p[q].node.es) + 1
           /\ Len(g.node.es) = Len(p[q + 1].node.es) - 1
<1> DEFINE e == p[q]
           f == p[q + 1]
           us == e.node.es
           vs == f.node.es
           xs == Append(us, vs[1])
           ys == Tail(vs)
           d == InPlace(e, xs)
           g == Heading(ys)
<1>1. Neighbours(N, p, q)
  BY NeighboursAre
<1>2. /\ q \in 1 .. Len(p) /\ q + 1 \in 1 .. Len(p) /\ q # q + 1
      /\ e \in Entry(Fans(N)) /\ f \in Entry(Fans(N)) /\ Own(e) /\ Own(f) /\ Before(e, f)
  BY <1>1 DEF Neighbours
<1>3. us \in Seq(Entry(N)) /\ us # <<>> /\ vs \in Seq(Entry(N)) /\ Len(vs) >= 2
  <2> HIDE DEF e, f
  <2>1. /\ e.node.es \in Seq(Entry(N)) /\ e.node.es # <<>>
        /\ f.node.es \in Seq(Entry(N)) /\ f.node.es # <<>>
        /\ e.node.es \o f.node.es \in Seq(Entry(N))
        /\ Fan(e.node.es \o f.node.es)
        /\ Held(e.node.es \o f.node.es) = Entries(e.node) \cup Entries(f.node)
        /\ Under(e.node.es \o f.node.es) = Bottom(e.node) \cup Bottom(f.node)
        /\ e.key <= e.node.es[1].key
    BY <1>2, Pair
  <2> QED BY <2>1 DEF f
<1>4. RedistributeRight(p, q) = [p EXCEPT ![q] = d, ![q + 1] = [key |-> vs[2].key, node |-> Inner(ys)]]
  <2>1. [e EXCEPT !.node = Inner(xs)] = d
    <3>1. e = [key |-> e.key, node |-> e.node]
      BY <1>2, EntryIs
    <3> QED BY <3>1 DEF InPlace
  <2> QED BY <2>1 DEF RedistributeRight
<1> HIDE DEF us, vs
<1>5. /\ vs[1] \in Entry(N) /\ ys \in Seq(Entry(N)) /\ ys # <<>> /\ Len(ys) = Len(vs) - 1
      /\ ys[1] = vs[2] /\ vs = <<vs[1]>> \o ys
  BY <1>3, TakeFirst
<1>6. RedistributeRight(p, q) = [p EXCEPT ![q] = d, ![q + 1] = g]
  <2>1. g = [key |-> vs[2].key, node |-> Inner(ys)]
    BY <1>5 DEF Heading
  <2> HIDE DEF g
  <2> QED BY <1>4, <2>1
<1> HIDE DEF ys
<1>7. xs \in Seq(Entry(N)) /\ xs # <<>> /\ Len(xs) = Len(us) + 1 /\ xs = us \o <<vs[1]>>
  BY <1>3, <1>5, AppendProperties, AppendIsConcat
<1> HIDE DEF xs
<1>8. SameRow(xs, ys, us, vs)
  <2> DEFINE b == <<vs[1]>>
  <2>1. b \in Seq(Entry(N)) /\ xs = us \o b /\ vs = b \o ys
    BY <1>5, <1>7
  <2> HIDE DEF b
  <2>2. (us \o b) \o ys = us \o (b \o ys)
    <3>1. us \in Seq(Entry(N)) /\ b \in Seq(Entry(N)) /\ ys \in Seq(Entry(N))
      BY <1>3, <1>5, <2>1
    <3> HIDE DEF e, f, d, g
    <3> QED BY <3>1, ConcatAssociative, SMTT(30)
  <2> QED BY <2>1, <2>2 DEF SameRow
<1>9. /\ d \in Entry(Fans(N)) /\ g \in Entry(Fans(N))
      /\ Own(d) /\ Own(g) /\ Before(d, g)
      /\ e.key <= d.key /\ e.key <= g.key
      /\ Entries(d.node) \cup Entries(g.node) = Entries(e.node) \cup Entries(f.node)
      /\ Bottom(d.node) \cup Bottom(g.node) = Bottom(e.node) \cup Bottom(f.node)
  <2>1. SameRow(xs, ys, e.node.es, f.node.es)
    BY <1>8 DEF us, vs
  <2> HIDE DEF e, f
  <2>2. Adjacent(N, e, f)
    BY <1>2 DEF Adjacent
  <2>3. xs \in Seq(Entry(N)) /\ ys \in Seq(Entry(N)) /\ xs # <<>> /\ ys # <<>>
    BY <1>5, <1>7
  <2>4. IsResplit(N, e, f, InPlace(e, xs), Heading(ys))
    BY <2>1, <2>2, <2>3, Resplit
  <2> HIDE DEF d, g
  <2>5. IsResplit(N, e, f, d, g)
    BY <2>4 DEF d, g
  <2> QED BY <2>5 DEF IsResplit
<1>10. d.node.es = xs /\ g.node.es = ys
  BY DEF Inner, InPlace, Heading
<1> HIDE DEF d, g
<1>11. PICK a, c \in Seq(Entry(Fans(N))) : IsCut2(Entry(Fans(N)), p, q, a, c)
  BY Cut2
<1> DEFINE w == <<d, g>>
<1>12. RedistributeRight(p, q) = a \o w \o c
  BY <1>6, <1>9, <1>11 DEF IsCut2
<1>13. /\ w \in Seq(Entry(Fans(N))) /\ Fan(w) /\ Elems(w) = {d, g}
       /\ Held(w) = Entries(e.node) \cup Entries(f.node)
       /\ Under(w) = Bottom(e.node) \cup Bottom(f.node)
  <2>1. w \in Seq(Entry(Fans(N)))
    BY <1>9
  <2>2. /\ Fan(w) /\ Elems(w) = {d, g} /\ Held(w) = Entries(d.node) \cup Entries(g.node)
        /\ Under(w) = Bottom(d.node) \cup Bottom(g.node)
    BY <1>9, FanTwo
  <2> QED BY <1>9, <2>1, <2>2
<1> HIDE DEF w
<1>14. Regrouped(Fans(N), p, q, w, a \o w \o c)
  <2>1. \A x \in Elems(w) : p[q].key <= x.key
    BY <1>9, <1>13
  <2> QED BY <1>11, <1>13, <2>1, SoundFans, PairSwap
<1>15. Regrouped(Fans(N), p, q, w, RedistributeRight(p, q))
  BY <1>12, <1>14
<1> QED BY <1>5, <1>7, <1>9, <1>10, <1>15 DEF w, us, vs

LEMMA RedistributeLeftIs ==
  ASSUME NEW N, Layer(N), NEW p \in Seq(Entry(Fans(N))), Fan(p), NEW q \in 1 .. Len(p) - 1,
         Len(p[q].node.es) >= 2
  PROVE  \E d, g \in Entry(Fans(N)) :
           /\ Regrouped(Fans(N), p, q, <<d, g>>, RedistributeLeft(p, q + 1))
           /\ Len(d.node.es) = Len(p[q].node.es) - 1
           /\ Len(g.node.es) = Len(p[q + 1].node.es) + 1
<1> DEFINE e == p[q]
           f == p[q + 1]
           us == e.node.es
           vs == f.node.es
           xs == Front(us)
           ys == <<Last(us)>> \o vs
           d == InPlace(e, xs)
           g == Heading(ys)
<1>1. Neighbours(N, p, q)
  BY NeighboursAre
<1>2. /\ q \in 1 .. Len(p) /\ q + 1 \in 1 .. Len(p) /\ q # q + 1 /\ (q + 1) - 1 = q
      /\ e \in Entry(Fans(N)) /\ f \in Entry(Fans(N)) /\ Own(e) /\ Own(f) /\ Before(e, f)
  BY <1>1 DEF Neighbours
<1>3. us \in Seq(Entry(N)) /\ vs \in Seq(Entry(N)) /\ vs # <<>> /\ Len(us) >= 2
  <2> HIDE DEF e, f
  <2>1. /\ e.node.es \in Seq(Entry(N)) /\ e.node.es # <<>>
        /\ f.node.es \in Seq(Entry(N)) /\ f.node.es # <<>>
        /\ e.node.es \o f.node.es \in Seq(Entry(N))
        /\ Fan(e.node.es \o f.node.es)
        /\ Held(e.node.es \o f.node.es) = Entries(e.node) \cup Entries(f.node)
        /\ Under(e.node.es \o f.node.es) = Bottom(e.node) \cup Bottom(f.node)
        /\ e.key <= e.node.es[1].key
    BY <1>2, Pair
  <2> QED BY <2>1 DEF e
<1>4. RedistributeLeft(p, q + 1) = [p EXCEPT ![q] = d, ![q + 1] = [key |-> Last(us).key, node |-> Inner(ys)]]
  <2>1. [e EXCEPT !.node = Inner(xs)] = d
    <3>1. e = [key |-> e.key, node |-> e.node]
      BY <1>2, EntryIs
    <3> QED BY <3>1 DEF InPlace
  <2> QED BY <1>2, <2>1 DEF RedistributeLeft
<1> HIDE DEF us, vs
<1>5. /\ Last(us) \in Entry(N) /\ xs \in Seq(Entry(N)) /\ xs # <<>> /\ Len(xs) = Len(us) - 1
      /\ us = xs \o <<Last(us)>>
  BY <1>3, TakeLast
<1> HIDE DEF xs
<1> DEFINE b == <<Last(us)>>
<1>6. b \in Seq(Entry(N)) /\ Len(b) = 1 /\ b[1] = Last(us) /\ us = xs \o b /\ ys = b \o vs
  BY <1>5
<1> HIDE DEF b
<1>7. ys \in Seq(Entry(N)) /\ Len(ys) = Len(vs) + 1 /\ ys # <<>> /\ ys[1] = Last(us)
  <2>1. /\ b \o vs \in Seq(Entry(N)) /\ Len(b \o vs) = Len(b) + Len(vs)
        /\ \A i \in 1 .. Len(b) + Len(vs) : (b \o vs)[i] = IF i <= Len(b) THEN b[i] ELSE vs[i - Len(b)]
    BY <1>3, <1>6, ConcatProperties
  <2>2. Len(vs) \in Nat /\ 1 \in 1 .. Len(b) + Len(vs) /\ 1 <= Len(b)
    BY <1>3, <1>6, LenProperties
  <2>3. (b \o vs)[1] = b[1] /\ Len(b \o vs) = Len(vs) + 1
    BY <1>6, <2>1, <2>2
  <2>4. b \o vs # <<>>
    BY <2>1, <2>2, <2>3, EmptySeq
  <2> QED BY <1>6, <2>1, <2>3, <2>4
<1>8. RedistributeLeft(p, q + 1) = [p EXCEPT ![q] = d, ![q + 1] = g]
  <2>1. g = [key |-> Last(us).key, node |-> Inner(ys)]
    BY <1>7 DEF Heading
  <2> HIDE DEF g
  <2> QED BY <1>4, <2>1
<1> HIDE DEF ys
<1>9. SameRow(xs, ys, us, vs)
  <2>1. (xs \o b) \o vs = xs \o (b \o vs)
    <3>1. xs \in Seq(Entry(N)) /\ b \in Seq(Entry(N)) /\ vs \in Seq(Entry(N))
      BY <1>3, <1>5, <1>6
    <3> HIDE DEF e, f, d, g
    <3> QED BY <3>1, ConcatAssociative, SMTT(30)
  <2> QED BY <1>6, <2>1 DEF SameRow
<1>10. /\ d \in Entry(Fans(N)) /\ g \in Entry(Fans(N))
       /\ Own(d) /\ Own(g) /\ Before(d, g)
       /\ e.key <= d.key /\ e.key <= g.key
       /\ Entries(d.node) \cup Entries(g.node) = Entries(e.node) \cup Entries(f.node)
       /\ Bottom(d.node) \cup Bottom(g.node) = Bottom(e.node) \cup Bottom(f.node)
  <2>1. SameRow(xs, ys, e.node.es, f.node.es)
    BY <1>9 DEF us, vs
  <2> HIDE DEF e, f
  <2>2. Adjacent(N, e, f)
    BY <1>2 DEF Adjacent
  <2>3. xs \in Seq(Entry(N)) /\ ys \in Seq(Entry(N)) /\ xs # <<>> /\ ys # <<>>
    BY <1>5, <1>7
  <2>4. IsResplit(N, e, f, InPlace(e, xs), Heading(ys))
    BY <2>1, <2>2, <2>3, Resplit
  <2> HIDE DEF d, g
  <2>5. IsResplit(N, e, f, d, g)
    BY <2>4 DEF d, g
  <2> QED BY <2>5 DEF IsResplit
<1>11. d.node.es = xs /\ g.node.es = ys
  BY DEF Inner, InPlace, Heading
<1> HIDE DEF d, g
<1>12. PICK a, c \in Seq(Entry(Fans(N))) : IsCut2(Entry(Fans(N)), p, q, a, c)
  BY Cut2
<1> DEFINE w == <<d, g>>
<1>13. RedistributeLeft(p, q + 1) = a \o w \o c
  BY <1>8, <1>10, <1>12 DEF IsCut2
<1>14. /\ w \in Seq(Entry(Fans(N))) /\ Fan(w) /\ Elems(w) = {d, g}
       /\ Held(w) = Entries(e.node) \cup Entries(f.node)
       /\ Under(w) = Bottom(e.node) \cup Bottom(f.node)
  <2>1. w \in Seq(Entry(Fans(N)))
    BY <1>10
  <2>2. /\ Fan(w) /\ Elems(w) = {d, g} /\ Held(w) = Entries(d.node) \cup Entries(g.node)
        /\ Under(w) = Bottom(d.node) \cup Bottom(g.node)
    BY <1>10, FanTwo
  <2> QED BY <1>10, <2>1, <2>2
<1> HIDE DEF w
<1>15. Regrouped(Fans(N), p, q, w, a \o w \o c)
  <2>1. \A x \in Elems(w) : p[q].key <= x.key
    BY <1>10, <1>14
  <2> QED BY <1>12, <1>14, <2>1, SoundFans, PairSwap
<1>16. Regrouped(Fans(N), p, q, w, RedistributeLeft(p, q + 1))
  BY <1>13, <1>15
<1> QED BY <1>5, <1>7, <1>10, <1>11, <1>16 DEF w, us, vs

\* A row over a set is one over any that holds its elements.
LEMMA SeqOver ==
  ASSUME NEW S, NEW T, NEW s \in Seq(S), Elems(s) \subseteq T
  PROVE  s \in Seq(T)
<1>1. Len(s) \in Nat /\ s = [j \in 1 .. Len(s) |-> s[j]]
  BY LenProperties
<1>2. \A j \in 1 .. Len(s) : s[j] \in T
  BY DEF Elems
<1> DEFINE n == Len(s)
<1>3. n \in Nat /\ s \in [1 .. n -> T]
  BY <1>1, <1>2
<1> HIDE DEF n
<1> QED BY <1>3, SeqDef
-----------------------------------------------------------------------------
\* A root whose two children have been merged has one child, with as many
\* entries as they had together.
Wide(N) == {n \in Fans(N) : Len(n.es) \in 2 .. 3 * Degree + 1}

\* What is left of a row once its entry i has been dealt with.
Rest(b, i) == IF b.gone THEN RemoveAt(b.p, i) ELSE b.p

\* Child i of p, an entry or two too small, has been given one, or been merged:
\* the entries hold what they held, and the nodes have the right size again.
Restored(N, p, pIsRoot, i, b) ==
  /\ b.ok
  /\ Len(b.p) = Len(p)
  /\ Rest(b, i) \in Seq(Entry(Fans(N))) /\ Fan(Rest(b, i))
  /\ Held(Rest(b, i)) = Held(p) /\ Under(Rest(b, i)) = Under(p)
  /\ Len(Rest(b, i)) = IF b.gone THEN Len(p) - 1 ELSE Len(p)
  /\ \A x \in Elems(Rest(b, i)) : p[1].key <= x.key
  /\ \/ Rest(b, i) \in Seq(Entry(Grown(N)))
     \/ pIsRoot /\ Len(p) = 2 /\ b.gone /\ Rest(b, i) \in Seq(Entry(Wide(N)))

\* The nodes that are not regrouped are those of before.
LEMMA RegroupedOver ==
  ASSUME NEW N, NEW p \in Seq(Entry(Fans(N))), NEW q \in 1 .. Len(p) - 1, NEW w, NEW t,
         Regrouped(Fans(N), p, q, w, t), NEW i \in {q, q + 1},
         \A j \in 1 .. Len(p) : j # i => p[j].node \in Grown(N)
  PROVE  /\ Elems(w) \subseteq Entry(Grown(N)) => t \in Seq(Entry(Grown(N)))
         /\ Len(p) = 2 /\ Elems(w) \subseteq Entry(Wide(N)) => t \in Seq(Entry(Wide(N)))
<1>1. t \in Seq(Entry(Fans(N)))
  BY DEF Regrouped
<1>2. \A x \in Elems(t) : x \in Elems(w) \/ \E j \in 1 .. Len(p) : j # q /\ j # q + 1 /\ x = p[j]
  BY DEF Regrouped
<1>3. ASSUME Elems(w) \subseteq Entry(Grown(N)) PROVE t \in Seq(Entry(Grown(N)))
  <2>1. ASSUME NEW x \in Elems(t) PROVE x \in Entry(Grown(N))
    <3>1. CASE x \in Elems(w)
      BY <1>3, <3>1
    <3>2. ASSUME NEW j \in 1 .. Len(p), j # q, j # q + 1, x = p[j] PROVE x \in Entry(Grown(N))
      <4>1. p[j] \in Entry(Fans(N))
        BY ElementOfSeq
      <4>2. p[j].key \in Keys /\ p[j] = [key |-> p[j].key, node |-> p[j].node]
        BY <4>1, EntryIs
      <4>3. p[j].node \in Grown(N)
        BY <3>2
      <4> QED BY <3>2, <4>2, <4>3 DEF Entry
    <3> QED BY <1>2, <3>1, <3>2
  <2> QED BY <1>1, <2>1, SeqOver
<1>4. ASSUME Len(p) = 2, Elems(w) \subseteq Entry(Wide(N)) PROVE t \in Seq(Entry(Wide(N)))
  <2>1. q = 1 /\ \A j \in 1 .. Len(p) : j = q \/ j = q + 1
    BY <1>4
  <2>2. Elems(t) \subseteq Entry(Wide(N))
    BY <1>2, <1>4, <2>1
  <2> QED BY <1>1, <2>2, SeqOver
<1> QED BY <1>3, <1>4

\* How large two nodes are together, of which one is underfull.
LEMMA Together ==
  ASSUME NEW d \in Nat, d >= 2, NEW m \in d - 1 .. d, NEW n \in d .. 2 * d + 1
  PROVE  /\ m + n \in 2 .. 3 * d + 1 /\ n + m = m + n
         /\ n <= d + 1 => m + n \in d .. 2 * d + 1
<1>1. m \in Int /\ n \in Int /\ m >= d - 1 /\ m <= d /\ n >= d /\ n <= 2 * d + 1
  OBVIOUS
<1> QED BY <1>1

\* InnerNode::remove of a child that is underfull.
LEMMA RebalanceIs ==
  ASSUME NEW N, Layer(N), Degree >= 2, NEW p \in Seq(Entry(Fans(N))), Fan(p), Len(p) >= 2,
         NEW pIsRoot \in BOOLEAN, NEW i \in 1 .. Len(p),
         \A j \in 1 .. Len(p) : j # i => p[j].node \in Grown(N),
         Len(p[i].node.es) \in Degree - 1 .. Degree
  PROVE  Restored(N, p, pIsRoot, i, Rebalance(p, pIsRoot, i))
<1> DEFINE left      == i > 1
           right     == i < Len(p)
           case6     == pIsRoot /\ Len(p) = 2
           takeRight == ~case6 /\ right /\ Spare(p[i + 1].node.es)
           takeLeft  == ~case6 /\ ~takeRight /\ left /\ Spare(p[i - 1].node.es)
           intoLeft  == left /\ (case6 \/ ~right)
           b         == Rebalance(p, pIsRoot, i)
           fed(t)    == [p |-> t, gone |-> FALSE, ok |-> TRUE]
           merged(t) == [p |-> t, gone |-> TRUE, ok |-> TRUE]
<1>1. /\ takeRight => b = fed(RedistributeRight(p, i))
      /\ takeLeft => b = fed(RedistributeLeft(p, i))
      /\ ~takeRight /\ ~takeLeft /\ intoLeft => b = merged(MergeLeft(p, i))
      /\ ~takeRight /\ ~takeLeft /\ ~intoLeft /\ right => b = merged(MergeRight(p, i))
  BY DEF Rebalance
<1>2. Len(p) \in Nat /\ Degree \in Nat /\ (left \/ right)
  BY LenProperties, DegreeAssumption
<1>3. ASSUME NEW j \in 1 .. Len(p), j # i
      PROVE  /\ p[j].node.es \in Seq(Entry(N)) /\ Len(p[j].node.es) \in Degree .. 2 * Degree + 1
             /\ Len(p[j].node.es) \in Nat
  <2>1. p[j].node \in Grown(N)
    BY <1>3
  <2>2. p[j].node \in Fans(N) /\ Sized(p[j].node.es)
    BY <2>1 DEF Grown
  <2>3. p[j].node.es \in Seq(Entry(N))
    BY <2>2, FansSound
  <2> QED BY <2>2, <2>3, LenProperties DEF Sized
<1>4. Len(p[i].node.es) \in Nat
  BY <1>2
<1> HIDE DEF b
<1>5. ASSUME NEW x \in Entry(Fans(N)), Sized(x.node.es) PROVE x \in Entry(Grown(N))
  <2>1. x.key \in Keys /\ x.node \in Fans(N) /\ x = [key |-> x.key, node |-> x.node]
    BY EntryIs
  <2>2. x.node \in Grown(N)
    BY <1>5, <2>1 DEF Grown
  <2> QED BY <2>1, <2>2 DEF Entry
<1>6. ASSUME NEW q \in 1 .. Len(p) - 1, i \in {q, q + 1}, NEW t,
             NEW d \in Entry(Fans(N)), NEW g \in Entry(Fans(N)),
             Regrouped(Fans(N), p, q, <<d, g>>, t), Sized(d.node.es), Sized(g.node.es),
             b = fed(t)
      PROVE  Restored(N, p, pIsRoot, i, b)
  <2> DEFINE w == <<d, g>>
  <2>1. Len(w) = 2 /\ Elems(w) = {d, g}
    BY FanTwo
  <2>2. Regrouped(Fans(N), p, q, w, t)
    BY <1>6
  <2> HIDE DEF w
  <2>3. /\ t \in Seq(Entry(Fans(N))) /\ Fan(t) /\ Held(t) = Held(p) /\ Under(t) = Under(p)
        /\ Len(t) = Len(p) - 2 + Len(w)
        /\ \A x \in Elems(t) : p[1].key <= x.key
    BY <2>2 DEF Regrouped
  <2>4. Elems(w) \subseteq Entry(Grown(N))
    BY <1>5, <1>6, <2>1
  <2>5. t \in Seq(Entry(Grown(N)))
    BY <1>6, <2>2, <2>4, RegroupedOver
  <2>6. Len(t) = Len(p)
    BY <1>2, <2>1, <2>3
  <2>7. b.ok /\ ~b.gone /\ b.p = t
    BY <1>6
  <2>8. Rest(b, i) = t
    BY <2>7 DEF Rest
  <2> QED BY <2>3, <2>5, <2>6, <2>7, <2>8 DEF Restored
<1>7. ASSUME NEW q \in 1 .. Len(p) - 1, i \in {q, q + 1}, NEW u, Len(u) = Len(p), NEW g \in Entry(Fans(N)),
             Regrouped(Fans(N), p, q, <<g>>, RemoveAt(u, i)), b = merged(u),
             Sized(g.node.es) \/ (case6 /\ Len(g.node.es) \in 2 .. 3 * Degree + 1)
      PROVE  Restored(N, p, pIsRoot, i, b)
  <2> DEFINE w == <<g>>
             t == RemoveAt(u, i)
  <2>1. Len(w) = 1 /\ Elems(w) = {g}
    BY FanOne
  <2>2. Regrouped(Fans(N), p, q, w, t)
    BY <1>7
  <2>3. b.ok /\ b.gone /\ b.p = u
    BY <1>7
  <2>4. Rest(b, i) = t
    BY <2>3 DEF Rest
  <2> HIDE DEF w, t
  <2>5. /\ t \in Seq(Entry(Fans(N))) /\ Fan(t) /\ Held(t) = Held(p) /\ Under(t) = Under(p)
        /\ Len(t) = Len(p) - 2 + Len(w)
        /\ \A x \in Elems(t) : p[1].key <= x.key
    BY <2>2 DEF Regrouped
  <2>6. Len(t) = Len(p) - 1
    BY <1>2, <2>1, <2>5
  <2>7. t \in Seq(Entry(Grown(N))) \/ (case6 /\ t \in Seq(Entry(Wide(N))))
    <3>1. CASE Sized(g.node.es)
      <4>1. Elems(w) \subseteq Entry(Grown(N))
        BY <1>5, <2>1, <3>1
      <4> QED BY <1>7, <2>2, <4>1, RegroupedOver
    <3>2. CASE case6 /\ Len(g.node.es) \in 2 .. 3 * Degree + 1
      <4>1. g.key \in Keys /\ g.node \in Fans(N) /\ g = [key |-> g.key, node |-> g.node]
        BY EntryIs
      <4>2. g.node \in Wide(N)
        BY <3>2, <4>1 DEF Wide
      <4>3. g \in Entry(Wide(N))
        BY <4>1, <4>2 DEF Entry
      <4>4. Elems(w) \subseteq Entry(Wide(N))
        BY <2>1, <4>3
      <4> QED BY <1>7, <2>2, <3>2, <4>4, RegroupedOver
    <3> QED BY <1>7, <3>1, <3>2
  <2> QED BY <1>7, <2>3, <2>4, <2>5, <2>6, <2>7 DEF Restored
<1>8. ASSUME takeRight PROVE Restored(N, p, pIsRoot, i, b)
  <2>1. i \in 1 .. Len(p) - 1 /\ i + 1 \in 1 .. Len(p) /\ i + 1 # i
    BY <1>2, <1>8
  <2>2. Len(p[i + 1].node.es) > Degree + 1 /\ Len(p[i + 1].node.es) \in Degree .. 2 * Degree + 1
    BY <1>3, <1>8, <2>1 DEF Spare
  <2>3. Len(p[i + 1].node.es) >= 2
    BY <1>2, <2>2
  <2>4. PICK d, g \in Entry(Fans(N)) :
           /\ Regrouped(Fans(N), p, i, <<d, g>>, RedistributeRight(p, i))
           /\ Len(d.node.es) = Len(p[i].node.es) + 1
           /\ Len(g.node.es) = Len(p[i + 1].node.es) - 1
    BY <2>1, <2>3, RedistributeRightIs
  <2>5. Sized(d.node.es) /\ Sized(g.node.es)
    BY <1>2, <1>4, <2>2, <2>4 DEF Sized
  <2>6. b = fed(RedistributeRight(p, i))
    BY <1>1, <1>8
  <2> HIDE DEF takeRight, fed
  <2>7. i \in {i, i + 1}
    OBVIOUS
  <2> QED BY <1>6, <2>1, <2>4, <2>5, <2>6, <2>7
<1>9. ASSUME takeLeft PROVE Restored(N, p, pIsRoot, i, b)
  <2>1. i - 1 \in 1 .. Len(p) - 1 /\ i - 1 \in 1 .. Len(p) /\ i - 1 # i /\ (i - 1) + 1 = i
    BY <1>2, <1>9
  <2>2. Len(p[i - 1].node.es) > Degree + 1 /\ Len(p[i - 1].node.es) \in Degree .. 2 * Degree + 1
    BY <1>3, <1>9, <2>1 DEF Spare
  <2>3. Len(p[i - 1].node.es) >= 2
    BY <1>2, <2>2
  <2>4. PICK d, g \in Entry(Fans(N)) :
           /\ Regrouped(Fans(N), p, i - 1, <<d, g>>, RedistributeLeft(p, (i - 1) + 1))
           /\ Len(d.node.es) = Len(p[i - 1].node.es) - 1
           /\ Len(g.node.es) = Len(p[(i - 1) + 1].node.es) + 1
    BY <2>1, <2>3, RedistributeLeftIs
  <2>5. Sized(d.node.es) /\ Sized(g.node.es)
    BY <1>2, <1>4, <2>1, <2>2, <2>4 DEF Sized
  <2>6. b = fed(RedistributeLeft(p, i))
    BY <1>1, <1>9
  <2> HIDE DEF takeLeft, fed
  <2>7. i \in {i - 1, (i - 1) + 1}
    BY <2>1
  <2> QED BY <1>6, <2>1, <2>4, <2>5, <2>6, <2>7
<1>10. ASSUME ~takeRight /\ ~takeLeft /\ intoLeft PROVE Restored(N, p, pIsRoot, i, b)
  <2>1. i - 1 \in 1 .. Len(p) - 1 /\ i - 1 \in 1 .. Len(p) /\ i - 1 # i /\ (i - 1) + 1 = i
    BY <1>2, <1>10
  <2>2. PICK g \in Entry(Fans(N)) :
           /\ Regrouped(Fans(N), p, i - 1, <<g>>, RemoveAt(MergeLeft(p, (i - 1) + 1), (i - 1) + 1))
           /\ Len(MergeLeft(p, (i - 1) + 1)) = Len(p)
           /\ Len(g.node.es) = Len(p[i - 1].node.es) + Len(p[(i - 1) + 1].node.es)
    BY <2>1, MergeIs
  <2>3. Len(p[i - 1].node.es) \in Degree .. 2 * Degree + 1
    BY <1>3, <2>1
  <2>4. ~case6 => Len(p[i - 1].node.es) <= Degree + 1
    BY <1>2, <1>10, <2>3 DEF Spare
  <2>5. Sized(g.node.es) \/ (case6 /\ Len(g.node.es) \in 2 .. 3 * Degree + 1)
    <3>1. Len(g.node.es) = Len(p[i - 1].node.es) + Len(p[i].node.es)
      BY <2>1, <2>2
    <3> DEFINE m == Len(p[i].node.es)
               n == Len(p[i - 1].node.es)
    <3>2. m \in Degree - 1 .. Degree /\ n \in Degree .. 2 * Degree + 1
      BY <2>3
    <3> HIDE DEF m, n
    <3>3. /\ m + n \in 2 .. 3 * Degree + 1 /\ n + m = m + n
          /\ n <= Degree + 1 => m + n \in Degree .. 2 * Degree + 1
      BY <1>2, <3>2, Together
    <3>4. Len(g.node.es) = m + n
      BY <3>1, <3>3 DEF m, n
    <3>5. ~case6 => n <= Degree + 1
      BY <2>4 DEF n
    <3> QED BY <3>3, <3>4, <3>5 DEF Sized
  <2>6. b = merged(MergeLeft(p, i))
    BY <1>1, <1>10
  <2> HIDE DEF takeRight, takeLeft, intoLeft, merged
  <2>7. i \in {i - 1, (i - 1) + 1}
    BY <2>1
  <2> QED BY <1>7, <2>1, <2>2, <2>5, <2>6, <2>7
<1>11. ASSUME ~takeRight /\ ~takeLeft /\ ~intoLeft /\ right PROVE Restored(N, p, pIsRoot, i, b)
  <2>1. i \in 1 .. Len(p) - 1 /\ i + 1 \in 1 .. Len(p) /\ i + 1 # i
    BY <1>2, <1>11
  <2>2. PICK g \in Entry(Fans(N)) :
           /\ Regrouped(Fans(N), p, i, <<g>>, RemoveAt(MergeRight(p, i), i))
           /\ Len(MergeRight(p, i)) = Len(p)
           /\ Len(g.node.es) = Len(p[i].node.es) + Len(p[i + 1].node.es)
    BY <2>1, MergeIs
  <2>3. Len(p[i + 1].node.es) \in Degree .. 2 * Degree + 1
    BY <1>3, <2>1
  <2>4. ~case6 => Len(p[i + 1].node.es) <= Degree + 1
    BY <1>2, <1>11, <2>3 DEF Spare
  <2>5. Sized(g.node.es) \/ (case6 /\ Len(g.node.es) \in 2 .. 3 * Degree + 1)
    <3> DEFINE m == Len(p[i].node.es)
               n == Len(p[i + 1].node.es)
    <3>2. m \in Degree - 1 .. Degree /\ n \in Degree .. 2 * Degree + 1
      BY <2>3
    <3> HIDE DEF m, n
    <3>3. /\ m + n \in 2 .. 3 * Degree + 1 /\ n + m = m + n
          /\ n <= Degree + 1 => m + n \in Degree .. 2 * Degree + 1
      BY <1>2, <3>2, Together
    <3>4. Len(g.node.es) = m + n
      BY <2>2, <3>3 DEF m, n
    <3>5. ~case6 => n <= Degree + 1
      BY <2>4 DEF n
    <3> QED BY <3>3, <3>4, <3>5 DEF Sized
  <2>6. b = merged(MergeRight(p, i))
    BY <1>1, <1>11
  <2> HIDE DEF takeRight, takeLeft, intoLeft, merged
  <2>7. i \in {i, i + 1}
    OBVIOUS
  <2> QED BY <1>7, <2>1, <2>2, <2>5, <2>6, <2>7
<1>12. takeRight \/ takeLeft \/ (~takeRight /\ ~takeLeft /\ intoLeft) \/ (~takeRight /\ ~takeLeft /\ ~intoLeft /\ right)
  BY <1>2
<1> QED
  <2> HIDE DEF takeRight, takeLeft, intoLeft, right
  <2> QED BY <1>8, <1>9, <1>10, <1>11, <1>12 DEF b
-----------------------------------------------------------------------------
\* One child replaced by another that holds no other keys.
Replaced(M, p, i, x, t) ==
  /\ t \in Seq(Entry(M)) /\ Fan(t) /\ Len(t) = Len(p)
  /\ t[i] = [key |-> p[i].key, node |-> x]
  /\ \A j \in 1 .. Len(p) : j # i => t[j] = p[j]
  /\ \A y \in Elems(t) : p[1].key <= y.key

LEMMA ReplaceChild ==
  ASSUME NEW M, Sounds(M), NEW p \in Seq(Entry(M)), Fan(p), NEW i \in 1 .. Len(p),
         NEW x \in M, KeysOf(x) \subseteq KeysOf(p[i].node), p[i].key <= MinKey(x),
         NEW t, IsPut(t, p, i, x)
  PROVE  Replaced(M, p, i, x, t)
<1>1. /\ t \in Seq(Entry(M)) /\ Len(t) = Len(p)
      /\ t[i] = [key |-> p[i].key, node |-> x]
      /\ \A j \in 1 .. Len(p) : j # i => t[j] = p[j]
  BY PutNode
<1>2. t[i].key = p[i].key /\ t[i].node = x
  BY <1>1
<1>3. \A j \in 1 .. Len(p) : t[j].key = p[j].key /\ KeysOf(t[j].node) \subseteq KeysOf(p[j].node)
  BY <1>1, <1>2
<1>4. Fan(t)
  <2>1. ASSUME NEW j \in 1 .. Len(p) PROVE t[j].key <= MinKey(t[j].node)
    <3>1. CASE j = i
      BY <1>2, <3>1
    <3>2. CASE j # i
      BY <1>1, <3>2 DEF Fan
    <3> QED BY <3>1, <3>2
  <2>2. ASSUME NEW a \in 1 .. Len(p), NEW b \in 1 .. Len(p), a < b PROVE Before(t[a], t[b])
    <3>1. Before(p[a], p[b])
      BY <2>2 DEF Fan
    <3> QED BY <1>3, <3>1 DEF Before
  <2> QED BY <1>1, <2>1, <2>2 DEF Fan
<1>5. ASSUME NEW y \in Elems(t) PROVE p[1].key <= y.key
  <2>1. PICK j \in 1 .. Len(p) : y = t[j]
    BY <1>1 DEF Elems
  <2>2. y.key = p[j].key /\ p[j] \in Elems(p)
    BY <1>3, <2>1 DEF Elems
  <2> QED BY <2>2, FirstLeast
<1> QED BY <1>1, <1>4, <1>5 DEF Replaced

\* What the nodes hold then.
LEMMA ReplacedHeld ==
  ASSUME NEW M, NEW p \in Seq(Entry(M)), NEW i \in 1 .. Len(p), NEW x, NEW t, Replaced(M, p, i, x, t)
  PROVE  /\ Entries(x) \subseteq Held(t)
         /\ \A j \in 1 .. Len(p) : j # i => Entries(p[j].node) \subseteq Held(t)
         /\ \A y \in Held(t) : y \in Entries(x) \/ \E j \in 1 .. Len(p) : j # i /\ y \in Entries(p[j].node)
<1>1. /\ Len(t) = Len(p) /\ t[i] = [key |-> p[i].key, node |-> x]
      /\ \A j \in 1 .. Len(p) : j # i => t[j] = p[j]
  BY DEF Replaced
<1>2. t[i].node = x /\ \A j \in 1 .. Len(p) : t[j] \in Elems(t)
  BY <1>1 DEF Elems
<1>3. Entries(x) \subseteq Held(t)
  BY <1>2 DEF Held
<1>4. ASSUME NEW j \in 1 .. Len(p), j # i PROVE Entries(p[j].node) \subseteq Held(t)
  BY <1>1, <1>2, <1>4 DEF Held
<1>5. ASSUME NEW y \in Held(t)
      PROVE  y \in Entries(x) \/ \E j \in 1 .. Len(p) : j # i /\ y \in Entries(p[j].node)
  <2>1. PICK j \in 1 .. Len(p) : y \in Entries(t[j].node)
    BY <1>1 DEF Held, Elems
  <2> QED BY <1>1, <1>2, <2>1
<1> QED BY <1>3, <1>4, <1>5

\* The pairs E but the one for k.
Without(E, k) == {x \in E : x[1] # k}

\* The child that may hold k is replaced by one without it.
LEMMA HeldWithout ==
  ASSUME NEW M, Sounds(M), NEW p \in Seq(Entry(M)), Fan(p), NEW k \in Keys,
         NEW i \in 1 .. Len(p), i = FindIndex(p, k), NEW x, NEW t, Replaced(M, p, i, x, t),
         Entries(x) = Without(Entries(p[i].node), k)
  PROVE  /\ Held(t) = Without(Held(p), k)
         /\ (\E y \in Held(p) : y[1] = k) <=> \E y \in Entries(p[i].node) : y[1] = k
<1>1. \A j \in 1 .. Len(p) : j # i => \A y \in Entries(p[j].node) : y[1] # k
  <2> SUFFICES ASSUME NEW j \in 1 .. Len(p), j # FindIndex(p, k)
               PROVE  \A y \in Entries(p[j].node) : y[1] # k
    OBVIOUS
  <2> QED BY OnlyThere
<1>2. \A j \in 1 .. Len(p) : Entries(p[j].node) \subseteq Held(p)
  BY DEF Held, Elems
<1>3. \A y \in Held(p) : \E j \in 1 .. Len(p) : y \in Entries(p[j].node)
  BY DEF Held, Elems
<1>4. /\ Entries(x) \subseteq Held(t)
      /\ \A j \in 1 .. Len(p) : j # i => Entries(p[j].node) \subseteq Held(t)
      /\ \A y \in Held(t) : y \in Entries(x) \/ \E j \in 1 .. Len(p) : j # i /\ y \in Entries(p[j].node)
  BY ReplacedHeld
<1> HIDE DEF Replaced
<1>5. ASSUME NEW y \in Held(t) PROVE y \in Without(Held(p), k)
  BY <1>1, <1>2, <1>4 DEF Without
<1>6. ASSUME NEW y \in Without(Held(p), k) PROVE y \in Held(t)
  <2>1. PICK j \in 1 .. Len(p) : y \in Entries(p[j].node)
    BY <1>3 DEF Without
  <2>2. CASE j = i
    BY <1>4, <2>1, <2>2 DEF Without
  <2>3. CASE j # i
    BY <1>4, <2>1, <2>3
  <2> QED BY <2>2, <2>3
<1>7. (\E y \in Held(p) : y[1] = k) <=> \E y \in Entries(p[i].node) : y[1] = k
  BY <1>1, <1>2, <1>3
<1> QED BY <1>5, <1>6, <1>7

\* What remove of k from a node with entries es does to them: r is the result of
\* the call on the child that findIndex finds.
Removed(N, es, k, r) ==
  LET t == Rest(r, FindIndex(es, k))
  IN /\ Len(r.p) = Len(es)
     /\ t \in Seq(Entry(N)) /\ Fan(t)
     /\ Len(t) = IF r.gone THEN Len(es) - 1 ELSE Len(es)
     /\ Held(t) = Without(Held(es), k) /\ Edited(Under(es), Under(t))
     /\ r.removed <=> \E x \in Held(es) : x[1] = k
     /\ r.removed \in BOOLEAN
     /\ \A x \in Elems(t) : es[1].key <= x.key

\* The first separator is refreshed.
LEMMA RefreshIs ==
  ASSUME NEW N, Sounds(N), NEW s \in Seq(Entry(N)), s # <<>>, Fan(s)
  PROVE  /\ RefreshFirst(s) \in Seq(Entry(N)) /\ Fan(RefreshFirst(s))
         /\ Len(RefreshFirst(s)) = Len(s) /\ Held(RefreshFirst(s)) = Held(s)
         /\ Under(RefreshFirst(s)) = Under(s)
         /\ s[1].key <= RefreshFirst(s)[1].key
<1> DEFINE t == RefreshFirst(s)
<1>0. Len(s) \in Nat /\ Len(s) >= 1 /\ 1 \in 1 .. Len(s)
  BY EmptySeq, LenProperties
<1>1. s[1] \in Entry(N) /\ s[1].node \in N /\ s[1].key <= MinKey(s[1].node)
  BY <1>0, ElementOfSeq, EntryIs DEF Fan
<1>2. MinKey(s[1].node) \in Keys /\ \A k \in KeysOf(s[1].node) : MinKey(s[1].node) <= k
  BY <1>1 DEF Sounds, Sound
<1>3. /\ t \in Seq(Entry(N)) /\ Len(t) = Len(s)
      /\ t[1] = [key |-> MinKey(s[1].node), node |-> s[1].node]
      /\ \A j \in 1 .. Len(s) : j # 1 => t[j] = s[j]
  BY <1>2, Refresh
<1> HIDE DEF t
<1>4. MinKey(s[1].node) <= MinKey(s[1].node)
  <2>1. Keys \subseteq Nat
    BY TreeAssumption DEF TreeAssumption
  <2> DEFINE m == MinKey(s[1].node)
  <2>2. m \in Nat
    BY <1>2, <2>1
  <2> HIDE DEF m
  <2>3. m <= m
    BY <2>2
  <2> QED BY <2>3 DEF m
<1>5. t[1].key = MinKey(s[1].node) /\ \A j \in 1 .. Len(s) : t[j].node = s[j].node
  BY <1>0, <1>3
<1>6. Fan(t)
  <2>1. ASSUME NEW j \in 1 .. Len(s) PROVE t[j].key <= MinKey(t[j].node)
    <3>1. CASE j = 1
      BY <1>4, <1>5, <3>1
    <3>2. CASE j # 1
      BY <1>3, <3>2 DEF Fan
    <3> QED BY <3>1, <3>2
  <2>2. ASSUME NEW a \in 1 .. Len(s), NEW b \in 1 .. Len(s), a < b PROVE Before(t[a], t[b])
    <3>1. Before(s[a], s[b]) /\ b # 1
      BY <1>0, <2>2 DEF Fan
    <3>2. t[b] = s[b] /\ t[a].node = s[a].node
      BY <1>3, <1>5, <3>1
    <3> QED BY <3>1, <3>2 DEF Before
  <2> QED BY <1>3, <2>1, <2>2 DEF Fan
<1>8. Under(t) = Under(s)
  <2>1. ASSUME NEW y PROVE y \in Under(t) <=> \E j \in 1 .. Len(s) : y \in Bottom(t[j].node)
    BY <1>3 DEF Under, Elems
  <2>2. ASSUME NEW y PROVE y \in Under(s) <=> \E j \in 1 .. Len(s) : y \in Bottom(s[j].node)
    BY DEF Under, Elems
  <2> QED BY <1>5, <2>1, <2>2
<1>7. Held(t) = Held(s)
  <2>1. ASSUME NEW y PROVE y \in Held(t) <=> \E j \in 1 .. Len(s) : y \in Entries(t[j].node)
    BY <1>3 DEF Held, Elems
  <2>2. ASSUME NEW y PROVE y \in Held(s) <=> \E j \in 1 .. Len(s) : y \in Entries(s[j].node)
    BY DEF Held, Elems
  <2> QED BY <1>5, <2>1, <2>2
<1> QED BY <1>1, <1>3, <1>5, <1>6, <1>7, <1>8 DEF t

\* One level of remove.  The nodes of p are of the size that nodes have under
\* another; case 6 of a root leaves it with one child, in which the two it had
\* are merged.
LEMMA RemoveStepIs ==
  ASSUME NEW N, Layer(N), Degree >= 2, NEW p \in Seq(Entry(Grown(N))), Fan(p), Len(p) >= 2,
         NEW pIsRoot \in BOOLEAN, NEW k \in Keys, NEW i \in 1 .. Len(p), i = FindIndex(p, k),
         NEW r, FindIndex(p[i].node.es, k) # 0 => Removed(N, p[i].node.es, k, r)
  PROVE  LET R == RemoveStep(p, pIsRoot, i, k, r)
         IN \/ Removed(Grown(N), p, k, R)
            \/ pIsRoot /\ Len(p) = 2 /\ R.gone /\ Removed(Wide(N), p, k, R)
<1> DEFINE M   == Fans(N)
           es  == p[i].node.es
           pos == FindIndex(es, k)
           t   == Rest(r, pos)
           R   == RemoveStep(p, pIsRoot, i, k, r)
           put(node) == [p EXCEPT ![i].node = node]
<1>1. /\ Sounds(N) /\ Sounds(M)
      /\ Degree \in Nat /\ Len(p) \in Nat /\ Keys \subseteq Nat
  BY SoundFans, DegreeAssumption, LenProperties, TreeAssumption DEF Layer, Sounds, TreeAssumption
<1>2. \A j \in 1 .. Len(p) : /\ p[j] \in Entry(Grown(N)) /\ p[j].node \in Grown(N)
                             /\ p[j].key \in Keys /\ p[j].node \in M /\ p[j] \in Entry(M)
  <2> SUFFICES ASSUME NEW j \in 1 .. Len(p)
               PROVE  /\ p[j] \in Entry(Grown(N)) /\ p[j].node \in Grown(N)
                      /\ p[j].key \in Keys /\ p[j].node \in M /\ p[j] \in Entry(M)
    OBVIOUS
  <2>1. p[j] \in Entry(Grown(N))
    BY ElementOfSeq
  <2>2. p[j].key \in Keys /\ p[j].node \in Grown(N) /\ p[j] = [key |-> p[j].key, node |-> p[j].node]
    BY <2>1, EntryIs
  <2> QED BY <2>1, <2>2 DEF Entry, Grown
<1>3. p \in Seq(Entry(M))
  BY <1>2, SeqOver DEF Elems
<1>4. /\ p[i].node \in M /\ Sized(es) /\ es \in Seq(Entry(N)) /\ es # <<>> /\ Fan(es)
      /\ Entries(p[i].node) = Held(es) /\ MinKey(p[i].node) = es[1].key
      /\ Bottom(p[i].node) = Under(es)
      /\ p[i].key <= es[1].key /\ Len(es) \in Nat
  <2>1. p[i].node \in M /\ Sized(es)
    BY <1>2 DEF Grown
  <2>2. p[i].key <= MinKey(p[i].node)
    BY DEF Fan
  <2>3. /\ es \in Seq(Entry(N)) /\ es # <<>> /\ Fan(es)
        /\ Entries(p[i].node) = Held(es) /\ MinKey(p[i].node) = es[1].key
        /\ Bottom(p[i].node) = Under(es)
    BY <2>1, FansSound
  <2> QED BY <2>1, <2>2, <2>3, LenProperties
<1>5. \A j \in 1 .. Len(es) : es[j].key \in Nat
  BY <1>1, <1>4, ElementOfSeq, EntryIs
<1>6. /\ pos = 0 => R = [p |-> p, removed |-> FALSE, gone |-> FALSE]
      /\ pos # 0 /\ ~r.gone =>
           R = [p |-> put(Inner(RefreshFirst(r.p))), removed |-> r.removed, gone |-> FALSE]
      /\ pos # 0 /\ r.gone /\ ~Underfull(RemoveAt(r.p, pos)) =>
           R = [p |-> put(Inner(RemoveAt(r.p, pos))), removed |-> r.removed, gone |-> FALSE]
      /\ pos # 0 /\ r.gone /\ Underfull(RemoveAt(r.p, pos)) =>
           LET b == Rebalance(put(Inner(RemoveAt(r.p, pos))), pIsRoot, i)
           IN R = [p |-> b.p, removed |-> r.removed /\ b.ok, gone |-> b.gone]
  BY DEF RemoveStep, RemoveChild
<1>7. pos \in 0 .. Len(es)
  BY <1>1, <1>4, FindIndexIs
<1> HIDE DEF R
\* A child that does not hold k.
<1>8. CASE pos = 0
  <2>1. ASSUME NEW y \in Held(es) PROVE y[1] # k
    <3>1. PICK j \in 1 .. Len(es) : y \in Entries(es[j].node)
      BY DEF Held, Elems
    <3>2. j # FindIndex(es, k)
      BY <1>8
    <3> QED BY <1>1, <1>4, <3>1, <3>2, OnlyThere
  <2>2. ASSUME NEW y \in Held(p) PROVE y[1] # k
    <3>1. PICK j \in 1 .. Len(p) : y \in Entries(p[j].node)
      BY DEF Held, Elems
    <3>2. CASE j = i
      BY <1>4, <2>1, <3>1, <3>2
    <3>3. CASE j # FindIndex(p, k)
      BY <1>1, <1>3, <3>1, <3>3, OnlyThere
    <3> QED BY <3>2, <3>3
  <2>3. Held(p) = Without(Held(p), k)
    BY <2>2 DEF Without
  <2>4. R.p = p /\ R.removed = FALSE /\ R.gone = FALSE
    BY <1>6, <1>8
  <2>5. Rest(R, i) = p
    BY <2>4 DEF Rest
  <2>6. \A x \in Elems(p) : p[1].key <= x.key
    BY <1>1, <1>3, FirstLeast
  <2>7. Removed(Grown(N), p, k, R)
    BY <2>2, <2>3, <2>4, <2>5, <2>6 DEF Removed, Edited
  <2> QED BY <2>7 DEF R
<1>9. CASE pos # 0
  <2>0. /\ Len(r.p) = Len(es)
        /\ t \in Seq(Entry(N)) /\ Fan(t)
        /\ Len(t) = IF r.gone THEN Len(es) - 1 ELSE Len(es)
        /\ Held(t) = Without(Held(es), k) /\ Edited(Under(es), Under(t))
        /\ r.removed <=> \E x \in Held(es) : x[1] = k
        /\ r.removed \in BOOLEAN
        /\ \A x \in Elems(t) : es[1].key <= x.key
    BY <1>9 DEF Removed
  <2> HIDE DEF t
  <2>1. t # <<>> /\ Len(t) \in Nat /\ Len(t) >= 1
    <3>1. Len(t) >= 1
      BY <1>1, <1>4, <2>0 DEF Sized
    <3> QED BY <2>0, <3>1, EmptySeq, LenProperties
  <2>2. t[1] \in Entry(N) /\ t[1].key \in Nat /\ es[1].key <= t[1].key
    <3>1. 1 \in 1 .. Len(t) /\ t[1] \in Elems(t)
      BY <2>1 DEF Elems
    <3> QED BY <1>1, <2>0, <3>1, ElementOfSeq, EntryIs
  <2>3. p[i].key \in Nat /\ es[1].key \in Nat
    <3>1. 1 \in 1 .. Len(es)
      BY <1>4, EmptySeq
    <3> QED BY <1>1, <1>2, <1>5, <3>1
  \* The entries u of the node are put in its place.
  <2>4. ASSUME NEW u \in Seq(Entry(N)), u # <<>>, Fan(u), Held(u) = Held(t), t[1].key <= u[1].key,
               Under(u) = Under(t), NEW q, IsPut(q, p, i, Inner(u))
        PROVE  /\ Replaced(M, p, i, Inner(u), q) /\ Inner(u) \in M /\ Inner(u).es = u
               /\ Held(q) = Without(Held(p), k) /\ Edited(Under(p), Under(q))
               /\ (\E y \in Held(p) : y[1] = k) <=> \E y \in Held(es) : y[1] = k
    <3>1. /\ Inner(u) \in M /\ Inner(u).es = u /\ Entries(Inner(u)) = Held(u) /\ MinKey(Inner(u)) = u[1].key
          /\ Bottom(Inner(u)) = Under(u)
      BY <2>4, FansIntro
    <3>2. u[1].key \in Nat
      BY <2>4, EmptySeq, ElementOfSeq, EntryIs
    <3>3. p[i].key <= MinKey(Inner(u))
      BY <1>4, <2>2, <2>3, <2>4, <3>1, <3>2
    <3>4. Entries(Inner(u)) = Without(Entries(p[i].node), k)
      BY <1>4, <2>0, <2>4, <3>1
    <3>5. KeysOf(Inner(u)) \subseteq KeysOf(p[i].node)
      <4>1. KeysOf(Inner(u)) = {x[1] : x \in Entries(Inner(u))} /\ KeysOf(p[i].node) = {x[1] : x \in Entries(p[i].node)}
        BY <1>1, <1>4, <3>1 DEF Sounds, Sound
      <4> QED BY <3>4, <4>1 DEF Without
    <3>6. Replaced(M, p, i, Inner(u), q)
      BY <1>1, <1>3, <2>4, <3>1, <3>3, <3>5, ReplaceChild
    <3>7. /\ Held(q) = Without(Held(p), k)
          /\ (\E y \in Held(p) : y[1] = k) <=> \E y \in Entries(p[i].node) : y[1] = k
      BY <1>1, <1>3, <3>4, <3>6, HeldWithout
    <3>8. Edited(Under(p), Under(q))
      <4>1. /\ Len(q) = Len(p) /\ q[i].node = Inner(u)
            /\ \A j \in 1 .. Len(p) : j # i => q[j].node = p[j].node
        BY <3>6 DEF Replaced
      <4>2. Edited(Bottom(p[i].node), Bottom(q[i].node) \cup {})
        BY <1>4, <2>0, <2>4, <3>1, <4>1
      <4>3. Edited(Under(p), Under(q) \cup {})
        BY <1>1, <4>1, <4>2, EditedUnder
      <4> QED BY <4>3
    <3> QED BY <1>4, <3>1, <3>6, <3>7, <3>8
  \* With the node the right size.
  <2>5. ASSUME NEW u \in Seq(Entry(N)), u # <<>>, Fan(u), Held(u) = Held(t), t[1].key <= u[1].key,
               Under(u) = Under(t), Sized(u), R = [p |-> put(Inner(u)), removed |-> r.removed, gone |-> FALSE]
        PROVE  Removed(Grown(N), p, k, R)
    <3> DEFINE q == put(Inner(u))
    <3>1. IsPut(q, p, i, Inner(u)) /\ R.p = q /\ R.removed = r.removed /\ R.gone = FALSE
      BY <2>5 DEF IsPut
    <3> HIDE DEF q
    <3>2. /\ Replaced(M, p, i, Inner(u), q) /\ Inner(u) \in M /\ Inner(u).es = u
          /\ Held(q) = Without(Held(p), k) /\ Edited(Under(p), Under(q))
          /\ (\E y \in Held(p) : y[1] = k) <=> \E y \in Held(es) : y[1] = k
      BY <2>4, <2>5, <3>1
    <3>3. Rest(R, i) = q
      BY <3>1 DEF Rest
    <3>4. /\ q \in Seq(Entry(M)) /\ Fan(q) /\ Len(q) = Len(p)
          /\ q[i] = [key |-> p[i].key, node |-> Inner(u)]
          /\ \A j \in 1 .. Len(p) : j # i => q[j] = p[j]
          /\ \A y \in Elems(q) : p[1].key <= y.key
      BY <3>2 DEF Replaced
    <3>5. \A j \in 1 .. Len(p) : q[j] \in Entry(Grown(N))
      <4>1. Inner(u) \in Grown(N)
        BY <2>5, <3>2 DEF Grown
      <4>2. q[i] \in Entry(Grown(N))
        BY <1>2, <3>4, <4>1 DEF Entry
      <4> QED BY <1>2, <3>4, <4>2
    <3>6. q \in Seq(Entry(Grown(N)))
      BY <3>4, <3>5, SeqOver DEF Elems
    <3> QED BY <2>0, <3>1, <3>2, <3>3, <3>4, <3>6 DEF Removed
  <2>6. CASE ~r.gone
    <3>1. r.p = t /\ Len(t) = Len(es)
      BY <2>0, <2>6 DEF Rest, t
    <3> DEFINE u == RefreshFirst(t)
    <3>2. /\ u \in Seq(Entry(N)) /\ Fan(u) /\ Len(u) = Len(t) /\ Held(u) = Held(t) /\ t[1].key <= u[1].key
          /\ Under(u) = Under(t)
      BY <1>1, <2>0, <2>1, RefreshIs
    <3>3. R = [p |-> put(Inner(u)), removed |-> r.removed, gone |-> FALSE]
      BY <1>6, <1>9, <2>6, <3>1
    <3> HIDE DEF u
    <3>4. u # <<>> /\ Sized(u)
      BY <1>4, <2>1, <3>1, <3>2, EmptySeq DEF Sized
    <3>5. Removed(Grown(N), p, k, R)
      BY <2>5, <3>2, <3>3, <3>4
    <3> QED BY <3>5 DEF R
  <2>7. CASE r.gone /\ ~Underfull(t)
    <3>1. RemoveAt(r.p, pos) = t /\ Len(t) = Len(es) - 1
      BY <2>0, <2>7 DEF Rest, t
    <3>2. Sized(t)
      BY <1>1, <1>4, <2>7, <3>1 DEF Sized, Underfull
    <3>3. R = [p |-> put(Inner(t)), removed |-> r.removed, gone |-> FALSE]
      BY <1>6, <1>9, <2>7, <3>1
    <3>4. t[1].key <= t[1].key
      BY <2>2
    <3>5. Removed(Grown(N), p, k, R)
      BY <2>0, <2>1, <2>5, <3>2, <3>3, <3>4
    <3> QED BY <3>5 DEF R
  <2>8. CASE r.gone /\ Underfull(t)
    <3>1. RemoveAt(r.p, pos) = t /\ Len(t) = Len(es) - 1
      BY <2>0, <2>8 DEF Rest, t
    <3>2. Len(t) \in Degree - 1 .. Degree
      BY <1>1, <1>4, <2>8, <3>1 DEF Sized, Underfull
    <3> DEFINE q == put(Inner(t))
               b == Rebalance(q, pIsRoot, i)
    <3>3. R = [p |-> b.p, removed |-> r.removed /\ b.ok, gone |-> b.gone]
      BY <1>6, <1>9, <2>8, <3>1
    <3>4. IsPut(q, p, i, Inner(t))
      BY DEF IsPut
    <3> HIDE DEF q
    <3>5. /\ Replaced(M, p, i, Inner(t), q) /\ Inner(t) \in M /\ Inner(t).es = t
          /\ Held(q) = Without(Held(p), k) /\ Edited(Under(p), Under(q))
          /\ (\E y \in Held(p) : y[1] = k) <=> \E y \in Held(es) : y[1] = k
      <4>1. t[1].key <= t[1].key
        BY <2>2
      <4> QED BY <2>0, <2>1, <2>4, <3>4, <4>1
    <3>6. /\ q \in Seq(Entry(M)) /\ Fan(q) /\ Len(q) = Len(p)
          /\ q[i] = [key |-> p[i].key, node |-> Inner(t)]
          /\ \A j \in 1 .. Len(p) : j # i => q[j] = p[j]
          /\ \A y \in Elems(q) : p[1].key <= y.key
      BY <3>5 DEF Replaced
    <3>7. Restored(N, q, pIsRoot, i, b)
      <4>1. \A j \in 1 .. Len(q) : j # i => q[j].node \in Grown(N)
        BY <1>2, <3>6
      <4>2. q[i].node.es = t
        BY <3>5, <3>6
      <4>3. Len(q) >= 2 /\ i \in 1 .. Len(q) /\ Len(q[i].node.es) \in Degree - 1 .. Degree
        BY <3>2, <3>6, <4>2
      <4>4. q \in Seq(Entry(Fans(N))) /\ Fan(q)
        BY <3>6
      <4> HIDE DEF M
      <4> QED BY <4>1, <4>3, <4>4, RebalanceIs
    <3> HIDE DEF b
    <3>8. /\ b.ok
          /\ Len(b.p) = Len(q)
          /\ Rest(b, i) \in Seq(Entry(Fans(N))) /\ Fan(Rest(b, i)) /\ Held(Rest(b, i)) = Held(q)
          /\ Under(Rest(b, i)) = Under(q)
          /\ Len(Rest(b, i)) = IF b.gone THEN Len(q) - 1 ELSE Len(q)
          /\ \A x \in Elems(Rest(b, i)) : q[1].key <= x.key
          /\ \/ Rest(b, i) \in Seq(Entry(Grown(N)))
             \/ pIsRoot /\ Len(q) = 2 /\ b.gone /\ Rest(b, i) \in Seq(Entry(Wide(N)))
      BY <3>7 DEF Restored
    <3>9. Rest(R, i) = Rest(b, i) /\ R.p = b.p /\ R.gone = b.gone /\ (R.removed <=> r.removed) /\ R.removed \in BOOLEAN
      BY <2>0, <3>3, <3>8 DEF Rest
    <3>11. q[1].key = p[1].key
      BY <1>1, <3>6
    <3>12. Removed(Grown(N), p, k, R) \/ (pIsRoot /\ Len(p) = 2 /\ R.gone /\ Removed(Wide(N), p, k, R))
      <4>1. \A S : Rest(R, i) \in Seq(Entry(S)) => Removed(S, p, k, R)
        BY <2>0, <3>5, <3>6, <3>8, <3>9, <3>11 DEF Removed
      <4> QED BY <3>6, <3>8, <3>9, <4>1
    <3> QED BY <3>12 DEF R
  <2> QED BY <2>0, <2>6, <2>7, <2>8
<1> QED BY <1>8, <1>9

\* One level of insert, in a node that is not the root.
LEMMA InsertedIn ==
  ASSUME NEW N, Layer(N), NEW es \in Seq(Entry(N)), Fan(es), Sized(es),
         NEW k \in Keys, NEW v \in Values, NEW r, Inserted(N, es[At(es, k)].node, k, v, r)
  PROVE  Inserted(Grown(N), Inner(es), k, v, InsertStep(es, k, r))
<1> DEFINE R == InsertStep(es, k, r)
<1>1. Sounds(N) /\ Degree \in Nat \ {0} /\ Len(es) \in Nat
  BY DegreeAssumption, LenProperties DEF Layer, Sounds
<1>2. es # <<>>
  BY <1>1, EmptySeq DEF Sized
<1>3. PICK xs, ys \in Seq(Entry(N)) : Grew(N, es, k, v, xs, ys) /\ Halves(R, xs, ys)
  BY <1>1, <1>2, InsertStepIs
<1> HIDE DEF R
<1>4. /\ Fan(xs) /\ Fan(ys) /\ Apart(Elems(xs), Elems(ys)) /\ xs # <<>>
      /\ Held(xs) \cup Held(ys) = Put(Held(es), k, v)
      /\ Edited(Under(es), Under(xs) \cup Under(ys))
      /\ \A m \in Nat : m <= es[1].key /\ m <= k => m <= xs[1].key
      /\ IF ys = <<>> THEN Len(xs) = Len(es) \/ (Len(xs) = Len(es) + 1 /\ Len(es) < 2 * Degree + 1)
         ELSE Len(es) <= 3 * Degree + 1 => Sized(xs) /\ Sized(ys)
  BY <1>3 DEF Grew
<1>5. /\ R.node = Inner(xs)
      /\ R.new = IF ys = <<>> THEN <<>> ELSE <<[key |-> ys[1].key, node |-> Inner(ys)]>>
  BY <1>3 DEF Halves
<1>6. /\ Inner(xs) \in Fans(N) /\ Inner(xs).es = xs
      /\ Entries(Inner(xs)) = Held(xs) /\ MinKey(Inner(xs)) = xs[1].key
      /\ Bottom(Inner(xs)) = Under(xs)
      /\ \A x \in KeysOf(Inner(xs)) : \E z \in Elems(xs) : x \in KeysOf(z.node)
  BY <1>4, FansIntro
<1>7. /\ Entries(Inner(es)) = Held(es) /\ MinKey(Inner(es)) = es[1].key
      /\ Bottom(Inner(es)) = Under(es)
  BY <1>2, FansIntro
<1>8. Len(xs) \in Nat /\ Sized(xs)
  BY <1>1, <1>4, LenProperties DEF Sized
<1>9. Inner(xs) \in Grown(N)
  BY <1>6, <1>8 DEF Grown
<1>10. \A m \in Nat : m <= MinKey(Inner(es)) /\ m <= k => m <= MinKey(R.node)
  BY <1>4, <1>5, <1>6, <1>7
<1>11. CASE ys = <<>>
  <2>1. Held(ys) = {} /\ Under(ys) = {}
    BY <1>11 DEF Held, Under, Elems
  <2>5. Edited(Bottom(Inner(es)), Bottom(R.node))
    BY <1>4, <1>5, <1>6, <1>7, <2>1
  <2>2. Entries(R.node) = Put(Entries(Inner(es)), k, v)
    BY <1>4, <1>5, <1>6, <1>7, <2>1
  <2>3. R.new = <<>>
    BY <1>5, <1>11
  <2>4. Inserted(Grown(N), Inner(es), k, v, R)
    BY <1>5, <1>9, <1>10, <2>2, <2>3, <2>5 DEF Inserted
  <2> QED BY <2>4 DEF R
<1>12. CASE ys # <<>>
  <2> DEFINE e == [key |-> ys[1].key, node |-> Inner(ys)]
  <2>1. Sized(ys)
    BY <1>1, <1>4, <1>12 DEF Sized
  <2>2. /\ Inner(ys) \in Fans(N) /\ Inner(ys).es = ys
        /\ Entries(Inner(ys)) = Held(ys) /\ MinKey(Inner(ys)) = ys[1].key
        /\ Bottom(Inner(ys)) = Under(ys)
    BY <1>4, <1>12, FansIntro
  <2>3. Inner(ys) \in Grown(N)
    BY <2>1, <2>2 DEF Grown
  <2>4. ys[1] \in Entry(N) /\ ys[1].key \in Keys /\ ys[1].key \in Nat /\ ys[1] \in Elems(ys)
    <3>1. 1 \in 1 .. Len(ys)
      BY <1>12, EmptySeq
    <3> QED BY <3>1, ElementOfSeq, EntryIs DEF Elems
  <2>5. e.key = ys[1].key /\ e.node = Inner(ys) /\ e \in Entry(Grown(N))
    BY <2>3, <2>4 DEF Entry
  <2>6. R.new = <<e>>
    BY <1>5, <1>12
  <2> HIDE DEF e
  <2>7. Own(e)
    BY <2>2, <2>4, <2>5 DEF Own
  <2>8. \A x \in KeysOf(R.node) : x < e.key
    BY <1>4, <1>5, <1>6, <2>4, <2>5 DEF Apart, Before
  <2>9. Entries(R.node) \cup Entries(e.node) = Put(Entries(Inner(es)), k, v)
    BY <1>4, <1>5, <1>6, <1>7, <2>2, <2>5
  <2>10. Inserted(Grown(N), Inner(es), k, v, R)
    <3>1. Edited(Bottom(Inner(es)), Bottom(R.node) \cup Bottom(e.node))
      BY <1>4, <1>5, <1>6, <1>7, <2>2, <2>5
    <3> QED BY <1>5, <1>9, <1>10, <2>5, <2>6, <2>7, <2>8, <2>9, <3>1 DEF Inserted
  <2> QED BY <2>10 DEF R
<1> QED BY <1>11, <1>12
-----------------------------------------------------------------------------
\* The levels of a tree.

\* A set of nodes with their children.
Closed(U) == \A n \in U : ToSet(Children(n)) \subseteq U

LEMMA LevelsAre ==
  ASSUME NEW U, Closed(U), NEW node \in U
  PROVE  /\ Levels(node)[0] = {node}
         /\ \A d \in Nat : /\ Levels(node)[d + 1] = UNION {ToSet(Children(n)) : n \in Levels(node)[d]}
                           /\ Levels(node)[d] \subseteq U
<1> DEFINE V == SUBSET U
           below(X) == UNION {ToSet(Children(n)) : n \in X}
           F == [X \in V |-> below(X)]
           L == Levels(node)
<1>1. {node} \in V /\ F \in [V -> V]
  BY DEF Closed
<1>2. \E f \in [Nat -> V] : f = [d \in Nat |-> IF d = 0 THEN {node} ELSE F[f[d - 1]]]
  <2> HIDE DEF V, F
  <2> QED BY <1>1, Iterate DEF Iterates
<1>3. PICK f \in [Nat -> V] : f = [d \in Nat |-> IF d = 0 THEN {node} ELSE F[f[d - 1]]]
  BY <1>2
<1>4. f = [d \in Nat |-> IF d = 0 THEN {node} ELSE below(f[d - 1])]
  <2>1. \A d \in Nat : d # 0 => F[f[d - 1]] = below(f[d - 1])
    <3> SUFFICES ASSUME NEW d \in Nat, d # 0 PROVE F[f[d - 1]] = below(f[d - 1])
      OBVIOUS
    <3>1. d - 1 \in Nat
      OBVIOUS
    <3>2. f[d - 1] \in V
      BY <1>3, <3>1
    <3> HIDE DEF V, below
    <3> QED BY <3>2
  <2> HIDE DEF F, below
  <2> QED BY <1>3, <2>1
<1>5. L = [d \in Nat |-> IF d = 0 THEN {node} ELSE below(L[d - 1])]
  <2> HIDE DEF V, F
  <2>1. L = CHOOSE g : g = [d \in Nat |-> IF d = 0 THEN {node} ELSE below(g[d - 1])]
    BY DEF Levels
  <2> HIDE DEF L, below
  <2> QED BY <1>4, <2>1
<1> HIDE DEF L, F, below
<1>6. L[0] = {node} /\ \A d \in Nat : L[d + 1] = below(L[d])
  <2>1. \A d \in Nat : d + 1 \in Nat /\ d + 1 # 0 /\ (d + 1) - 1 = d
    OBVIOUS
  <2> QED BY <1>5, <2>1
<1>7. \A d \in Nat : L[d] \subseteq U
  <2> DEFINE S == {d \in Nat : L[d] \subseteq U}
  <2>1. 0 \in S
    BY <1>6
  <2>2. ASSUME NEW d \in Nat, d \in S PROVE d + 1 \in S
    BY <1>6, <2>2 DEF below, Closed
  <2> HIDE DEF S
  <2>3. \A d \in Nat : d \in S
    BY <2>1, <2>2, Induct
  <2> QED BY <2>3 DEF S
<1> QED BY <1>6, <1>7 DEF L, below

\* The children of an inner node.
LEMMA ChildrenOf ==
  ASSUME NEW N, NEW es \in Seq(Entry(N))
  PROVE  /\ ToSet(Children(Inner(es))) = {e.node : e \in Elems(es)}
         /\ ToSet(Children(Inner(es))) \subseteq N
<1> DEFINE c == [i \in 1 .. Len(es) |-> es[i].node]
<1>1. Children(Inner(es)) = c
  BY DEF Children, Inner
<1>2. Len(c) = Len(es) /\ Len(es) \in Nat
  BY LenProperties
<1>3. ToSet(c) = {c[i] : i \in 1 .. Len(es)}
  BY <1>2 DEF ToSet
<1>4. \A i \in 1 .. Len(es) : es[i].node \in N
  BY ElementOfSeq, EntryIs
<1> QED BY <1>1, <1>3, <1>4 DEF Elems
-----------------------------------------------------------------------------
\* Calls that go down a tree and add up what the one below has returned, or a
\* search along its levels: what call d returns, where the one below returned x.
Turn(what, g, d, x, k, v) ==
  CASE what = "height" -> IF g[d] = {} \/ \E n \in g[d] : n.leaf THEN d ELSE x
    [] what = "top"    -> IF IsSingle(g[d]) THEN g[d][1] ELSE x
    [] what = "insert" -> IF g[d].leaf THEN LeafInsert(g[d].kv, k, v)
                          ELSE InsertStep(g[d].es, k, x)
    [] what = "remove" -> IF g[d + 1].leaf
                          THEN RemoveFromLeaf(g[d].es, FindIndex(g[d].es, k), k)
                          ELSE RemoveStep(g[d].es, d = 0, FindIndex(g[d].es, k), k, x)
    [] what = "find"   -> IF g[d].leaf THEN LeafFind(g[d].kv, k)
                          ELSE IF FindIndex(g[d].es, k) = 0 THEN NoValue ELSE x
    [] what = "update" -> IF g[d].leaf THEN LeafUpdate(g[d].kv, k, v)
                          ELSE IF FindIndex(g[d].es, k) = 0
                          THEN [node |-> g[d], found |-> FALSE]
                          ELSE [node  |-> Inner([g[d].es EXCEPT ![FindIndex(g[d].es, k)].node = x.node]),
                                found |-> x.found]

\* There are such results if the calls end somewhere.
Returned(what, g, k, v, f) == f = [d \in Nat |-> Turn(what, g, d, f[d + 1], k, v)]

Ends(what, g, k, v, h) ==
  \A d \in Nat : d >= h => \A x, y : Turn(what, g, d, x, k, v) = Turn(what, g, d, y, k, v)

LEMMA Calls ==
  ASSUME NEW what, NEW g, NEW k, NEW v, NEW h \in Nat, Ends(what, g, k, v, h)
  PROVE  \E f : Returned(what, g, k, v, f)
<1> DEFINE T(d, x) == Turn(what, g, d, x, k, v)
           Sat(f, n) == f = [d \in Nat |-> f[d]] /\ \A d \in Nat : d >= n => f[d] = T(d, f[d + 1])
           S == {j \in Nat : j <= h => \E f : Sat(f, h - j)}
<1> HIDE DEF T
<1>1. 0 \in S
  <2> DEFINE f == [d \in Nat |-> T(d, 0)]
  <2>1. ASSUME NEW d \in Nat, d >= h PROVE f[d] = T(d, f[d + 1])
    BY <2>1 DEF T, Ends
  <2>2. f = [d \in Nat |-> f[d]] /\ h - 0 = h
    OBVIOUS
  <2> HIDE DEF f
  <2>3. Sat(f, h - 0)
    BY <2>1, <2>2
  <2> QED BY <2>3
<1>2. ASSUME NEW j \in Nat, j \in S PROVE j + 1 \in S
  <2>1. CASE j + 1 <= h
    <3> DEFINE n == h - (j + 1)
    <3>1. n \in Nat /\ n + 1 = h - j /\ j <= h
      BY <2>1
    <3>2. PICK f : Sat(f, h - j)
      BY <1>2, <3>1
    <3> HIDE DEF n
    <3> DEFINE e == [d \in Nat |-> IF d = n THEN T(n, f[n + 1]) ELSE f[d]]
    <3>3. ASSUME NEW d \in Nat, d >= n PROVE e[d] = T(d, e[d + 1])
      <4>1. d + 1 \in Nat /\ d + 1 # n
        BY <3>1, <3>3
      <4>2. e[d + 1] = f[d + 1]
        BY <4>1
      <4>3. CASE d = n
        BY <4>2, <4>3
      <4>4. CASE d # n
        <5>1. d >= h - j
          BY <3>1, <3>3, <4>4
        <5> QED BY <3>2, <4>2, <4>4, <5>1
      <4> QED BY <4>3, <4>4
    <3>4. e = [d \in Nat |-> e[d]]
      OBVIOUS
    <3> HIDE DEF e
    <3>5. Sat(e, n)
      BY <3>3, <3>4
    <3> QED BY <3>5 DEF n
  <2> QED BY <2>1
<1> HIDE DEF S
<1>3. \A j \in Nat : j \in S
  BY <1>1, <1>2, Induct
<1>4. h \in S /\ h <= h /\ h - h = 0
  BY <1>3
<1>5. PICK f : Sat(f, 0)
  BY <1>4 DEF S
<1>6. f = [d \in Nat |-> T(d, f[d + 1])]
  BY <1>5
<1> QED BY <1>6 DEF T, Returned

\* Height finds the level of the leaves.
LEMMA HeightIs ==
  ASSUME NEW node, NEW h \in Nat,
         \A d \in Nat : (Levels(node)[d] = {} \/ \E n \in Levels(node)[d] : n.leaf) <=> d >= h
  PROVE  Height(node) = h
<1> DEFINE g == Levels(node)
           Stop(d) == g[d] = {} \/ \E n \in g[d] : n.leaf
           first == CHOOSE f : f = [d \in Nat |-> IF Stop(d) THEN d ELSE f[d + 1]]
<1>1. Height(node) = first[0]
  BY DEF Height
<1>2. \A d \in Nat : \A x : Turn("height", g, d, x, 0, 0) = IF Stop(d) THEN d ELSE x
  BY DEF Turn
<1>3. \A d \in Nat : Stop(d) <=> d >= h
  OBVIOUS
<1> HIDE DEF Stop, g
<1>4. PICK f : Returned("height", g, 0, 0, f)
  <2>1. Ends("height", g, 0, 0, h)
    BY <1>2, <1>3 DEF Ends
  <2> QED BY <2>1, Calls
<1>5. f = [d \in Nat |-> IF Stop(d) THEN d ELSE f[d + 1]]
  BY <1>2, <1>4 DEF Returned
<1>6. first = [d \in Nat |-> IF Stop(d) THEN d ELSE first[d + 1]]
  BY <1>5
<1> HIDE DEF first
<1> DEFINE S == {d \in Nat : first[d] = h}
<1>7. h \in S
  <2>1. Stop(h)
    BY <1>3
  <2> QED BY <1>6, <2>1
<1>8. ASSUME NEW d \in Nat, d < h, d + 1 \in S PROVE d \in S
  <2>1. ~Stop(d)
    BY <1>3, <1>8
  <2> QED BY <1>6, <1>8, <2>1
<1> HIDE DEF S
<1>9. 0 \in S
  BY <1>7, <1>8, Descend
<1>11. first[0] = h
  BY <1>9 DEF S
<1> QED BY <1>1, <1>11
-----------------------------------------------------------------------------
\* The well-formed trees.

\* The levels of a tree of height h: inner nodes above the last, and leaves there.
Tall(n, h) ==
  /\ Levels(n)[0] = {n} /\ (n.leaf <=> h = 0)
  /\ \A d \in 1 .. h : Levels(n)[d] # {} /\ Levels(n)[d] \subseteq Good[h - d]
  /\ \A d \in Nat : d > h => Levels(n)[d] = {}

LEMMA LeafIs ==
  ASSUME NEW n \in Filled
  PROVE  /\ n = Leaf(n.kv) /\ n.leaf /\ IsFilled(n.kv)
         /\ n.kv = [k \in DOMAIN n.kv |-> n.kv[k]] /\ \A k \in DOMAIN n.kv : n.kv[k] \in Values
<1>1. PICK f : n = Leaf(f) /\ IsFilled(f)
  BY DEF Filled
<1>2. n = Leaf(n.kv) /\ n.leaf /\ n.kv = f
  BY <1>1 DEF Leaf
<1> QED BY <1>1, <1>2 DEF IsFilled

LEMMA FilledIs ==
  ASSUME NEW f, IsFilled(f)
  PROVE  Leaf(f) \in Filled /\ Leaf(f).kv = f /\ Leaf(f).leaf
<1>1. DOMAIN f \in SUBSET Keys /\ f \in [DOMAIN f -> Values]
  BY DEF IsFilled
<1>2. f \in UNION {[S -> Values] : S \in SUBSET Keys}
  BY <1>1
<1> QED BY <1>2 DEF Filled, Leaf

\* The nodes below height h, and what they are.
LEMMA GoodNodes ==
  ASSUME NEW h \in Nat, NEW n \in Good[h]
  PROVE  /\ n.leaf <=> h = 0
         /\ h = 0 => n \in Filled
         /\ h # 0 => /\ h - 1 \in Nat /\ n \in Grown(Good[h - 1]) /\ n = Inner(n.es)
                     /\ n.es \in Seq(Entry(Good[h - 1])) /\ n.es # <<>> /\ Fan(n.es) /\ Sized(n.es)
<1>1. CASE h = 0
  BY <1>1, GoodIs, LeafIs
<1>2. CASE h # 0
  <2>1. h - 1 \in Nat /\ (h - 1) + 1 = h
    BY <1>2
  <2>2. n \in Grown(Good[h - 1])
    BY <2>1, GoodIs
  <2>3. n \in Fans(Good[h - 1]) /\ Sized(n.es)
    BY <2>2 DEF Grown
  <2>4. PICK es \in Seq(Entry(Good[h - 1])) : es # <<>> /\ Fan(es) /\ n = Inner(es)
    BY <2>3 DEF Fans
  <2>5. n.es = es /\ ~n.leaf
    BY <2>4 DEF Inner
  <2> QED BY <1>2, <2>1, <2>2, <2>3, <2>4, <2>5
<1> QED BY <1>1, <1>2

\* The well-formed nodes of height h at most.
UpTo(h) == UNION {Good[j] : j \in 0 .. h}

LEMMA UpToClosed ==
  ASSUME NEW h \in Nat
  PROVE  /\ Closed(UpTo(h))
         /\ \A es \in Seq(Entry(Good[h])) : Closed(UpTo(h) \cup {Inner(es)})
         /\ Good[h] \subseteq UpTo(h)
<1>1. ASSUME NEW n \in UpTo(h) PROVE ToSet(Children(n)) \subseteq UpTo(h)
  <2>1. PICK j \in 0 .. h : n \in Good[j]
    BY <1>1 DEF UpTo
  <2>2. CASE j = 0
    <3>1. n.leaf
      BY <2>1, <2>2, GoodNodes
    <3>2. Children(n) = <<>>
      BY <3>1 DEF Children
    <3> QED BY <3>2 DEF ToSet
  <2>3. CASE j # 0
    <3>1. j - 1 \in 0 .. h /\ j - 1 \in Nat
      BY <2>3
    <3>2. n = Inner(n.es) /\ n.es \in Seq(Entry(Good[j - 1]))
      BY <2>1, <2>3, GoodNodes
    <3>3. ToSet(Children(Inner(n.es))) \subseteq Good[j - 1]
      BY <3>2, ChildrenOf
    <3> QED BY <3>1, <3>2, <3>3 DEF UpTo
  <2> QED BY <2>2, <2>3
<1>2. Good[h] \subseteq UpTo(h)
  BY DEF UpTo
<1>3. ASSUME NEW es \in Seq(Entry(Good[h])) PROVE Closed(UpTo(h) \cup {Inner(es)})
  <2>1. ToSet(Children(Inner(es))) \subseteq Good[h]
    BY ChildrenOf
  <2> QED BY <1>1, <1>2, <2>1 DEF Closed
<1> QED BY <1>1, <1>2, <1>3 DEF Closed

\* The levels of a tree are those of the trees under its root, one down.
LEMMA LevelsBelow ==
  ASSUME NEW h \in Nat, NEW es \in Seq(Entry(Good[h]))
  PROVE  /\ Levels(Inner(es))[0] = {Inner(es)}
         /\ \A d \in Nat : Levels(Inner(es))[d + 1] = UNION {Levels(e.node)[d] : e \in Elems(es)}
<1> DEFINE L == Levels(Inner(es))
           U == UpTo(h) \cup {Inner(es)}
           below(X) == UNION {ToSet(Children(n)) : n \in X}
           M(d) == UNION {Levels(e.node)[d] : e \in Elems(es)}
<1>1. Closed(U) /\ Inner(es) \in U /\ Good[h] \subseteq U
  BY UpToClosed
<1> HIDE DEF U
<1>2. L[0] = {Inner(es)} /\ \A d \in Nat : L[d + 1] = below(L[d])
  BY <1>1, LevelsAre
<1>3. ASSUME NEW e \in Elems(es)
      PROVE  Levels(e.node)[0] = {e.node} /\ \A d \in Nat : Levels(e.node)[d + 1] = below(Levels(e.node)[d])
  <2>1. e.node \in U
    BY <1>1, ElementOfSeq, EntryIs DEF Elems
  <2> QED BY <1>1, <2>1, LevelsAre
<1> HIDE DEF L
<1> DEFINE S == {d \in Nat : L[d + 1] = M(d)}
<1>4. 0 \in S
  <2>1. L[0 + 1] = below(L[0])
    BY <1>2
  <2>2. ToSet(Children(Inner(es))) = {e.node : e \in Elems(es)}
    BY ChildrenOf
  <2>3. \A x : x \in M(0) <=> \E e \in Elems(es) : x \in Levels(e.node)[0]
    OBVIOUS
  <2>4. \A x : x \in below(L[0]) <=> x \in ToSet(Children(Inner(es)))
    BY <1>2
  <2>5. \A x : x \in M(0) <=> x \in {e.node : e \in Elems(es)}
    <3>1. \A e \in Elems(es) : Levels(e.node)[0] = {e.node}
      BY <1>3
    <3> HIDE DEF M, below
    <3>2. ASSUME NEW x PROVE x \in M(0) <=> \E e \in Elems(es) : x = e.node
      <4>1. x \in M(0) <=> \E e \in Elems(es) : x \in Levels(e.node)[0]
        BY <2>3
      <4>2. \A e \in Elems(es) : x \in Levels(e.node)[0] <=> x = e.node
        BY <3>1
      <4> QED BY <4>1, <4>2
    <3> QED BY <3>2
  <2> HIDE DEF M, below
  <2>6. L[0 + 1] = M(0)
    BY <2>1, <2>2, <2>4, <2>5
  <2> QED BY <2>6
<1>5. ASSUME NEW d \in Nat, d \in S PROVE d + 1 \in S
  <2>1. L[(d + 1) + 1] = below(L[d + 1]) /\ L[d + 1] = M(d) /\ d + 1 \in Nat
    BY <1>2, <1>5
  <2>2. \A x : x \in M(d + 1) <=> \E e \in Elems(es) : x \in below(Levels(e.node)[d])
    <3>1. \A x : x \in M(d + 1) <=> \E e \in Elems(es) : x \in Levels(e.node)[d + 1]
      OBVIOUS
    <3>2. \A e \in Elems(es) : Levels(e.node)[d + 1] = below(Levels(e.node)[d])
      BY <1>3
    <3> HIDE DEF M, below
    <3> QED BY <3>1, <3>2
  <2>3. \A x : x \in below(M(d)) <=> \E e \in Elems(es) : x \in below(Levels(e.node)[d])
    OBVIOUS
  <2> HIDE DEF M, below
  <2>4. L[(d + 1) + 1] = M(d + 1)
    BY <2>1, <2>2, <2>3
  <2> QED BY <2>1, <2>4
<1> HIDE DEF S
<1>6. \A d \in Nat : d \in S
  BY <1>4, <1>5, Induct
<1> QED BY <1>2, <1>6 DEF S, L

\* A node over trees of the same height.
LEMMA TallOver ==
  ASSUME NEW h \in Nat, \A n \in Good[h] : Tall(n, h), NEW es \in Seq(Entry(Good[h])), es # <<>>
  PROVE  /\ Tall(Inner(es), h + 1)
         /\ Levels(Inner(es))[h + 1] = UNION {Levels(e.node)[h] : e \in Elems(es)}
<1> DEFINE L == Levels(Inner(es))
<1>1. L[0] = {Inner(es)} /\ \A d \in Nat : L[d + 1] = UNION {Levels(e.node)[d] : e \in Elems(es)}
  BY LevelsBelow
<1>2. \A e \in Elems(es) : e.node \in Good[h] /\ Tall(e.node, h)
  BY ElementOfSeq, EntryIs DEF Elems
<1>3. Elems(es) # {}
  BY ElemsOf
<1> HIDE DEF L
<1>4. ASSUME NEW d \in 1 .. h + 1 PROVE L[d] # {} /\ L[d] \subseteq Good[(h + 1) - d]
  <2>1. d - 1 \in 0 .. h /\ d - 1 \in Nat /\ (d - 1) + 1 = d /\ (h + 1) - d = h - (d - 1)
    BY <1>4
  <2>2. \A x : x \in L[d] <=> \E e \in Elems(es) : x \in Levels(e.node)[d - 1]
    BY <1>1, <2>1
  <2>3. ASSUME NEW e \in Elems(es)
        PROVE  Levels(e.node)[d - 1] # {} /\ Levels(e.node)[d - 1] \subseteq Good[h - (d - 1)]
    <3>1. CASE d - 1 = 0
      <4>1. Levels(e.node)[0] = {e.node} /\ e.node \in Good[h] /\ h - 0 = h
        BY <1>2 DEF Tall
      <4> QED BY <3>1, <4>1
    <3>2. CASE d - 1 # 0
      <4>1. d - 1 \in 1 .. h
        BY <2>1, <3>2
      <4> QED BY <1>2, <4>1 DEF Tall
    <3> QED BY <3>1, <3>2
  <2>4. L[d] # {}
    BY <1>3, <2>2, <2>3
  <2>5. \A x \in L[d] : x \in Good[h - (d - 1)]
    BY <2>2, <2>3
  <2> QED BY <2>1, <2>4, <2>5
<1>5. ASSUME NEW d \in Nat, d > h + 1 PROVE L[d] = {}
  <2>1. d - 1 \in Nat /\ (d - 1) + 1 = d /\ d - 1 > h
    BY <1>5
  <2>2. \A e \in Elems(es) : Levels(e.node)[d - 1] = {}
    BY <1>2, <2>1 DEF Tall
  <2>3. \A x : x \in L[d] <=> \E e \in Elems(es) : x \in Levels(e.node)[d - 1]
    BY <1>1, <2>1
  <2> QED BY <2>2, <2>3
<1>6. ~Inner(es).leaf /\ h + 1 # 0
  BY DEF Inner
<1> QED BY <1>1, <1>4, <1>5, <1>6 DEF Tall, L

LEMMA TallIs ==
  \A h \in Nat : \A n \in Good[h] : Tall(n, h)
<1> DEFINE S == {h \in Nat : \A n \in Good[h] : Tall(n, h)}
<1>1. 0 \in S
  <2> SUFFICES ASSUME NEW n \in Good[0] PROVE Tall(n, 0)
    OBVIOUS
  <2>1. n.leaf /\ Children(n) = <<>>
    BY GoodNodes DEF Children
  <2>2. ToSet(Children(n)) = {}
    BY <2>1 DEF ToSet
  <2> DEFINE U == {n}
             L == Levels(n)
  <2>3. Closed(U)
    BY <2>2 DEF Closed
  <2>4. L[0] = {n} /\ \A d \in Nat : L[d + 1] = UNION {ToSet(Children(m)) : m \in L[d]} /\ L[d] \subseteq U
    BY <2>3, LevelsAre
  <2> HIDE DEF L
  <2>5. ASSUME NEW d \in Nat, d > 0 PROVE L[d] = {}
    <3>1. d - 1 \in Nat /\ (d - 1) + 1 = d
      BY <2>5
    <3>2. L[(d - 1) + 1] = UNION {ToSet(Children(m)) : m \in L[d - 1]} /\ L[d - 1] \subseteq U
      BY <2>4, <3>1
    <3>3. \A m \in L[d - 1] : ToSet(Children(m)) = {}
      BY <2>2, <3>2
    <3> QED BY <3>1, <3>2, <3>3
  <2> QED BY <2>1, <2>4, <2>5 DEF Tall, L
<1>2. ASSUME NEW h \in Nat, h \in S PROVE h + 1 \in S
  <2> SUFFICES ASSUME NEW n \in Good[h + 1] PROVE Tall(n, h + 1)
    OBVIOUS
  <2>1. h + 1 \in Nat /\ h + 1 # 0 /\ (h + 1) - 1 = h
    OBVIOUS
  <2>2. n = Inner(n.es) /\ n.es \in Seq(Entry(Good[h])) /\ n.es # <<>>
    BY <2>1, GoodNodes
  <2>3. Tall(Inner(n.es), h + 1)
    BY <1>2, <2>2, TallOver
  <2> QED BY <2>2, <2>3
<1> HIDE DEF S
<1>3. \A h \in Nat : h \in S
  BY <1>1, <1>2, Induct
<1> QED BY <1>3 DEF S

LEMMA TallHeight ==
  ASSUME NEW h \in Nat, NEW n, Tall(n, h)
  PROVE  Height(n) = h /\ Bottom(n) = Levels(n)[h]
<1>1. ASSUME NEW d \in Nat
      PROVE  (Levels(n)[d] = {} \/ \E m \in Levels(n)[d] : m.leaf) <=> d >= h
  <2>1. CASE d > h
    BY <2>1 DEF Tall
  <2>2. CASE d = 0
    <3>1. Levels(n)[0] = {n} /\ (n.leaf <=> h = 0)
      BY DEF Tall
    <3>2. 0 >= h <=> h = 0
      OBVIOUS
    <3> QED BY <2>2, <3>1, <3>2
  <2>3. CASE d \in 1 .. h
    <3>1. Levels(n)[d] # {} /\ Levels(n)[d] \subseteq Good[h - d] /\ h - d \in Nat
      BY <2>3 DEF Tall
    <3>2. \A m \in Levels(n)[d] : m.leaf <=> h - d = 0
      BY <3>1, GoodNodes
    <3>3. h - d = 0 <=> d >= h
      BY <2>3
    <3> QED BY <3>1, <3>2, <3>3
  <2>4. d > h \/ d = 0 \/ d \in 1 .. h
    OBVIOUS
  <2> QED BY <2>1, <2>2, <2>3, <2>4
<1>2. Height(n) = h
  BY <1>1, HeightIs
<1> QED BY <1>2 DEF Bottom

\* What is in a leaf.
LEMMA LeafHolds ==
  ASSUME NEW n \in Filled
  PROVE  /\ KeysOf(n) = DOMAIN n.kv
         /\ Entries(n) = {<<k, n.kv[k]>> : k \in DOMAIN n.kv}
         /\ Sound(n) /\ Bottom(n) = {n}
<1>1. /\ n = Leaf(n.kv) /\ n.leaf /\ IsFilled(n.kv)
      /\ \A k \in DOMAIN n.kv : n.kv[k] \in Values
  BY LeafIs
<1>2. Bottom(n) = {n}
  <2>1. n \in Good[0]
    BY GoodIs
  <2>2. Tall(n, 0)
    BY <2>1, TallIs
  <2>3. Bottom(n) = Levels(n)[0]
    BY <2>2, TallHeight
  <2> QED BY <2>2, <2>3 DEF Tall
<1>3. KeysOf(n) = DOMAIN n.kv
  BY <1>2 DEF KeysOf
<1>4. Entries(n) = {<<k, n.kv[k]>> : k \in DOMAIN n.kv}
  BY <1>2 DEF Entries
<1>5. DOMAIN n.kv \subseteq Keys /\ DOMAIN n.kv # {} /\ DOMAIN n.kv \subseteq Nat
  <2>1. DOMAIN n.kv \subseteq Keys /\ Cardinality(DOMAIN n.kv) \in 1 .. 2 * LeafDegree - 1
    BY <1>1 DEF IsFilled
  <2>2. Keys \subseteq Nat
    BY TreeAssumption DEF TreeAssumption
  <2>3. Cardinality({}) = 0
    BY FS_EmptySet
  <2>4. DOMAIN n.kv # {}
    <3>1. \A i \in 1 .. 2 * LeafDegree - 1 : i # 0
      BY DegreeAssumption
    <3> QED BY <2>1, <2>3, <3>1
  <2> QED BY <2>1, <2>2, <2>4
<1>6. MinKey(n) \in DOMAIN n.kv /\ \A k \in DOMAIN n.kv : MinKey(n) <= k
  <2> DEFINE D == DOMAIN n.kv
  <2>1. \E k \in D : \A j \in D : k <= j
    BY <1>5, MinIsLeast
  <2>2. MinKey(n) = CHOOSE k \in D : \A j \in D : k <= j
    BY <1>1 DEF MinKey
  <2> HIDE DEF D
  <2>3. MinKey(n) \in D /\ \A j \in D : MinKey(n) <= j
    BY <2>1, <2>2
  <2> QED BY <2>3 DEF D
<1>7. /\ KeysOf(n) = {x[1] : x \in Entries(n)}
      /\ Entries(n) \subseteq Keys \X Values
      /\ \A x, y \in Entries(n) : x[1] = y[1] => x = y
  <2>1. KeysOf(n) = {x[1] : x \in Entries(n)}
    <3>1. ASSUME NEW x \in Entries(n) PROVE x[1] \in DOMAIN n.kv
      BY <1>4
    <3>2. ASSUME NEW k \in DOMAIN n.kv PROVE \E x \in Entries(n) : k = x[1]
      <4>1. <<k, n.kv[k]>> \in Entries(n) /\ <<k, n.kv[k]>>[1] = k
        BY <1>4
      <4> QED BY <4>1
    <3> QED BY <1>3, <3>1, <3>2
  <2>2. Entries(n) \subseteq Keys \X Values
    BY <1>1, <1>4, <1>5
  <2>3. \A x, y \in Entries(n) : x[1] = y[1] => x = y
    BY <1>4
  <2> QED BY <2>1, <2>2, <2>3
<1> QED BY <1>2, <1>3, <1>4, <1>5, <1>6, <1>7 DEF Sound

\* A leaf that gives way to others that have keys of it.
LEMMA LeafEdited ==
  ASSUME NEW n \in Filled, NEW m \in Filled, NEW l \in Filled,
         KeysOf(n) \cap KeysOf(m) # {}, KeysOf(n) \cap KeysOf(l) # {}
  PROVE  Edited(Bottom(n), Bottom(m)) /\ Edited(Bottom(n), Bottom(m) \cup Bottom(l))
<1>1. \A x \in Filled : KeysOf(x) = DOMAIN x.kv /\ Bottom(x) = {x}
  BY LeafHolds
<1>2. Shares(m, n) /\ Shares(l, n)
  BY <1>1 DEF Shares
<1>3. Edited({n}, {m}) /\ Edited({n}, {m, l})
  <2>1. {n} = {} \cup {n} /\ {m} = {} \cup {m, m} /\ {m, l} = {} \cup {m, l}
    OBVIOUS
  <2> DEFINE A == {n}
             B == {m}
             C == {m, l}
             D == {}
  <2>2. A = D \cup {n} /\ B = D \cup {m, m} /\ C = D \cup {m, l}
    BY <2>1
  <2> HIDE DEF A, B, C, D
  <2>3. Edited(A, B) /\ Edited(A, C)
    BY <1>2, <2>2, EditedBy
  <2> QED BY <2>3 DEF A, B, C
<1>4. Bottom(n) = {n} /\ Bottom(m) = {m} /\ Bottom(m) \cup Bottom(l) = {m, l}
  BY <1>1
<1> QED BY <1>3, <1>4

\* What is in a well-formed tree is what is in those under its root.
LEMMA HoldsOver ==
  ASSUME NEW h \in Nat, NEW es \in Seq(Entry(Good[h])), es # <<>>
  PROVE  /\ Entries(Inner(es)) = Held(es) /\ Bottom(Inner(es)) = Under(es)
         /\ KeysOf(Inner(es)) = UNION {KeysOf(e.node) : e \in Elems(es)}
         /\ Height(Inner(es)) = h + 1 /\ Tall(Inner(es), h + 1)
<1>1. Tall(Inner(es), h + 1) /\ Levels(Inner(es))[h + 1] = UNION {Levels(e.node)[h] : e \in Elems(es)}
  BY TallIs, TallOver
<1>2. Height(Inner(es)) = h + 1 /\ Bottom(Inner(es)) = Levels(Inner(es))[h + 1]
  BY <1>1, TallHeight
<1>3. \A e \in Elems(es) : Bottom(e.node) = Levels(e.node)[h]
  <2> SUFFICES ASSUME NEW e \in Elems(es) PROVE Bottom(e.node) = Levels(e.node)[h]
    OBVIOUS
  <2>1. e.node \in Good[h]
    BY ElementOfSeq, EntryIs DEF Elems
  <2> QED BY <2>1, TallIs, TallHeight
<1>4. \A l : l \in Bottom(Inner(es)) <=> \E e \in Elems(es) : l \in Bottom(e.node)
  BY <1>1, <1>2, <1>3
<1>5. \A x : x \in Entries(Inner(es)) <=> x \in Held(es)
  <2>1. \A n : \A x : x \in Entries(n) <=> \E l \in Bottom(n) : \E k \in DOMAIN l.kv : x = <<k, l.kv[k]>>
    BY DEF Entries
  <2>2. \A x : x \in Held(es) <=> \E e \in Elems(es) : x \in Entries(e.node)
    BY DEF Held
  <2> QED BY <1>4, <2>1, <2>2
<1>6. \A x : x \in KeysOf(Inner(es)) <=> x \in UNION {KeysOf(e.node) : e \in Elems(es)}
  <2>1. \A n : \A x : x \in KeysOf(n) <=> \E l \in Bottom(n) : x \in DOMAIN l.kv
    BY DEF KeysOf
  <2>2. \A x : x \in UNION {KeysOf(e.node) : e \in Elems(es)} <=> \E e \in Elems(es) : x \in KeysOf(e.node)
    OBVIOUS
  <2> QED BY <1>4, <2>1, <2>2
<1>7. Bottom(Inner(es)) = Under(es)
  BY <1>4 DEF Under
<1> QED BY <1>1, <1>2, <1>5, <1>6, <1>7

LEMMA GoodLayer ==
  \A h \in Nat : Layer(Good[h])
<1> DEFINE S == {h \in Nat : \A n \in Good[h] : Sound(n)}
<1>1. ASSUME NEW h \in Nat, h \in S PROVE Layer(Good[h])
  <2>1. ASSUME NEW es \in Seq(Entry(Good[h])), es # <<>>
        PROVE  /\ Entries(Inner(es)) = Held(es) /\ Bottom(Inner(es)) = Under(es)
               /\ KeysOf(Inner(es)) = {x[1] : x \in Held(es)}
    <3>1. /\ Entries(Inner(es)) = Held(es) /\ Bottom(Inner(es)) = Under(es)
          /\ KeysOf(Inner(es)) = UNION {KeysOf(e.node) : e \in Elems(es)}
      BY <2>1, HoldsOver
    <3>2. \A e \in Elems(es) : KeysOf(e.node) = {x[1] : x \in Entries(e.node)}
      BY <1>1, ElementOfSeq, EntryIs DEF Elems, Sound
    <3>3. ASSUME NEW k
          PROVE  k \in KeysOf(Inner(es)) <=> \E e \in Elems(es) : \E x \in Entries(e.node) : k = x[1]
      <4>1. k \in KeysOf(Inner(es)) <=> \E e \in Elems(es) : k \in KeysOf(e.node)
        BY <3>1
      <4>2. \A e \in Elems(es) : k \in KeysOf(e.node) <=> \E x \in Entries(e.node) : k = x[1]
        BY <3>2
      <4> QED BY <4>1, <4>2
    <3>4. \A k : k \in {x[1] : x \in Held(es)} <=> \E e \in Elems(es) : \E x \in Entries(e.node) : k = x[1]
      BY DEF Held
    <3> QED BY <3>1, <3>3, <3>4
  <2>2. \A n \in Good[h] : Sound(n)
    BY <1>1
  <2> QED BY <2>1, <2>2 DEF Layer
<1>2. 0 \in S
  BY GoodIs, LeafHolds
<1>3. ASSUME NEW h \in Nat, h \in S PROVE h + 1 \in S
  <2> SUFFICES ASSUME NEW n \in Good[h + 1] PROVE Sound(n)
    OBVIOUS
  <2>1. n \in Fans(Good[h])
    BY GoodIs DEF Grown
  <2> QED BY <1>1, <1>3, <2>1, FansSound
<1>4. \A h \in Nat : h \in S
  <2> HIDE DEF S
  <2> QED BY <1>2, <1>3, Induct
<1> QED BY <1>1, <1>4
-----------------------------------------------------------------------------
\* The way down a tree.

LEMMA AtIn ==
  ASSUME NEW N, Sounds(N), NEW es \in Seq(Entry(N)), es # <<>>, Fan(es), NEW k \in Keys
  PROVE  /\ FindIndex(es, k) \in 0 .. Len(es)
         /\ At(es, k) \in 1 .. Len(es) /\ es[At(es, k)].node \in N
         /\ FindIndex(es, k) # 0 => At(es, k) = FindIndex(es, k)
<1>1. FindIndex(es, k) \in 0 .. Len(es)
  BY FindIndexIs
<1>2. Len(es) \in Nat /\ Len(es) >= 1
  BY EmptySeq, LenProperties
<1>3. At(es, k) \in 1 .. Len(es) /\ (FindIndex(es, k) # 0 => At(es, k) = FindIndex(es, k))
  BY <1>1, <1>2 DEF At
<1> QED BY <1>1, <1>3, ElementOfSeq, EntryIs

\* The entries es of a node over well-formed trees of height h.
IsNode(es, h) == es \in Seq(Entry(Good[h])) /\ es # <<>> /\ Fan(es)

\* The nodes on the way to k from a node with the entries es: trees ever less
\* high, and the last one a leaf.
Descends(es, h, k, path) ==
  /\ path[0] = Inner(es)
  /\ \A d \in 0 .. h : /\ IsNode(path[d].es, h - d) /\ path[d] = Inner(path[d].es)
                       /\ path[d + 1] \in Good[h - d]
                       /\ path[d + 1] = path[d].es[At(path[d].es, k)].node
  /\ \A d \in Nat : d > h => path[d] \in Filled

LEMMA PathIs ==
  ASSUME NEW h \in Nat, NEW es, IsNode(es, h), NEW k \in Keys
  PROVE  Descends(es, h, k, Path(Inner(es), k))
<1> DEFINE U == UpTo(h) \cup {Inner(es)}
           next(x) == IF x.leaf \/ x.es = <<>> THEN x ELSE x.es[At(x.es, k)].node
           F == [x \in U |-> next(x)]
           path == Path(Inner(es), k)
<1>1. es \in Seq(Entry(Good[h])) /\ es # <<>> /\ Fan(es) /\ Inner(es).es = es /\ ~Inner(es).leaf
  BY DEF IsNode, Inner
<1>2. ASSUME NEW j \in Nat, NEW zs, IsNode(zs, j)
      PROVE  /\ zs[At(zs, k)].node \in Good[j] /\ Inner(zs).es = zs /\ ~Inner(zs).leaf
             /\ next(Inner(zs)) = zs[At(zs, k)].node
  <2>1. zs \in Seq(Entry(Good[j])) /\ zs # <<>> /\ Fan(zs) /\ Inner(zs).es = zs /\ ~Inner(zs).leaf
    BY <1>2 DEF IsNode, Inner
  <2>2. Sounds(Good[j])
    BY GoodLayer DEF Layer, Sounds
  <2> QED BY <2>1, <2>2, AtIn
<1>3. ASSUME NEW j \in Nat, j # 0, NEW x \in Good[j]
      PROVE  /\ j - 1 \in Nat /\ IsNode(x.es, j - 1) /\ x = Inner(x.es)
             /\ next(x) \in Good[j - 1] /\ next(x) = x.es[At(x.es, k)].node
  <2>1. j - 1 \in Nat /\ IsNode(x.es, j - 1) /\ x = Inner(x.es)
    BY <1>3, GoodNodes DEF IsNode
  <2> HIDE DEF next
  <2> QED BY <1>2, <2>1
<1>4. ASSUME NEW x \in Good[0] PROVE next(x) = x /\ x.leaf /\ x \in Filled
  BY GoodNodes
<1>5. F \in [U -> U]
  <2> SUFFICES ASSUME NEW x \in U PROVE next(x) \in U
    OBVIOUS
  <2> HIDE DEF next
  <2>1. CASE x = Inner(es)
    <3>1. next(x) \in Good[h]
      BY <1>2, <2>1
    <3> QED BY <3>1, UpToClosed
  <2>2. CASE x \in UpTo(h)
    <3>1. PICK j \in 0 .. h : x \in Good[j]
      BY <2>2 DEF UpTo
    <3>2. CASE j = 0
      BY <1>4, <3>1, <3>2
    <3>3. CASE j # 0
      <4>1. next(x) \in Good[j - 1]
        BY <1>3, <3>1, <3>3
      <4>2. j - 1 \in 0 .. h
        BY <3>3
      <4> QED BY <4>1, <4>2 DEF UpTo
    <3> QED BY <3>2, <3>3
  <2> QED BY <2>1, <2>2
<1>6. PICK f \in [Nat -> U] : f = [d \in Nat |-> IF d = 0 THEN Inner(es) ELSE F[f[d - 1]]]
  <2>1. Inner(es) \in U
    OBVIOUS
  <2> HIDE DEF U, F
  <2> QED BY <1>5, <2>1, Iterate DEF Iterates
<1>7. f = [d \in Nat |-> IF d = 0 THEN Inner(es) ELSE next(f[d - 1])]
  <2>1. \A d \in Nat : d # 0 => F[f[d - 1]] = next(f[d - 1])
    <3> SUFFICES ASSUME NEW d \in Nat, d # 0 PROVE F[f[d - 1]] = next(f[d - 1])
      OBVIOUS
    <3>1. d - 1 \in Nat
      OBVIOUS
    <3>2. f[d - 1] \in U
      BY <1>6, <3>1
    <3> HIDE DEF U, next
    <3> QED BY <3>2
  <2> HIDE DEF F, next
  <2> QED BY <1>6, <2>1
<1>8. path = [d \in Nat |-> IF d = 0 THEN Inner(es) ELSE next(path[d - 1])]
  <2>1. path = CHOOSE g : g = [d \in Nat |-> IF d = 0 THEN Inner(es) ELSE next(g[d - 1])]
    BY DEF Path
  <2> HIDE DEF path, next
  <2> QED BY <1>7, <2>1
<1> HIDE DEF path, next
<1>9. path[0] = Inner(es) /\ \A d \in Nat : path[d + 1] = next(path[d])
  <2>1. \A d \in Nat : d + 1 \in Nat /\ d + 1 # 0 /\ (d + 1) - 1 = d
    OBVIOUS
  <2> QED BY <1>8, <2>1
<1> DEFINE S == {d \in Nat : d <= h =>
                   /\ IsNode(path[d].es, h - d) /\ path[d] = Inner(path[d].es)
                   /\ path[d + 1] \in Good[h - d]
                   /\ path[d + 1] = path[d].es[At(path[d].es, k)].node}
<1>10. 0 \in S
  <2>1. path[0] = Inner(es) /\ path[0].es = es /\ h - 0 = h /\ 0 \in Nat
    BY <1>1, <1>9
  <2>2. path[0 + 1] = next(Inner(es))
    BY <1>9, <2>1
  <2>3. /\ IsNode(path[0].es, h - 0) /\ path[0] = Inner(path[0].es)
        /\ path[0 + 1] \in Good[h - 0]
        /\ path[0 + 1] = path[0].es[At(path[0].es, k)].node
    BY <1>2, <2>1, <2>2
  <2> QED BY <2>3
<1>11. ASSUME NEW d \in Nat, d \in S PROVE d + 1 \in S
  <2>1. CASE d + 1 <= h
    <3>1. path[d + 1] \in Good[h - d] /\ h - d \in Nat /\ h - d # 0 /\ (h - d) - 1 = h - (d + 1)
      BY <1>11, <2>1
    <3>2. path[(d + 1) + 1] = next(path[d + 1]) /\ d + 1 \in Nat
      BY <1>9
    <3>3. /\ IsNode(path[d + 1].es, h - (d + 1)) /\ path[d + 1] = Inner(path[d + 1].es)
          /\ next(path[d + 1]) \in Good[h - (d + 1)]
          /\ next(path[d + 1]) = path[d + 1].es[At(path[d + 1].es, k)].node
      BY <1>3, <3>1
    <3> QED BY <3>2, <3>3
  <2> QED BY <2>1
<1>12. \A d \in Nat : d \in S
  <2> HIDE DEF S
  <2> QED BY <1>10, <1>11, Induct
<1> DEFINE D == {j \in Nat : path[(h + 1) + j] \in Filled}
<1>13. 0 \in D
  <2>1. h \in Nat /\ h <= h /\ h - h = 0 /\ (h + 1) + 0 = h + 1
    OBVIOUS
  <2>2. path[h + 1] \in Good[0]
    BY <1>12, <2>1
  <2> QED BY <1>4, <2>1, <2>2
<1>14. ASSUME NEW j \in Nat, j \in D PROVE j + 1 \in D
  <2>1. (h + 1) + j \in Nat /\ ((h + 1) + j) + 1 = (h + 1) + (j + 1) /\ path[(h + 1) + j] \in Good[0]
    BY <1>14, GoodIs
  <2>2. path[((h + 1) + j) + 1] = path[(h + 1) + j]
    BY <1>4, <1>9, <2>1
  <2> QED BY <1>14, <2>1, <2>2
<1>15. \A j \in Nat : j \in D
  <2> HIDE DEF D
  <2> QED BY <1>13, <1>14, Induct
<1>16. ASSUME NEW d \in Nat, d > h PROVE path[d] \in Filled
  <2>1. d - (h + 1) \in Nat /\ (h + 1) + (d - (h + 1)) = d
    BY <1>16
  <2> QED BY <1>15, <2>1
<1>17. Descends(es, h, k, path)
  BY <1>9, <1>12, <1>16 DEF Descends
<1> QED BY <1>17 DEF path

\* A key is below the child that findIndex finds, or it is not there.
LEMMA Through ==
  ASSUME NEW h \in Nat, NEW es, IsNode(es, h), NEW k \in Keys
  PROVE  /\ FindIndex(es, k) = 0 => \A y \in Entries(Inner(es)) : y[1] # k
         /\ FindIndex(es, k) # 0 =>
              \A y : y[1] = k => (y \in Entries(Inner(es)) <=> y \in Entries(es[At(es, k)].node))
<1>1. es \in Seq(Entry(Good[h])) /\ es # <<>> /\ Fan(es) /\ Sounds(Good[h])
  BY GoodLayer DEF IsNode, Layer, Sounds
<1>2. Entries(Inner(es)) = Held(es)
  BY <1>1, HoldsOver
<1>3. \A j \in 1 .. Len(es) : j # FindIndex(es, k) => \A y \in Entries(es[j].node) : y[1] # k
  BY <1>1, OnlyThere
<1>4. \A y : y \in Held(es) <=> \E j \in 1 .. Len(es) : y \in Entries(es[j].node)
  BY DEF Held, Elems
<1>5. CASE FindIndex(es, k) = 0
  <2>1. \A j \in 1 .. Len(es) : j # 0
    OBVIOUS
  <2> QED BY <1>2, <1>3, <1>4, <1>5, <2>1
<1>6. CASE FindIndex(es, k) # 0
  <2>1. At(es, k) \in 1 .. Len(es) /\ At(es, k) = FindIndex(es, k)
    BY <1>1, <1>6, AtIn
  <2> QED BY <1>2, <1>3, <1>4, <1>6, <2>1
<1> QED BY <1>5, <1>6

\* What find of k is to return.
Found(E, k, x) ==
  /\ \A y \in E : y[1] = k => x = y[2]
  /\ (\A y \in E : y[1] # k) => x = NoValue

LEMMA FindKeyIs ==
  ASSUME NEW h \in Nat, NEW es, IsNode(es, h), NEW k \in Keys
  PROVE  Found(Entries(Inner(es)), k, FindKey(Inner(es), k))
<1> DEFINE path == Path(Inner(es), k)
           body(d, x) == IF path[d].leaf THEN LeafFind(path[d].kv, k)
                         ELSE IF FindIndex(path[d].es, k) = 0 THEN NoValue ELSE x
           call == CHOOSE f : f = [d \in Nat |-> body(d, f[d + 1])]
<1>1. FindKey(Inner(es), k) = call[0]
  BY DEF FindKey
<1>2. Descends(es, h, k, path)
  BY PathIs
<1>3. \A d \in Nat : \A x : Turn("find", path, d, x, k, 0) = body(d, x)
  BY DEF Turn
<1> HIDE DEF path
<1>4. /\ path[0] = Inner(es)
      /\ \A d \in 0 .. h : /\ IsNode(path[d].es, h - d) /\ path[d] = Inner(path[d].es)
                           /\ path[d + 1] \in Good[h - d]
                           /\ path[d + 1] = path[d].es[At(path[d].es, k)].node
      /\ \A d \in Nat : d > h => path[d] \in Filled
  BY <1>2 DEF Descends
<1>5. /\ \A d \in Nat : d > h => \A x : body(d, x) = LeafFind(path[d].kv, k)
      /\ \A d \in 0 .. h : \A x : body(d, x) = IF FindIndex(path[d].es, k) = 0 THEN NoValue ELSE x
  <2>1. \A d \in Nat : d > h => path[d].leaf
    BY <1>4, LeafIs
  <2>2. \A d \in 0 .. h : ~path[d].leaf
    <3>1. \A x : ~Inner(x).leaf
      BY DEF Inner
    <3> QED BY <1>4, <3>1
  <2> QED BY <2>1, <2>2
<1> HIDE DEF body
<1>6. call = [d \in Nat |-> body(d, call[d + 1])]
  <2>1. Ends("find", path, k, 0, h + 1)
    <3>1. \A d \in Nat : d >= h + 1 => d > h
      OBVIOUS
    <3> QED BY <1>3, <1>5, <3>1 DEF Ends
  <2>2. PICK f : Returned("find", path, k, 0, f)
    BY <2>1, Calls
  <2>3. f = [d \in Nat |-> body(d, f[d + 1])]
    BY <1>3, <2>2 DEF Returned
  <2> QED BY <2>3
<1> HIDE DEF call
<1> DEFINE S == {d \in Nat : Found(Entries(path[d]), k, call[d])}
<1>7. h + 1 \in S
  <2>1. path[h + 1] \in Filled /\ h + 1 \in Nat /\ h + 1 > h
    BY <1>4
  <2>2. Entries(path[h + 1]) = {<<j, path[h + 1].kv[j]>> : j \in DOMAIN path[h + 1].kv}
    BY <2>1, LeafHolds
  <2>3. call[h + 1] = LeafFind(path[h + 1].kv, k)
    BY <1>5, <1>6, <2>1
  <2>4. Found(Entries(path[h + 1]), k, call[h + 1])
    <3>1. CASE k \in DOMAIN path[h + 1].kv
      <4>1. <<k, path[h + 1].kv[k]>> \in Entries(path[h + 1]) /\ <<k, path[h + 1].kv[k]>>[1] = k
        BY <2>2, <3>1
      <4>2. \A y \in Entries(path[h + 1]) : y[1] = k => y[2] = path[h + 1].kv[k]
        BY <2>2
      <4>3. call[h + 1] = path[h + 1].kv[k]
        BY <2>3, <3>1 DEF LeafFind
      <4> QED BY <4>1, <4>2, <4>3 DEF Found
    <3>2. CASE k \notin DOMAIN path[h + 1].kv
      <4>1. \A y \in Entries(path[h + 1]) : y[1] # k
        BY <2>2, <3>2
      <4>2. call[h + 1] = NoValue
        BY <2>3, <3>2 DEF LeafFind
      <4> QED BY <4>1, <4>2 DEF Found
    <3> QED BY <3>1, <3>2
  <2> QED BY <2>1, <2>4
<1>8. ASSUME NEW d \in Nat, d < h + 1, d + 1 \in S PROVE d \in S
  <2>1. d \in 0 .. h /\ h - d \in Nat
    BY <1>8
  <2> DEFINE zs == path[d].es
  <2>2. IsNode(zs, h - d) /\ path[d] = Inner(zs) /\ path[d + 1] = zs[At(zs, k)].node
    BY <1>4, <2>1
  <2>3. call[d] = IF FindIndex(zs, k) = 0 THEN NoValue ELSE call[d + 1]
    BY <1>5, <1>6, <2>1
  <2>4. Found(Entries(path[d + 1]), k, call[d + 1])
    BY <1>8
  <2> HIDE DEF zs
  <2>5. /\ FindIndex(zs, k) = 0 => \A y \in Entries(path[d]) : y[1] # k
        /\ FindIndex(zs, k) # 0 =>
             \A y : y[1] = k => (y \in Entries(path[d]) <=> y \in Entries(path[d + 1]))
    BY <2>1, <2>2, Through
  <2>6. Found(Entries(path[d]), k, call[d])
    <3>1. CASE FindIndex(zs, k) = 0
      BY <2>3, <2>5, <3>1 DEF Found
    <3>2. CASE FindIndex(zs, k) # 0
      BY <2>3, <2>4, <2>5, <3>2 DEF Found
    <3> QED BY <3>1, <3>2
  <2> QED BY <2>6
<1> HIDE DEF S
<1>9. 0 \in S
  BY <1>7, <1>8, Descend
<1> QED BY <1>1, <1>4, <1>9 DEF S

\* What update of k in a node returns: the node with another value for the key,
\* if the key is there.
Updated(N, n, k, v, r) ==
  /\ r.node \in N /\ MinKey(r.node) = MinKey(n)
  /\ r.found \in BOOLEAN /\ (r.found <=> \E y \in Entries(n) : y[1] = k)
  /\ Entries(r.node) = IF r.found THEN Put(Entries(n), k, v) ELSE Entries(n)
  /\ Edited(Bottom(n), Bottom(r.node))

LEMMA LeafUpdateIs ==
  ASSUME NEW n \in Filled, NEW k \in Keys, NEW v \in Values
  PROVE  Updated(Filled, n, k, v, LeafUpdate(n.kv, k, v))
<1> DEFINE f == n.kv
           g == IF k \in DOMAIN f THEN [f EXCEPT ![k] = v] ELSE f
           r == LeafUpdate(f, k, v)
<1>1. /\ n = Leaf(f) /\ IsFilled(f) /\ f = [j \in DOMAIN f |-> f[j]]
      /\ \A j \in DOMAIN f : f[j] \in Values
      /\ Entries(n) = {<<j, f[j]>> : j \in DOMAIN f}
  BY LeafIs, LeafHolds
<1>2. r.node = Leaf(g) /\ r.found = (k \in DOMAIN f)
  BY DEF LeafUpdate
<1> HIDE DEF r, f
<1>3. /\ DOMAIN g = DOMAIN f /\ g = [j \in DOMAIN f |-> g[j]]
      /\ \A j \in DOMAIN f : g[j] = IF j = k THEN v ELSE f[j]
  BY <1>1
<1> HIDE DEF g
<1>4. IsFilled(g)
  BY <1>1, <1>3 DEF IsFilled
<1>5. Leaf(g) \in Filled /\ Leaf(g).kv = g /\ Leaf(g).leaf
  BY <1>4, FilledIs
<1>6. Entries(Leaf(g)) = {<<j, g[j]>> : j \in DOMAIN g}
  BY <1>5, LeafHolds
<1>7. MinKey(Leaf(g)) = MinKey(n)
  BY <1>1, <1>3 DEF MinKey, Leaf
<1>8. r.found <=> \E y \in Entries(n) : y[1] = k
  <2>1. CASE k \in DOMAIN f
    <3>1. <<k, f[k]>> \in Entries(n) /\ <<k, f[k]>>[1] = k
      BY <1>1, <2>1
    <3> QED BY <1>2, <2>1, <3>1
  <2>2. CASE k \notin DOMAIN f
    <3>1. \A y \in Entries(n) : y[1] \in DOMAIN f
      BY <1>1
    <3> QED BY <1>2, <2>2, <3>1
  <2> QED BY <2>1, <2>2
<1>9. Entries(r.node) = IF r.found THEN Put(Entries(n), k, v) ELSE Entries(n)
  <2>1. CASE k \in DOMAIN f
    <3>1. ASSUME NEW x \in Entries(Leaf(g)) PROVE x \in Put(Entries(n), k, v)
      BY <1>1, <1>3, <1>6 DEF Put
    <3>2. ASSUME NEW x \in Put(Entries(n), k, v) PROVE x \in Entries(Leaf(g))
      <4>1. CASE x = <<k, v>>
        BY <1>3, <1>6, <2>1, <4>1
      <4>2. CASE x \in Entries(n) /\ x[1] # k
        BY <1>1, <1>3, <1>6, <4>2
      <4> QED BY <4>1, <4>2 DEF Put
    <3>3. Entries(Leaf(g)) = Put(Entries(n), k, v)
      BY <3>1, <3>2
    <3> QED BY <1>2, <2>1, <3>3
  <2>2. CASE k \notin DOMAIN f
    <3>1. \A j \in DOMAIN f : g[j] = f[j]
      BY <1>3, <2>2
    <3>2. Entries(Leaf(g)) = Entries(n)
      BY <1>1, <1>3, <1>6, <3>1
    <3> QED BY <1>2, <2>2, <3>2
  <2> QED BY <2>1, <2>2
<1>11. Edited(Bottom(n), Bottom(r.node))
  <2>1. /\ KeysOf(Leaf(g)) = DOMAIN g /\ KeysOf(n) = DOMAIN n.kv /\ KeysOf(n) # {}
        /\ DOMAIN n.kv = DOMAIN g
    BY <1>3, <1>5, LeafHolds DEF Sound, f
  <2>2. KeysOf(n) \cap KeysOf(Leaf(g)) # {}
    BY <2>1
  <2> QED BY <1>2, <1>5, <2>2, LeafEdited
<1>10. Updated(Filled, n, k, v, r)
  BY <1>2, <1>5, <1>7, <1>8, <1>9, <1>11 DEF Updated
<1> QED BY <1>10 DEF r, f

\* The child that k belongs to is replaced by one with another value for it.
LEMMA UpdateStepIs ==
  ASSUME NEW N, Layer(N), NEW es \in Seq(Entry(N)), es # <<>>, Fan(es),
         NEW k \in Keys, NEW v, NEW i \in 1 .. Len(es), i = FindIndex(es, k),
         NEW r, Updated(N, es[i].node, k, v, r), NEW t, IsPut(t, es, i, r.node)
  PROVE  /\ t \in Seq(Entry(N)) /\ t # <<>> /\ Fan(t) /\ Len(t) = Len(es) /\ t[1].key = es[1].key
         /\ r.found <=> \E y \in Held(es) : y[1] = k
         /\ Held(t) = IF r.found THEN Put(Held(es), k, v) ELSE Held(es)
         /\ Edited(Under(es), Under(t))
<1> DEFINE old == es[i].node
<1>1. Sounds(N) /\ Keys \subseteq Nat /\ Len(es) \in Nat /\ 1 \in 1 .. Len(es)
  BY LenProperties, TreeAssumption, EmptySeq DEF Layer, Sounds, TreeAssumption
<1>2. old \in N /\ es[i].key \in Nat /\ es[i].key <= MinKey(old)
  BY ElementOfSeq, EntryIs DEF Fan
<1>3. /\ r.node \in N /\ MinKey(r.node) = MinKey(old)
      /\ r.found \in BOOLEAN /\ (r.found <=> \E y \in Entries(old) : y[1] = k)
      /\ Entries(r.node) = IF r.found THEN Put(Entries(old), k, v) ELSE Entries(old)
      /\ Edited(Bottom(old), Bottom(r.node))
  BY DEF Updated
<1>4. \A x \in Entries(r.node) : \E y \in Entries(old) : x[1] = y[1]
  <2>1. \A x \in Put(Entries(old), k, v) : x \in Entries(old) \/ x[1] = k
    BY DEF Put
  <2> QED BY <1>3, <2>1
<1> HIDE DEF old
<1>5. KeysOf(r.node) \subseteq KeysOf(old)
  <2>1. KeysOf(r.node) = {x[1] : x \in Entries(r.node)} /\ KeysOf(old) = {x[1] : x \in Entries(old)}
    BY <1>1, <1>2, <1>3 DEF Sounds, Sound
  <2> QED BY <1>4, <2>1
<1>6. Replaced(N, es, i, r.node, t)
  BY <1>1, <1>2, <1>3, <1>5, ReplaceChild DEF old
<1>7. /\ t \in Seq(Entry(N)) /\ Fan(t) /\ Len(t) = Len(es)
      /\ t[i] = [key |-> es[i].key, node |-> r.node]
      /\ \A j \in 1 .. Len(es) : j # i => t[j] = es[j]
  BY <1>6 DEF Replaced
<1>8. /\ Entries(r.node) \subseteq Held(t)
      /\ \A j \in 1 .. Len(es) : j # i => Entries(es[j].node) \subseteq Held(t)
      /\ \A y \in Held(t) : y \in Entries(r.node) \/ \E j \in 1 .. Len(es) : j # i /\ y \in Entries(es[j].node)
  BY <1>6, ReplacedHeld
<1>9. \A j \in 1 .. Len(es) : j # i => \A x \in Entries(es[j].node) : x[1] # k
  <2> SUFFICES ASSUME NEW j \in 1 .. Len(es), j # FindIndex(es, k)
               PROVE  \A x \in Entries(es[j].node) : x[1] # k
    OBVIOUS
  <2> QED BY <1>1, OnlyThere
<1>10. \A y : y \in Held(es) <=> y \in Entries(old) \/ \E j \in 1 .. Len(es) : j # i /\ y \in Entries(es[j].node)
  BY DEF Held, Elems, old
<1>14. Edited(Under(es), Under(t))
  <2>1. t[i].node = r.node /\ \A j \in 1 .. Len(es) : j # i => t[j].node = es[j].node
    BY <1>7
  <2>2. Edited(Bottom(es[i].node), Bottom(t[i].node) \cup {})
    BY <1>3, <2>1 DEF old
  <2>3. Edited(Under(es), Under(t) \cup {})
    BY <1>1, <1>7, <2>1, <2>2, EditedUnder
  <2> QED BY <2>3
<1>11. r.found <=> \E y \in Held(es) : y[1] = k
  BY <1>3, <1>9, <1>10
<1>12. CASE r.found
  <2>1. \A y : y \in Entries(r.node) <=> (y \in Entries(old) /\ y[1] # k) \/ y = <<k, v>>
    BY <1>3, <1>12 DEF Put
  <2>2. ASSUME NEW y \in Held(t) PROVE y \in Put(Held(es), k, v)
    <3>1. CASE y \in Entries(r.node)
      BY <1>10, <2>1, <3>1 DEF Put
    <3>2. CASE \E j \in 1 .. Len(es) : j # i /\ y \in Entries(es[j].node)
      BY <1>9, <1>10, <3>2 DEF Put
    <3> QED BY <1>8, <3>1, <3>2
  <2>3. ASSUME NEW y \in Put(Held(es), k, v) PROVE y \in Held(t)
    <3>1. CASE y = <<k, v>>
      BY <1>8, <2>1, <3>1
    <3>2. CASE y \in Held(es) /\ y[1] # k
      BY <1>8, <1>10, <2>1, <3>2
    <3> QED BY <3>1, <3>2 DEF Put
  <2>4. Held(t) = Put(Held(es), k, v)
    BY <2>2, <2>3
  <2>5. t # <<>> /\ t[1].key = es[1].key
    BY <1>1, <1>7, EmptySeq
  <2> QED BY <1>7, <1>11, <1>12, <1>14, <2>4, <2>5
<1>13. CASE ~r.found
  <2>1. Entries(r.node) = Entries(old)
    BY <1>3, <1>13
  <2>2. \A y : y \in Held(t) <=> y \in Held(es)
    BY <1>8, <1>10, <2>1
  <2>3. Held(t) = Held(es)
    BY <2>2
  <2>5. t # <<>> /\ t[1].key = es[1].key
    BY <1>1, <1>7, EmptySeq
  <2> QED BY <1>7, <1>11, <1>13, <1>14, <2>3, <2>5
<1> QED BY <1>3, <1>12, <1>13

\* What update of k in a node with the entries es, over trees of height h, returns.
Rewritten(h, es, k, v, r) ==
  /\ r.node = Inner(r.node.es) /\ IsNode(r.node.es, h)
  /\ Len(r.node.es) = Len(es) /\ r.node.es[1].key = es[1].key
  /\ r.found \in BOOLEAN /\ (r.found <=> \E y \in Entries(Inner(es)) : y[1] = k)
  /\ Entries(r.node) = IF r.found THEN Put(Entries(Inner(es)), k, v) ELSE Entries(Inner(es))
  /\ Edited(Bottom(Inner(es)), Bottom(r.node))

LEMMA UpdateKeyIs ==
  ASSUME NEW h \in Nat, NEW es, IsNode(es, h), NEW k \in Keys, NEW v \in Values
  PROVE  Rewritten(h, es, k, v, UpdateKey(Inner(es), k, v))
<1> DEFINE path == Path(Inner(es), k)
           put(zs, x) == [zs EXCEPT ![FindIndex(zs, k)].node = x]
           body(d, x) == IF path[d].leaf THEN LeafUpdate(path[d].kv, k, v)
                         ELSE IF FindIndex(path[d].es, k) = 0
                         THEN [node |-> path[d], found |-> FALSE]
                         ELSE [node |-> Inner(put(path[d].es, x.node)), found |-> x.found]
           call == CHOOSE f : f = [d \in Nat |-> body(d, f[d + 1])]
<1>1. UpdateKey(Inner(es), k, v) = call[0]
  BY DEF UpdateKey
<1>2. Descends(es, h, k, path)
  BY PathIs
<1>3. \A d \in Nat : \A x : Turn("update", path, d, x, k, v) = body(d, x)
  BY DEF Turn
<1> HIDE DEF path
<1>4. /\ path[0] = Inner(es)
      /\ \A d \in 0 .. h : /\ IsNode(path[d].es, h - d) /\ path[d] = Inner(path[d].es)
                           /\ path[d + 1] \in Good[h - d]
                           /\ path[d + 1] = path[d].es[At(path[d].es, k)].node
      /\ \A d \in Nat : d > h => path[d] \in Filled
  BY <1>2 DEF Descends
<1>5. /\ \A d \in Nat : d > h => \A x : body(d, x) = LeafUpdate(path[d].kv, k, v)
      /\ \A d \in 0 .. h : \A x : body(d, x) = IF FindIndex(path[d].es, k) = 0
                                               THEN [node |-> path[d], found |-> FALSE]
                                               ELSE [node |-> Inner(put(path[d].es, x.node)), found |-> x.found]
  <2>1. \A d \in Nat : d > h => path[d].leaf
    BY <1>4, LeafIs
  <2>2. \A d \in 0 .. h : ~path[d].leaf
    <3>1. \A x : ~Inner(x).leaf
      BY DEF Inner
    <3> QED BY <1>4, <3>1
  <2> QED BY <2>1, <2>2
<1> HIDE DEF body
<1>6. call = [d \in Nat |-> body(d, call[d + 1])]
  <2>1. Ends("update", path, k, v, h + 1)
    <3>1. \A d \in Nat : d >= h + 1 => d > h
      OBVIOUS
    <3> QED BY <1>3, <1>5, <3>1 DEF Ends
  <2>2. PICK f : Returned("update", path, k, v, f)
    BY <2>1, Calls
  <2>3. f = [d \in Nat |-> body(d, f[d + 1])]
    BY <1>3, <2>2 DEF Returned
  <2> QED BY <2>3
<1> HIDE DEF call
\* One level.
<1>7. ASSUME NEW d \in 0 .. h, Updated(Good[h - d], path[d + 1], k, v, call[d + 1])
      PROVE  Rewritten(h - d, path[d].es, k, v, call[d])
  <2> DEFINE zs == path[d].es
             i  == FindIndex(zs, k)
             r  == call[d + 1]
             t  == put(zs, r.node)
             N  == Good[h - d]
  <2>0. h - d \in Nat /\ d \in Nat
    OBVIOUS
  <2>1. IsNode(zs, h - d) /\ path[d] = Inner(zs) /\ path[d + 1] = zs[At(zs, k)].node
    BY <1>4
  <2>2. call[d] = IF i = 0 THEN [node |-> path[d], found |-> FALSE] ELSE [node |-> Inner(t), found |-> r.found]
    <3>1. call[d] = body(d, r)
      BY <1>6, <2>0
    <3> HIDE DEF r
    <3> QED BY <1>5, <3>1
  <2>3. zs \in Seq(Entry(N)) /\ zs # <<>> /\ Fan(zs) /\ Layer(N) /\ Sounds(N)
    BY <2>0, <2>1, GoodLayer DEF IsNode, Layer, Sounds
  <2>4. Entries(Inner(zs)) = Held(zs) /\ Bottom(Inner(zs)) = Under(zs)
    BY <2>0, <2>3, HoldsOver
  <2>5. \A x : Inner(x).es = x
    BY DEF Inner
  <2>6. Updated(N, path[d + 1], k, v, r)
    BY <1>7
  <2> HIDE DEF zs, r
  <2>7. CASE i = 0
    <3>1. call[d].node = Inner(zs) /\ call[d].node.es = zs /\ call[d].found = FALSE
      BY <2>1, <2>2, <2>5, <2>7
    <3>2. \A y \in Entries(Inner(zs)) : y[1] # k
      BY <2>0, <2>1, <2>7, Through
    <3>3. Rewritten(h - d, zs, k, v, call[d])
      BY <2>1, <3>1, <3>2 DEF Rewritten, Edited
    <3> QED BY <3>3 DEF zs
  <2>8. CASE i # 0
    <3>1. i \in 1 .. Len(zs) /\ At(zs, k) = i
      BY <2>3, <2>8, AtIn
    <3>2. Updated(N, zs[i].node, k, v, r)
      BY <2>1, <2>6, <3>1
    <3>3. IsPut(t, zs, i, r.node) /\ i = FindIndex(zs, k)
      BY DEF IsPut
    <3> HIDE DEF i, t, N
    <3>4. /\ t \in Seq(Entry(N)) /\ t # <<>> /\ Fan(t) /\ Len(t) = Len(zs) /\ t[1].key = zs[1].key
          /\ r.found <=> \E y \in Held(zs) : y[1] = k
          /\ Held(t) = IF r.found THEN Put(Held(zs), k, v) ELSE Held(zs)
          /\ Edited(Under(zs), Under(t))
      BY <2>3, <3>1, <3>2, <3>3, UpdateStepIs
    <3>5. r.found \in BOOLEAN
      BY <3>2 DEF Updated
    <3>6. IsNode(t, h - d) /\ Entries(Inner(t)) = Held(t) /\ Bottom(Inner(t)) = Under(t)
      BY <2>0, <3>4, HoldsOver DEF IsNode, N
    <3>7. call[d].node = Inner(t) /\ call[d].node.es = t /\ call[d].found = r.found
      BY <2>2, <2>5, <2>8
    <3>8. Rewritten(h - d, zs, k, v, call[d])
      BY <2>4, <3>4, <3>5, <3>6, <3>7 DEF Rewritten
    <3> QED BY <3>8 DEF zs
  <2> QED BY <2>7, <2>8
<1> DEFINE S == {d \in Nat : Rewritten(h - d, path[d].es, k, v, call[d])}
<1>8. h \in S
  <2>1. path[h + 1] \in Filled /\ h + 1 \in Nat /\ h + 1 > h /\ h \in 0 .. h /\ h - h = 0
    BY <1>4
  <2>2. call[h + 1] = LeafUpdate(path[h + 1].kv, k, v)
    BY <1>5, <1>6, <2>1
  <2>3. Updated(Good[h - h], path[h + 1], k, v, call[h + 1])
    BY <2>1, <2>2, LeafUpdateIs, GoodIs
  <2> QED BY <1>7, <2>1, <2>3
<1>9. ASSUME NEW d \in Nat, d < h, d + 1 \in S PROVE d \in S
  <2>1. d \in 0 .. h /\ d + 1 \in 0 .. h /\ h - d \in Nat /\ h - d # 0 /\ (h - d) - 1 = h - (d + 1) /\ h - (d + 1) \in Nat
    BY <1>9
  <2> DEFINE zs == path[d + 1].es
             r  == call[d + 1]
             j  == h - (d + 1)
  <2>2. Rewritten(j, zs, k, v, r)
    BY <1>9
  <2>3. path[d + 1] \in Good[h - d] /\ path[d + 1] = Inner(zs) /\ Sized(zs) /\ IsNode(zs, j)
    <3>1. path[d + 1] \in Good[h - d]
      BY <1>4, <2>1
    <3>2. Sized(zs)
      BY <2>1, <3>1, GoodNodes
    <3> QED BY <1>4, <2>1, <3>1, <3>2
  <2>4. j \in Nat /\ j + 1 = h - d
    BY <2>1
  <2> HIDE DEF zs, r, j
  <2> DEFINE t == r.node.es
  <2>5. /\ r.node = Inner(t) /\ IsNode(t, j) /\ Len(t) = Len(zs) /\ t[1].key = zs[1].key
        /\ r.found \in BOOLEAN /\ (r.found <=> \E y \in Entries(Inner(zs)) : y[1] = k)
        /\ Entries(r.node) = IF r.found THEN Put(Entries(Inner(zs)), k, v) ELSE Entries(Inner(zs))
        /\ Edited(Bottom(Inner(zs)), Bottom(r.node))
    BY <2>2 DEF Rewritten
  <2> HIDE DEF t
  <2>6. /\ t \in Seq(Entry(Good[j])) /\ t # <<>> /\ Fan(t)
        /\ zs \in Seq(Entry(Good[j])) /\ zs # <<>> /\ Fan(zs) /\ Layer(Good[j])
    BY <2>3, <2>4, <2>5, GoodLayer DEF IsNode
  <2>7. MinKey(Inner(t)) = MinKey(Inner(zs)) /\ Inner(t) \in Fans(Good[j]) /\ Inner(t).es = t
    BY <2>5, <2>6, FansIntro
  <2>8. Inner(t) \in Good[j + 1]
    <3>1. Sized(t)
      BY <2>3, <2>5 DEF Sized
    <3> QED BY <2>4, <2>7, <3>1, GoodIs DEF Grown
  <2>9. Updated(Good[h - d], path[d + 1], k, v, call[d + 1])
    BY <2>3, <2>4, <2>5, <2>7, <2>8 DEF Updated, r
  <2> QED BY <1>7, <2>1, <2>9
<1> HIDE DEF S
<1>10. 0 \in S
  BY <1>8, <1>9, Descend
<1>11. Rewritten(h - 0, path[0].es, k, v, call[0])
  BY <1>10 DEF S
<1>12. path[0].es = es /\ h - 0 = h
  BY <1>4 DEF Inner
<1> QED BY <1>1, <1>11, <1>12
-----------------------------------------------------------------------------
\* What is in a leaf, as a set of pairs.
IsPart(f) == /\ DOMAIN f \subseteq Keys /\ IsFiniteSet(DOMAIN f)
             /\ f = [k \in DOMAIN f |-> f[k]] /\ \A k \in DOMAIN f : f[k] \in Values

Pairs(f) == {<<k, f[k]>> : k \in DOMAIN f}

LEMMA PairsIs ==
  ASSUME NEW f
  PROVE  /\ \A k \in DOMAIN f : <<k, f[k]>> \in Pairs(f) /\ <<k, f[k]>>[1] = k
         /\ \A x \in Pairs(f) : x[1] \in DOMAIN f /\ x = <<x[1], f[x[1]]>>
BY DEF Pairs

\* A leaf of as many keys as it may have.
LEMMA PartLeaf ==
  ASSUME NEW f, IsPart(f), Cardinality(DOMAIN f) \in 1 .. 2 * LeafDegree - 1
  PROVE  /\ Leaf(f) \in Filled /\ Entries(Leaf(f)) = Pairs(f) /\ KeysOf(Leaf(f)) = DOMAIN f
         /\ MinKey(Leaf(f)) \in DOMAIN f /\ \A k \in DOMAIN f : MinKey(Leaf(f)) <= k
<1>1. IsFilled(f)
  BY DEF IsPart, IsFilled
<1>2. Leaf(f) \in Filled /\ Leaf(f).kv = f /\ Leaf(f).leaf
  BY <1>1, FilledIs
<1>3. Entries(Leaf(f)) = Pairs(f) /\ KeysOf(Leaf(f)) = DOMAIN f /\ Sound(Leaf(f))
  BY <1>2, LeafHolds DEF Pairs
<1>4. DOMAIN f \subseteq Nat /\ DOMAIN f # {}
  <2>1. Keys \subseteq Nat
    BY TreeAssumption DEF TreeAssumption
  <2> QED BY <1>3, <2>1 DEF IsPart, Sound
<1>5. MinKey(Leaf(f)) = CHOOSE k \in DOMAIN f : \A j \in DOMAIN f : k <= j
  BY <1>2 DEF MinKey
<1>6. \E k \in DOMAIN f : \A j \in DOMAIN f : k <= j
  BY <1>4, MinIsLeast
<1> QED BY <1>2, <1>3, <1>5, <1>6

LEMMA LeafPart ==
  ASSUME NEW n \in Filled
  PROVE  /\ IsPart(n.kv) /\ Cardinality(DOMAIN n.kv) \in 1 .. 2 * LeafDegree - 1 /\ n = Leaf(n.kv)
BY LeafIs DEF IsFilled, IsPart

\* With one pair more, or changed.
LEMMA WithIs ==
  ASSUME NEW f, IsPart(f), NEW k \in Keys, NEW v \in Values
  PROVE  /\ IsPart(WithEntry(f, k, v)) /\ DOMAIN WithEntry(f, k, v) = DOMAIN f \cup {k}
         /\ Pairs(WithEntry(f, k, v)) = Put(Pairs(f), k, v)
         /\ Cardinality(DOMAIN WithEntry(f, k, v)) \in Nat \ {0}
         /\ k \in DOMAIN f => Cardinality(DOMAIN WithEntry(f, k, v)) = Cardinality(DOMAIN f)
         /\ k \notin DOMAIN f => Cardinality(DOMAIN WithEntry(f, k, v)) = Cardinality(DOMAIN f) + 1
<1> DEFINE g == WithEntry(f, k, v)
<1>1. g = [j \in DOMAIN f \cup {k} |-> IF j = k THEN v ELSE f[j]]
  BY DEF WithEntry
<1> HIDE DEF g
<1>2. DOMAIN g = DOMAIN f \cup {k} /\ g[k] = v /\ \A j \in DOMAIN f : j # k => g[j] = f[j]
  BY <1>1
<1>3. IsFiniteSet(DOMAIN f) /\ IsFiniteSet(DOMAIN f \cup {k})
  BY FS_AddElement DEF IsPart
<1>4. IsPart(g)
  BY <1>1, <1>2, <1>3 DEF IsPart
<1>5. Pairs(g) = Put(Pairs(f), k, v)
  <2>1. ASSUME NEW x \in Pairs(g) PROVE x \in Put(Pairs(f), k, v)
    BY <1>2, <2>1 DEF Pairs, Put
  <2>2. ASSUME NEW x \in Put(Pairs(f), k, v) PROVE x \in Pairs(g)
    <3>1. CASE x = <<k, v>>
      BY <1>2, <3>1 DEF Pairs
    <3>2. CASE x \in Pairs(f) /\ x[1] # k
      BY <1>2, <3>2 DEF Pairs
    <3> QED BY <3>1, <3>2 DEF Put
  <2> QED BY <2>1, <2>2
<1>6. /\ k \in DOMAIN f => Cardinality(DOMAIN g) = Cardinality(DOMAIN f)
      /\ k \notin DOMAIN f => Cardinality(DOMAIN g) = Cardinality(DOMAIN f) + 1
  BY <1>2, <1>3, FS_AddElement
<1>7. Cardinality(DOMAIN g) \in Nat \ {0}
  BY <1>2, <1>3, FS_CardinalityType, FS_EmptySet
<1> QED BY <1>2, <1>4, <1>5, <1>6, <1>7 DEF g

\* Some of the pairs.
LEMMA PartIs ==
  ASSUME NEW f, IsPart(f), NEW S \in SUBSET DOMAIN f
  PROVE  /\ IsPart(PartOf(f, S)) /\ DOMAIN PartOf(f, S) = S
         /\ Pairs(PartOf(f, S)) = {x \in Pairs(f) : x[1] \in S}
         /\ Cardinality(S) \in Nat /\ Cardinality(S) <= Cardinality(DOMAIN f)
         /\ S # DOMAIN f => Cardinality(S) < Cardinality(DOMAIN f)
         /\ S # {} => Cardinality(S) # 0
<1> DEFINE g == PartOf(f, S)
<1>1. g = [j \in S |-> f[j]]
  BY DEF PartOf
<1> HIDE DEF g
<1>2. DOMAIN g = S /\ \A j \in S : g[j] = f[j]
  BY <1>1
<1>3. IsFiniteSet(DOMAIN f) /\ IsFiniteSet(S)
  BY FS_Subset DEF IsPart
<1>4. IsPart(g)
  BY <1>1, <1>2, <1>3 DEF IsPart
<1>5. Pairs(g) = {x \in Pairs(f) : x[1] \in S}
  <2>1. ASSUME NEW x \in Pairs(g) PROVE x \in Pairs(f) /\ x[1] \in S
    BY <1>2, <2>1 DEF Pairs
  <2>2. ASSUME NEW x \in Pairs(f), x[1] \in S PROVE x \in Pairs(g)
    BY <1>2, <2>2 DEF Pairs
  <2> QED BY <2>1, <2>2
<1>6. /\ Cardinality(S) \in Nat /\ Cardinality(DOMAIN f) \in Nat /\ Cardinality(S) <= Cardinality(DOMAIN f)
      /\ S # DOMAIN f => Cardinality(S) # Cardinality(DOMAIN f)
      /\ S # {} => Cardinality(S) # 0
  BY <1>3, FS_Subset, FS_CardinalityType, FS_EmptySet
<1> QED BY <1>2, <1>4, <1>5, <1>6 DEF g

\* LeafNode::insert, and split of a leaf that is full.
LEMMA LeafInsertIs ==
  ASSUME NEW n \in Filled, NEW k \in Keys, NEW v \in Values
  PROVE  Inserted(Filled, n, k, v, LeafInsert(n.kv, k, v))
<1> DEFINE f     == n.kv
           c     == Cardinality(DOMAIN f)
           low   == Smallest(DOMAIN f, c - c \div 2)
           high  == DOMAIN f \ low
           left  == PartOf(f, low)
           right == PartOf(f, high)
           key   == MinKey(Leaf(right))
           r     == LeafInsert(f, k, v)
           max   == 2 * LeafDegree - 1
<1>1. IsPart(f) /\ c \in 1 .. max /\ n = Leaf(f)
  BY LeafPart
<1>2. r = IF k \in DOMAIN f \/ ~(c >= max)
          THEN [node |-> Leaf(WithEntry(f, k, v)), new |-> <<>>]
          ELSE IF k < key
          THEN [node |-> Leaf(WithEntry(left, k, v)), new |-> <<[key |-> key, node |-> Leaf(right)]>>]
          ELSE [node |-> Leaf(left), new |-> <<[key |-> key, node |-> Leaf(WithEntry(right, k, v))]>>]
  BY DEF LeafInsert, LeafFull
<1>3. k \in Nat /\ Keys \subseteq Nat /\ LeafDegree \in Nat /\ max \in Nat /\ c \in Nat /\ max >= 3
  <2>1. LeafDegree \in Nat /\ LeafDegree >= 2
    BY DegreeAssumption
  <2> QED BY <1>1, <2>1, TreeAssumption DEF TreeAssumption
<1> HIDE DEF r, f
<1>4. /\ Entries(n) = Pairs(f) /\ MinKey(n) \in DOMAIN f /\ \A j \in DOMAIN f : MinKey(n) <= j
      /\ DOMAIN f \subseteq Keys /\ DOMAIN f \subseteq Nat
  BY <1>1, <1>3, PartLeaf DEF IsPart
\* The least key of a leaf with a new one.
<1>5. ASSUME NEW g, IsPart(g), Cardinality(DOMAIN g) \in 1 .. max, DOMAIN g \subseteq DOMAIN f \cup {k}
      PROVE  /\ Leaf(g) \in Filled /\ Entries(Leaf(g)) = Pairs(g) /\ KeysOf(Leaf(g)) = DOMAIN g
             /\ MinKey(Leaf(g)) \in DOMAIN g /\ \A j \in DOMAIN g : MinKey(Leaf(g)) <= j
             /\ \A m \in Nat : m <= MinKey(n) /\ m <= k => m <= MinKey(Leaf(g))
  <2>1. /\ Leaf(g) \in Filled /\ Entries(Leaf(g)) = Pairs(g) /\ KeysOf(Leaf(g)) = DOMAIN g
        /\ MinKey(Leaf(g)) \in DOMAIN g /\ \A j \in DOMAIN g : MinKey(Leaf(g)) <= j
    BY <1>5, PartLeaf
  <2>2. ASSUME NEW m \in Nat, m <= MinKey(n), m <= k PROVE m <= MinKey(Leaf(g))
    <3>1. MinKey(Leaf(g)) = k \/ (MinKey(Leaf(g)) \in DOMAIN f /\ MinKey(n) <= MinKey(Leaf(g)))
      BY <1>4, <1>5, <2>1
    <3>2. MinKey(n) \in Nat /\ (MinKey(Leaf(g)) \in DOMAIN f => MinKey(Leaf(g)) \in Nat)
      BY <1>4
    <3> QED BY <1>3, <2>2, <3>1, <3>2
  <2> QED BY <2>1, <2>2
<1>8. KeysOf(n) = DOMAIN f
  BY <1>1, PartLeaf
<1>6. CASE k \in DOMAIN f \/ ~(c >= max)
  <2> DEFINE g == WithEntry(f, k, v)
  <2>1. /\ IsPart(g) /\ DOMAIN g = DOMAIN f \cup {k} /\ Pairs(g) = Put(Pairs(f), k, v)
        /\ Cardinality(DOMAIN g) \in Nat \ {0}
        /\ k \in DOMAIN f => Cardinality(DOMAIN g) = c
        /\ k \notin DOMAIN f => Cardinality(DOMAIN g) = c + 1
    BY <1>1, WithIs
  <2>2. r.node = Leaf(g) /\ r.new = <<>>
    BY <1>2, <1>6
  <2> HIDE DEF g, c, max
  <2>3. Cardinality(DOMAIN g) \in 1 .. max
    BY <1>1, <1>3, <1>6, <2>1
  <2>4. /\ Leaf(g) \in Filled /\ Entries(Leaf(g)) = Pairs(g) /\ KeysOf(Leaf(g)) = DOMAIN g
        /\ \A m \in Nat : m <= MinKey(n) /\ m <= k => m <= MinKey(Leaf(g))
    BY <1>5, <2>1, <2>3
  <2>6. Edited(Bottom(n), Bottom(r.node))
    <3>1. KeysOf(n) \cap KeysOf(Leaf(g)) # {}
      BY <1>4, <1>8, <2>1, <2>4
    <3> QED BY <2>2, <2>4, <3>1, LeafEdited
  <2>5. Inserted(Filled, n, k, v, r)
    BY <1>4, <2>1, <2>2, <2>4, <2>6 DEF Inserted
  <2> QED BY <2>5 DEF r, f
<1>7. CASE k \notin DOMAIN f /\ c >= max
  <2>1. c - c \div 2 \in Nat \ {0} /\ c - c \div 2 < c
    BY <1>3, <1>7
  <2>2. low \subseteq DOMAIN f /\ low # {} /\ high # {} /\ \A x \in low, y \in high : x < y
    <3>1. low = Least(DOMAIN f, c - c \div 2)
      BY DEF Smallest, Least
    <3>2. IsFiniteSet(DOMAIN f)
      BY <1>1 DEF IsPart
    <3> DEFINE m == c - c \div 2
               D == DOMAIN f
    <3>3. low = Least(D, m) /\ m \in Nat \ {0} /\ m < Cardinality(D) /\ D \subseteq Nat /\ IsFiniteSet(D)
      BY <1>4, <2>1, <3>1, <3>2
    <3> HIDE DEF m, low, D
    <3>4. low \subseteq D /\ low # {} /\ D \ low # {} /\ \A x \in low, y \in D \ low : x < y
      BY <3>3, LeastParts
    <3> QED BY <3>4 DEF D
  <2> HIDE DEF low
  <2>3. high \subseteq DOMAIN f /\ high # DOMAIN f /\ low # DOMAIN f /\ DOMAIN f = low \cup high
    BY <2>2
  <2> HIDE DEF high
  <2>4. /\ IsPart(left) /\ DOMAIN left = low /\ Pairs(left) = {x \in Pairs(f) : x[1] \in low}
        /\ Cardinality(low) \in Nat /\ Cardinality(low) < c /\ Cardinality(low) # 0
    BY <1>1, <2>2, <2>3, PartIs
  <2>5. /\ IsPart(right) /\ DOMAIN right = high /\ Pairs(right) = {x \in Pairs(f) : x[1] \in high}
        /\ Cardinality(high) \in Nat /\ Cardinality(high) < c /\ Cardinality(high) # 0
    BY <1>1, <2>2, <2>3, PartIs
  <2>6. k \notin low /\ k \notin high
    BY <1>7, <2>3
  <2> HIDE DEF left, right, c, max
  <2>7. Cardinality(DOMAIN left) \in 1 .. max /\ Cardinality(DOMAIN right) \in 1 .. max
    BY <1>1, <1>3, <2>4, <2>5
  <2>8. /\ Leaf(left) \in Filled /\ Entries(Leaf(left)) = Pairs(left) /\ KeysOf(Leaf(left)) = low
        /\ MinKey(Leaf(left)) \in low /\ \A j \in low : MinKey(Leaf(left)) <= j
        /\ \A m \in Nat : m <= MinKey(n) /\ m <= k => m <= MinKey(Leaf(left))
    <3>1. DOMAIN left \subseteq DOMAIN f \cup {k}
      BY <2>2, <2>4
    <3> QED BY <1>5, <2>4, <2>7, <3>1
  <2>9. /\ Leaf(right) \in Filled /\ Entries(Leaf(right)) = Pairs(right) /\ KeysOf(Leaf(right)) = high
        /\ key \in high /\ \A j \in high : key <= j
    <3>1. DOMAIN right \subseteq DOMAIN f \cup {k}
      BY <2>3, <2>5
    <3> QED BY <1>5, <2>5, <2>7, <3>1
  <2> HIDE DEF key
  <2>10. key \in Nat /\ key \in Keys /\ \A j \in low : j < key
    BY <1>4, <2>2, <2>3, <2>9
  <2>11. Put(Pairs(left), k, v) \cup Pairs(right) = Put(Pairs(f), k, v)
         /\ Pairs(left) \cup Put(Pairs(right), k, v) = Put(Pairs(f), k, v)
    <3>1. \A x \in Pairs(f) : x[1] \in DOMAIN f
      BY PairsIs
    <3>2. \A x : x \in Pairs(f) <=> x \in Pairs(left) \/ x \in Pairs(right)
      BY <2>3, <2>4, <2>5, <3>1
    <3>3. \A x \in Pairs(f) : x[1] # k
      BY <1>7, <3>1
    <3> QED BY <3>2, <3>3 DEF Put
  <2>12. CASE k < key
    <3> DEFINE g == WithEntry(left, k, v)
               e == [key |-> key, node |-> Leaf(right)]
    <3>1. /\ IsPart(g) /\ DOMAIN g = low \cup {k} /\ Pairs(g) = Put(Pairs(left), k, v)
          /\ Cardinality(DOMAIN g) \in Nat \ {0}
          /\ Cardinality(DOMAIN g) = Cardinality(low) + 1
      BY <2>4, <2>6, WithIs
    <3>2. r.node = Leaf(g) /\ r.new = <<e>>
      BY <1>2, <1>7, <2>12 DEF c, max, left, right, key
    <3> HIDE DEF g
    <3>3. Cardinality(DOMAIN g) \in 1 .. max
      BY <1>1, <1>3, <2>4, <3>1
    <3>4. /\ Leaf(g) \in Filled /\ Entries(Leaf(g)) = Pairs(g) /\ KeysOf(Leaf(g)) = DOMAIN g
          /\ \A m \in Nat : m <= MinKey(n) /\ m <= k => m <= MinKey(Leaf(g))
      <4>1. DOMAIN g \subseteq DOMAIN f \cup {k}
        BY <2>2, <3>1
      <4> QED BY <1>5, <3>1, <3>3, <4>1
    <3>5. e.key = key /\ e.node = Leaf(right) /\ e \in Entry(Filled)
      BY <2>9, <2>10 DEF Entry
    <3> HIDE DEF e
    <3>6. Own(e)
      <4>1. key <= key
        BY <2>10
      <4>2. key = MinKey(Leaf(right))
        BY DEF key
      <4> QED BY <3>5, <4>1, <4>2 DEF Own
    <3>7. \A x \in KeysOf(r.node) : x < e.key
      BY <2>10, <2>12, <3>1, <3>2, <3>4, <3>5
    <3>8. Entries(r.node) \cup Entries(e.node) = Put(Entries(n), k, v)
      BY <1>4, <2>9, <2>11, <3>1, <3>2, <3>4, <3>5
    <3>10. Edited(Bottom(n), Bottom(r.node) \cup Bottom(e.node))
      <4>1. KeysOf(n) \cap KeysOf(Leaf(g)) # {} /\ KeysOf(n) \cap KeysOf(Leaf(right)) # {}
        BY <1>8, <2>2, <2>3, <2>9, <3>1, <3>4
      <4> QED BY <2>9, <3>2, <3>4, <3>5, <4>1, LeafEdited
    <3>9. Inserted(Filled, n, k, v, r)
      BY <3>2, <3>4, <3>5, <3>6, <3>7, <3>8, <3>10 DEF Inserted
    <3> QED BY <3>9 DEF r, f
  <2>13. CASE ~(k < key)
    <3> DEFINE g == WithEntry(right, k, v)
               e == [key |-> key, node |-> Leaf(g)]
    <3>1. /\ IsPart(g) /\ DOMAIN g = high \cup {k} /\ Pairs(g) = Put(Pairs(right), k, v)
          /\ Cardinality(DOMAIN g) \in Nat \ {0}
          /\ Cardinality(DOMAIN g) = Cardinality(high) + 1
      BY <2>5, <2>6, WithIs
    <3>2. r.node = Leaf(left) /\ r.new = <<e>>
      BY <1>2, <1>7, <2>13 DEF c, max, left, right, key
    <3> HIDE DEF g
    <3>3. Cardinality(DOMAIN g) \in 1 .. max
      BY <1>1, <1>3, <2>5, <3>1
    <3>4. /\ Leaf(g) \in Filled /\ Entries(Leaf(g)) = Pairs(g) /\ MinKey(Leaf(g)) \in DOMAIN g
          /\ KeysOf(Leaf(g)) = DOMAIN g
      <4>1. DOMAIN g \subseteq DOMAIN f \cup {k}
        BY <2>3, <3>1
      <4> QED BY <1>5, <3>1, <3>3, <4>1
    <3>5. e.key = key /\ e.node = Leaf(g) /\ e \in Entry(Filled)
      BY <2>10, <3>4 DEF Entry
    <3> HIDE DEF e
    <3>6. Own(e)
      <4>1. key <= k
        BY <1>3, <2>10, <2>13
      <4> QED BY <2>9, <3>1, <3>4, <3>5, <4>1 DEF Own
    <3>7. \A x \in KeysOf(r.node) : x < e.key
      BY <2>8, <2>10, <3>2, <3>5
    <3>8. Entries(r.node) \cup Entries(e.node) = Put(Entries(n), k, v)
      BY <1>4, <2>8, <2>11, <3>1, <3>2, <3>4, <3>5
    <3>10. Edited(Bottom(n), Bottom(r.node) \cup Bottom(e.node))
      <4>1. KeysOf(n) \cap KeysOf(Leaf(left)) # {} /\ KeysOf(n) \cap KeysOf(Leaf(g)) # {}
        BY <1>8, <2>2, <2>3, <2>8, <2>9, <3>1, <3>4
      <4> QED BY <2>8, <3>2, <3>4, <3>5, <4>1, LeafEdited
    <3>9. Inserted(Filled, n, k, v, r)
      BY <2>8, <3>2, <3>5, <3>6, <3>7, <3>8, <3>10 DEF Inserted
    <3> QED BY <3>9 DEF r, f
  <2> QED BY <2>12, <2>13
<1> QED BY <1>6, <1>7

\* FPTree::insert below the root: the calls from the leaf up.
LEMMA InsertIntoIs ==
  ASSUME NEW h \in Nat, NEW es, IsNode(es, h), NEW k \in Keys, NEW v \in Values
  PROVE  \E xs, ys \in Seq(Entry(Good[h])) :
           Grew(Good[h], es, k, v, xs, ys) /\ Halves(InsertInto(Inner(es), k, v), xs, ys)
<1> DEFINE path == Path(Inner(es), k)
           body(d, x) == IF path[d].leaf THEN LeafInsert(path[d].kv, k, v)
                         ELSE InsertStep(path[d].es, k, x)
           call == CHOOSE f : f = [d \in Nat |-> body(d, f[d + 1])]
<1>1. InsertInto(Inner(es), k, v) = call[0]
  BY DEF InsertInto
<1>2. Descends(es, h, k, path)
  BY PathIs
<1>3. \A d \in Nat : \A x : Turn("insert", path, d, x, k, v) = body(d, x)
  BY DEF Turn
<1> HIDE DEF path
<1>4. /\ path[0] = Inner(es)
      /\ \A d \in 0 .. h : /\ IsNode(path[d].es, h - d) /\ path[d] = Inner(path[d].es)
                           /\ path[d + 1] \in Good[h - d]
                           /\ path[d + 1] = path[d].es[At(path[d].es, k)].node
      /\ \A d \in Nat : d > h => path[d] \in Filled
  BY <1>2 DEF Descends
<1>5. /\ \A d \in Nat : d > h => \A x : body(d, x) = LeafInsert(path[d].kv, k, v)
      /\ \A d \in 0 .. h : \A x : body(d, x) = InsertStep(path[d].es, k, x)
  <2>1. \A d \in Nat : d > h => path[d].leaf
    BY <1>4, LeafIs
  <2>2. \A d \in 0 .. h : ~path[d].leaf
    <3>1. \A x : ~Inner(x).leaf
      BY DEF Inner
    <3> QED BY <1>4, <3>1
  <2> QED BY <2>1, <2>2
<1> HIDE DEF body
<1>6. call = [d \in Nat |-> body(d, call[d + 1])]
  <2>1. Ends("insert", path, k, v, h + 1)
    <3>1. \A d \in Nat : d >= h + 1 => d > h
      OBVIOUS
    <3> QED BY <1>3, <1>5, <3>1 DEF Ends
  <2>2. PICK f : Returned("insert", path, k, v, f)
    BY <2>1, Calls
  <2>3. f = [d \in Nat |-> body(d, f[d + 1])]
    BY <1>3, <2>2 DEF Returned
  <2> QED BY <2>3
<1> HIDE DEF call
<1>7. \A d \in 0 .. h : call[d] = InsertStep(path[d].es, k, call[d + 1])
  <2> SUFFICES ASSUME NEW d \in 0 .. h PROVE call[d] = InsertStep(path[d].es, k, call[d + 1])
    OBVIOUS
  <2>1. call[d] = body(d, call[d + 1])
    BY <1>6
  <2> QED BY <1>5, <2>1
<1> DEFINE S == {d \in Nat : Inserted(Good[h - d], path[d + 1], k, v, call[d + 1])}
<1>8. h \in S
  <2>1. path[h + 1] \in Filled /\ h + 1 \in Nat /\ h + 1 > h /\ h - h = 0
    BY <1>4
  <2>2. call[h + 1] = LeafInsert(path[h + 1].kv, k, v)
    BY <1>5, <1>6, <2>1
  <2>3. Inserted(Good[h - h], path[h + 1], k, v, call[h + 1])
    BY <2>1, <2>2, LeafInsertIs, GoodIs
  <2> QED BY <2>3
<1>9. ASSUME NEW d \in Nat, d < h, d + 1 \in S PROVE d \in S
  <2>1. d \in 0 .. h /\ d + 1 \in 0 .. h /\ h - d \in Nat /\ h - d # 0 /\ (h - d) - 1 = h - (d + 1) /\ h - (d + 1) \in Nat
    BY <1>9
  <2> DEFINE zs == path[d + 1].es
             r  == call[(d + 1) + 1]
             j  == h - (d + 1)
  <2>2. Inserted(Good[j], path[(d + 1) + 1], k, v, r)
    BY <1>9
  <2>3. path[d + 1] = Inner(zs) /\ Sized(zs) /\ IsNode(zs, j) /\ path[(d + 1) + 1] = zs[At(zs, k)].node
    <3>1. path[d + 1] \in Good[h - d]
      BY <1>4, <2>1
    <3>2. Sized(zs)
      BY <2>1, <3>1, GoodNodes
    <3> QED BY <1>4, <2>1, <3>2
  <2>4. j \in Nat /\ j + 1 = h - d
    BY <2>1
  <2>5. call[d + 1] = InsertStep(zs, k, r)
    BY <1>7, <2>1
  <2> HIDE DEF zs, r, j
  <2>6. zs \in Seq(Entry(Good[j])) /\ Fan(zs) /\ Layer(Good[j]) /\ Inserted(Good[j], zs[At(zs, k)].node, k, v, r)
    BY <2>2, <2>3, <2>4, GoodLayer DEF IsNode
  <2>7. Inserted(Grown(Good[j]), Inner(zs), k, v, InsertStep(zs, k, r))
    BY <2>3, <2>6, InsertedIn
  <2>8. Inserted(Good[h - d], path[d + 1], k, v, call[d + 1])
    BY <2>3, <2>4, <2>5, <2>7, GoodIs
  <2> QED BY <2>8
<1> HIDE DEF S
<1>10. 0 \in S
  BY <1>8, <1>9, Descend
<1>11. Inserted(Good[h - 0], path[0 + 1], k, v, call[0 + 1])
  BY <1>10 DEF S
<1>12. path[0].es = es /\ h - 0 = h /\ 0 \in 0 .. h
  BY <1>4 DEF Inner
<1> DEFINE r == call[0 + 1]
<1>13. Inserted(Good[h], es[At(es, k)].node, k, v, r) /\ call[0] = InsertStep(es, k, r)
  BY <1>4, <1>7, <1>11, <1>12
<1> HIDE DEF r
<1>14. es \in Seq(Entry(Good[h])) /\ es # <<>> /\ Fan(es) /\ Sounds(Good[h])
  BY GoodLayer DEF IsNode, Layer, Sounds
<1>15. PICK xs, ys \in Seq(Entry(Good[h])) :
         Grew(Good[h], es, k, v, xs, ys) /\ Halves(InsertStep(es, k, r), xs, ys)
  BY <1>13, <1>14, InsertStepIs
<1> QED BY <1>1, <1>13, <1>15
-----------------------------------------------------------------------------
\* The root.

\* A tree with no leaf: its root is its only level.
LEMMA EmptyRoot ==
  /\ Levels(Inner(<<>>))[0] = {Inner(<<>>)}
  /\ \A d \in Nat : d > 0 => Levels(Inner(<<>>))[d] = {}
  /\ Height(Inner(<<>>)) = 1
  /\ Bottom(Inner(<<>>)) = {} /\ Entries(Inner(<<>>)) = {} /\ KeysOf(Inner(<<>>)) = {}
  /\ Held(<<>>) = {} /\ Under(<<>>) = {} /\ Elems(<<>>) = {}
<1> DEFINE n == Inner(<<>>)
           L == Levels(n)
<1>1. <<>> \in Seq(Entry(Good[0])) /\ 0 \in Nat
  OBVIOUS
<1>2. Elems(<<>>) = {}
  BY <1>1, ElemsOf
<1>3. L[0] = {n} /\ \A d \in Nat : L[d + 1] = UNION {Levels(e.node)[d] : e \in Elems(<<>>)}
  BY <1>1, LevelsBelow
<1>4. ~n.leaf
  BY DEF Inner
<1> HIDE DEF L, n
<1>5. ASSUME NEW d \in Nat, d > 0 PROVE L[d] = {}
  <2>1. d - 1 \in Nat /\ (d - 1) + 1 = d
    BY <1>5
  <2> QED BY <1>2, <1>3, <2>1
<1>6. \A d \in Nat : (L[d] = {} \/ \E m \in L[d] : m.leaf) <=> d >= 1
  <2> SUFFICES ASSUME NEW d \in Nat PROVE (L[d] = {} \/ \E m \in L[d] : m.leaf) <=> d >= 1
    OBVIOUS
  <2>1. CASE d = 0
    BY <1>3, <1>4, <2>1
  <2>2. CASE d > 0
    BY <1>5, <2>2
  <2> QED BY <2>1, <2>2
<1>7. Height(n) = 1
  BY <1>6, HeightIs DEF L
<1>8. Bottom(n) = {}
  BY <1>5, <1>7 DEF Bottom, L
<1>9. Entries(n) = {} /\ KeysOf(n) = {}
  BY <1>8 DEF Entries, KeysOf
<1>10. Held(<<>>) = {} /\ Under(<<>>) = {}
  BY <1>2 DEF Held, Under
<1> QED BY <1>2, <1>3, <1>5, <1>7, <1>8, <1>9, <1>10 DEF L, n

\* The entries of the root of a tree with leaves h levels down from its children:
\* what a node has, but for how many they are.
IsRoot(es, h) ==
  /\ es \in Seq(Entry(Good[h])) /\ Fan(es)
  /\ Len(es) <= 3 * Degree + 1
  /\ h # 0 => Len(es) >= 2

LEMMA RootHolds ==
  ASSUME NEW h \in Nat, NEW es, IsRoot(es, h)
  PROVE  /\ Entries(Inner(es)) = Held(es) /\ Bottom(Inner(es)) = Under(es)
         /\ es # <<>> => IsNode(es, h)
         /\ es = <<>> => h = 0
         /\ Sounds(Good[h]) /\ Layer(Good[h])
<1>1. es \in Seq(Entry(Good[h])) /\ Fan(es) /\ (h # 0 => Len(es) >= 2) /\ Layer(Good[h])
  BY GoodLayer DEF IsRoot
<1>2. es # <<>> => Entries(Inner(es)) = Held(es) /\ Bottom(Inner(es)) = Under(es)
  BY <1>1 DEF Layer
<1>3. ASSUME es = <<>>
      PROVE  Entries(Inner(es)) = Held(es) /\ Bottom(Inner(es)) = Under(es) /\ h = 0
  <2>1. Len(es) = 0 /\ ~(0 >= 2)
    BY <1>3
  <2>2. h = 0
    BY <1>1, <2>1
  <2>3. Entries(Inner(es)) = {} /\ Held(es) = {} /\ Bottom(Inner(es)) = {} /\ Under(es) = {}
    BY <1>3, EmptyRoot
  <2> QED BY <2>2, <2>3
<1> QED BY <1>1, <1>2, <1>3 DEF IsNode, Layer, Sounds

\* A root over two nodes that a root has become.
LEMMA NewRootIs ==
  ASSUME NEW h \in Nat, NEW xs \in Seq(Entry(Good[h])), NEW ys \in Seq(Entry(Good[h])),
         Fan(xs), Fan(ys), Apart(Elems(xs), Elems(ys)), Sized(xs), Sized(ys),
         NEW e, e.node = Inner(ys)
  PROVE  \E us : /\ NewRoot(Inner(xs), e) = Inner(us) /\ IsRoot(us, h + 1)
                 /\ Held(us) = Held(xs) \cup Held(ys) /\ Under(us) = Under(xs) \cup Under(ys)
<1> DEFINE a  == [key |-> MinKey(Inner(xs)), node |-> Inner(xs)]
           b  == [key |-> MinKey(Inner(ys)), node |-> Inner(ys)]
           us == <<a, b>>
           N  == Good[h]
<1>1. /\ Layer(N) /\ Sounds(N) /\ Degree \in Nat /\ Degree >= 1 /\ Good[h + 1] = Grown(N) /\ h + 1 \in Nat
      /\ Len(xs) \in Nat /\ Len(ys) \in Nat
  <2>1. Layer(N) /\ Good[h + 1] = Grown(N)
    BY GoodLayer, GoodIs
  <2>2. Len(xs) \in Nat /\ Len(ys) \in Nat /\ Degree \in Nat /\ Degree >= 1
    BY LenProperties, DegreeAssumption
  <2> QED BY <2>1, <2>2 DEF Layer, Sounds
<1>2. xs # <<>> /\ ys # <<>>
  BY <1>1, EmptySeq DEF Sized
<1>3. NewRoot(Inner(xs), e) = Inner(us)
  BY DEF NewRoot
<1>4. /\ Inner(xs) \in Fans(N) /\ Inner(xs).es = xs /\ Entries(Inner(xs)) = Held(xs)
      /\ MinKey(Inner(xs)) = xs[1].key
      /\ \A k \in KeysOf(Inner(xs)) : \E z \in Elems(xs) : k \in KeysOf(z.node)
  BY <1>1, <1>2, FansIntro
<1>5. /\ Inner(ys) \in Fans(N) /\ Inner(ys).es = ys /\ Entries(Inner(ys)) = Held(ys)
      /\ MinKey(Inner(ys)) = ys[1].key
  BY <1>1, <1>2, FansIntro
<1>6. Inner(xs) \in Good[h + 1] /\ Inner(ys) \in Good[h + 1]
  BY <1>1, <1>4, <1>5 DEF Grown
<1>7. xs[1].key \in Keys /\ xs[1].key \in Nat /\ ys[1].key \in Keys /\ ys[1].key \in Nat /\ ys[1] \in Elems(ys)
  <2>1. 1 \in 1 .. Len(xs) /\ 1 \in 1 .. Len(ys)
    BY <1>2, EmptySeq
  <2> QED BY <2>1, ElementOfSeq, EntryIs DEF Elems
<1>8. /\ a.key = xs[1].key /\ a.node = Inner(xs) /\ a \in Entry(Good[h + 1])
      /\ b.key = ys[1].key /\ b.node = Inner(ys) /\ b \in Entry(Good[h + 1])
  BY <1>4, <1>5, <1>6, <1>7 DEF Entry
<1>9. us \in Seq(Entry(Good[h + 1]))
  BY <1>8
<1> HIDE DEF a, b
<1>10. Own(a) /\ Own(b)
  <2>1. xs[1].key <= xs[1].key /\ ys[1].key <= ys[1].key
    BY <1>7
  <2> QED BY <1>4, <1>5, <1>8, <2>1 DEF Own
<1>11. Before(a, b)
  BY <1>4, <1>7, <1>8 DEF Apart, Before
<1>14. Bottom(Inner(xs)) = Under(xs) /\ Bottom(Inner(ys)) = Under(ys)
  BY <1>1, <1>2 DEF Layer
<1>12. /\ Len(us) = 2 /\ Fan(us) /\ Held(us) = Held(xs) \cup Held(ys)
       /\ Under(us) = Under(xs) \cup Under(ys)
  BY <1>4, <1>5, <1>8, <1>10, <1>11, <1>14, FanTwo
<1> HIDE DEF us
<1>13. IsRoot(us, h + 1)
  BY <1>1, <1>9, <1>12 DEF IsRoot
<1> QED BY <1>3, <1>12, <1>13

\* A well-formed tree.
IsTree(t) == \E h \in Nat : \E es : t = Inner(es) /\ IsRoot(es, h)

\* The same of the leaves of a tree, or the first of them is added.
Touched(B, C) == Edited(B, C) \/ (B = {} /\ \E l : C = {l})

\* FPTree::insert keeps the tree well-formed, adds the pair or changes it, and
\* leaves all leaves but one what they are.
THEOREM InsertKeyIs ==
  ASSUME NEW t, IsTree(t), NEW k \in Keys, NEW v \in Values
  PROVE  /\ IsTree(InsertKey(t, k, v))
         /\ Entries(InsertKey(t, k, v)) = Put(Entries(t), k, v)
         /\ Touched(Bottom(t), Bottom(InsertKey(t, k, v)))
<1> DEFINE r == InsertInto(t, k, v)
           T == InsertKey(t, k, v)
<1>1. PICK h \in Nat : \E zs : t = Inner(zs) /\ IsRoot(zs, h)
  BY DEF IsTree
<1>2. PICK es : t = Inner(es) /\ IsRoot(es, h)
  BY <1>1
<1>3. t.es = es
  BY <1>2 DEF Inner
<1>4. /\ Entries(t) = Held(es) /\ Bottom(t) = Under(es)
      /\ (es # <<>> => IsNode(es, h)) /\ (es = <<>> => h = 0)
      /\ es \in Seq(Entry(Good[h])) /\ Len(es) <= 3 * Degree + 1 /\ (h # 0 => Len(es) >= 2)
      /\ Degree \in Nat /\ Degree >= 1 /\ Len(es) \in Nat
  BY <1>2, RootHolds, LenProperties, DegreeAssumption DEF IsRoot
<1>5. T = IF es = <<>> THEN Inner(<<[key |-> k, node |-> Leaf([j \in {k} |-> v])]>>)
          ELSE IF r.new = <<>> THEN r.node
          ELSE NewRoot(r.node, r.new[1])
  BY <1>3 DEF InsertKey
<1> DEFINE Goal == \E j \in Nat : \E us : /\ T = Inner(us) /\ IsRoot(us, j)
                                            /\ Held(us) = Put(Held(es), k, v)
                                            /\ Touched(Under(es), Under(us))
<1>6. ASSUME NEW j \in Nat, NEW us, T = Inner(us), IsRoot(us, j), Held(us) = Put(Held(es), k, v),
             Touched(Under(es), Under(us))
      PROVE  IsTree(T) /\ Entries(T) = Put(Entries(t), k, v) /\ Touched(Bottom(t), Bottom(T))
  BY <1>4, <1>6, RootHolds DEF IsTree
<1> HIDE DEF T, r
<1>7. ASSUME es = <<>> PROVE Goal
  <2> DEFINE f == [j \in {k} |-> v]
             e == [key |-> k, node |-> Leaf(f)]
             us == <<e>>
  <2>2. DOMAIN f = {k} /\ f[k] = v /\ k \in Nat /\ Cardinality({k}) = 1 /\ IsFiniteSet({k})
    BY FS_Singleton, TreeAssumption DEF TreeAssumption
  <2>3. IsPart(f)
    BY <2>2 DEF IsPart
  <2>4. 1 \in 1 .. 2 * LeafDegree - 1
    BY DegreeAssumption
  <2> HIDE DEF f
  <2>5. /\ Leaf(f) \in Filled /\ Entries(Leaf(f)) = Pairs(f) /\ MinKey(Leaf(f)) \in DOMAIN f
        /\ Bottom(Leaf(f)) = {Leaf(f)}
    BY <2>2, <2>3, <2>4, PartLeaf, LeafHolds
  <2>6. Pairs(f) = {<<k, v>>}
    BY <2>2 DEF Pairs
  <2>7. e.key = k /\ e.node = Leaf(f) /\ e \in Entry(Good[0])
    BY <2>5, GoodIs DEF Entry
  <2>8. T = Inner(us)
    BY <1>5, <1>7 DEF f
  <2>9. us \in Seq(Entry(Good[0]))
    BY <2>7
  <2> HIDE DEF e
  <2>10. k <= k
    BY <2>2
  <2>11. Own(e)
    BY <2>2, <2>5, <2>7, <2>10 DEF Own
  <2>12. Len(us) = 1 /\ Fan(us) /\ Held(us) = {<<k, v>>} /\ Under(us) = {Leaf(f)}
    BY <2>5, <2>6, <2>7, <2>11, FanOne
  <2> HIDE DEF us
  <2>13. IsRoot(us, 0)
    BY <1>4, <2>9, <2>12 DEF IsRoot
  <2>14. Put(Held(es), k, v) = {<<k, v>>}
    BY <1>7, EmptyRoot DEF Put
  <2>15. Touched(Under(es), Under(us))
    BY <1>7, <2>12, EmptyRoot DEF Touched
  <2>16. 0 \in Nat
    OBVIOUS
  <2> QED BY <2>8, <2>12, <2>13, <2>14, <2>15, <2>16
<1>8. ASSUME es # <<>> PROVE Goal
  <2>1. PICK xs, ys \in Seq(Entry(Good[h])) : Grew(Good[h], es, k, v, xs, ys) /\ Halves(r, xs, ys)
    BY <1>2, <1>4, <1>8, InsertIntoIs DEF r
  <2>2. /\ Fan(xs) /\ Fan(ys) /\ Apart(Elems(xs), Elems(ys)) /\ xs # <<>>
        /\ Held(xs) \cup Held(ys) = Put(Held(es), k, v)
        /\ Touched(Under(es), Under(xs) \cup Under(ys))
        /\ IF ys = <<>> THEN Len(xs) = Len(es) \/ (Len(xs) = Len(es) + 1 /\ Len(es) < 2 * Degree + 1)
           ELSE Len(es) <= 3 * Degree + 1 => Sized(xs) /\ Sized(ys)
    BY <2>1 DEF Grew, Touched
  <2>3. /\ r.node = Inner(xs)
        /\ r.new = IF ys = <<>> THEN <<>> ELSE <<[key |-> ys[1].key, node |-> Inner(ys)]>>
    BY <2>1 DEF Halves
  <2>4. CASE ys = <<>>
    <3>1. T = Inner(xs)
      BY <1>5, <1>8, <2>3, <2>4
    <3>2. Held(xs) = Put(Held(es), k, v) /\ Touched(Under(es), Under(xs))
      <4>1. Held(ys) = {} /\ Under(ys) = {}
        BY <2>4, EmptyRoot
      <4> QED BY <2>2, <4>1
    <3>3. Len(xs) \in Nat /\ Len(xs) <= 3 * Degree + 1 /\ (h # 0 => Len(xs) >= 2)
      BY <1>4, <2>2, <2>4, LenProperties
    <3>4. IsRoot(xs, h)
      BY <2>2, <3>3 DEF IsRoot
    <3> QED BY <3>1, <3>2, <3>4
  <2>5. CASE ys # <<>>
    <3> DEFINE e == [key |-> ys[1].key, node |-> Inner(ys)]
    <3>1. r.new = <<e>> /\ r.new # <<>> /\ r.new[1] = e
      BY <2>3, <2>5
    <3>2. T = NewRoot(Inner(xs), e) /\ e.node = Inner(ys)
      BY <1>5, <1>8, <2>3, <3>1
    <3> HIDE DEF e
    <3>3. Sized(xs) /\ Sized(ys)
      BY <1>4, <2>2, <2>5
    <3>4. PICK us : /\ NewRoot(Inner(xs), e) = Inner(us) /\ IsRoot(us, h + 1)
                    /\ Held(us) = Held(xs) \cup Held(ys) /\ Under(us) = Under(xs) \cup Under(ys)
      BY <2>2, <3>2, <3>3, NewRootIs
    <3>5. h + 1 \in Nat
      OBVIOUS
    <3> QED BY <2>2, <3>2, <3>4, <3>5
  <2> QED BY <2>4, <2>5
<1>9. IsTree(T) /\ Entries(T) = Put(Entries(t), k, v) /\ Touched(Bottom(t), Bottom(T))
  BY <1>6, <1>7, <1>8
<1> QED BY <1>9 DEF T
-----------------------------------------------------------------------------
\* Removal from a leaf, and of the leaf.

\* What an element was does not matter once it is removed.
LEMMA RemoveChanged ==
  ASSUME NEW S, NEW s \in Seq(S), NEW t \in Seq(S), Len(t) = Len(s), NEW i \in 1 .. Len(s),
         \A j \in 1 .. Len(s) : j # i => t[j] = s[j]
  PROVE  RemoveAt(t, i) = RemoveAt(s, i)
<1> DEFINE u == RemoveAt(s, i)
           w == RemoveAt(t, i)
<1>0. Len(s) \in Nat /\ i \in Nat /\ i \in 1 .. Len(t)
  BY LenProperties
<1>1. /\ u \in Seq(S) /\ Len(u) = Len(s) - 1
      /\ \A j \in 1 .. i - 1 : u[j] = s[j]
      /\ \A j \in i .. Len(s) - 1 : u[j] = s[j + 1]
  BY RemoveAtIs
<1>2. /\ w \in Seq(S) /\ Len(w) = Len(t) - 1
      /\ \A j \in 1 .. i - 1 : w[j] = t[j]
      /\ \A j \in i .. Len(t) - 1 : w[j] = t[j + 1]
  BY <1>0, RemoveAtIs
<1> HIDE DEF u, w
<1>3. ASSUME NEW j \in 1 .. Len(u) PROVE u[j] = w[j]
  <2>1. CASE j < i
    <3>1. j \in 1 .. i - 1 /\ j \in 1 .. Len(s) /\ j # i
      BY <1>0, <1>1, <2>1
    <3> QED BY <1>1, <1>2, <3>1
  <2>2. CASE j >= i
    <3>1. j \in i .. Len(s) - 1 /\ j \in i .. Len(t) - 1 /\ j + 1 \in 1 .. Len(s) /\ j + 1 # i
      BY <1>0, <1>1, <2>2
    <3> QED BY <1>1, <1>2, <3>1
  <2> QED BY <1>0, <2>1, <2>2
<1>4. u = w
  BY <1>1, <1>2, <1>3, SeqEqual
<1> QED BY <1>4 DEF u, w

LEMMA PutDropped ==
  ASSUME NEW N, NEW p \in Seq(Entry(N)), NEW i \in 1 .. Len(p), NEW x, NEW q, IsPut(q, p, i, x)
  PROVE  Len(q) = Len(p) /\ RemoveAt(q, i) = RemoveAt(p, i)
<1>1. ASSUME NEW M, x \in M, \A n \in N : n \in M PROVE Len(q) = Len(p) /\ RemoveAt(q, i) = RemoveAt(p, i)
  <2>1. ASSUME NEW j \in 1 .. Len(p) PROVE p[j] \in Entry(M)
    <3>1. p[j] \in Entry(N)
      BY ElementOfSeq
    <3>2. p[j].key \in Keys /\ p[j].node \in M /\ p[j] = [key |-> p[j].key, node |-> p[j].node]
      BY <1>1, <3>1, EntryIs
    <3> QED BY <3>2 DEF Entry
  <2>2. p \in Seq(Entry(M))
    <3>1. Elems(p) \subseteq Entry(M)
      BY <2>1 DEF Elems
    <3> QED BY <3>1, SeqOver
  <2>3. x \in M
    BY <1>1
  <2>4. /\ q \in Seq(Entry(M)) /\ Len(q) = Len(p)
        /\ q[i] = [key |-> p[i].key, node |-> x]
        /\ \A j \in 1 .. Len(p) : j # i => q[j] = p[j]
    BY <2>2, <2>3, PutNode
  <2> QED BY <2>2, <2>4, RemoveChanged
<1>2. x \in N \cup {x} /\ \A n \in N : n \in N \cup {x}
  OBVIOUS
<1> QED BY <1>1, <1>2

\* A row with an entry removed.
LEMMA DropEntry ==
  ASSUME NEW N, Sounds(N), NEW p \in Seq(Entry(N)), Fan(p), NEW i \in 1 .. Len(p)
  PROVE  /\ RemoveAt(p, i) \in Seq(Entry(N)) /\ Fan(RemoveAt(p, i)) /\ Len(RemoveAt(p, i)) = Len(p) - 1
         /\ \A x : x \in Elems(RemoveAt(p, i)) <=> \E j \in 1 .. Len(p) : j # i /\ x = p[j]
         /\ \A x \in Elems(RemoveAt(p, i)) : p[1].key <= x.key
<1> DEFINE u == RemoveAt(p, i)
           from(j) == IF j < i THEN j ELSE j + 1
<1>0. Len(p) \in Nat /\ i \in Nat
  BY LenProperties
<1>1. /\ u \in Seq(Entry(N)) /\ Len(u) = Len(p) - 1
      /\ \A j \in 1 .. i - 1 : u[j] = p[j]
      /\ \A j \in i .. Len(p) - 1 : u[j] = p[j + 1]
  BY RemoveAtIs
<1> HIDE DEF u
<1>2. ASSUME NEW j \in 1 .. Len(u) PROVE from(j) \in 1 .. Len(p) /\ from(j) # i /\ u[j] = p[from(j)]
  <2>1. CASE j < i
    <3>1. j \in 1 .. i - 1 /\ j \in 1 .. Len(p) /\ from(j) = j
      BY <1>0, <1>1, <2>1
    <3> QED BY <1>1, <2>1, <3>1
  <2>2. CASE ~(j < i)
    <3>1. j \in i .. Len(p) - 1 /\ j + 1 \in 1 .. Len(p) /\ j + 1 # i /\ from(j) = j + 1
      BY <1>0, <1>1, <2>2
    <3> QED BY <1>1, <3>1
  <2> QED BY <2>1, <2>2
<1>3. \A a, b \in 1 .. Len(u) : a < b => from(a) < from(b)
  BY <1>0, <1>1
<1>4. ASSUME NEW j \in 1 .. Len(p), j # i PROVE \E m \in 1 .. Len(u) : from(m) = j
  <2>1. CASE j < i
    <3>1. j \in 1 .. Len(u) /\ from(j) = j
      BY <1>0, <1>1, <2>1
    <3> QED BY <3>1
  <2>2. CASE j > i
    <3>1. j - 1 \in 1 .. Len(u) /\ from(j - 1) = j
      BY <1>0, <1>1, <2>2
    <3> QED BY <3>1
  <2> QED BY <1>0, <1>4, <2>1, <2>2
<1> HIDE DEF from
<1>5. Fan(u)
  <2>1. ASSUME NEW j \in 1 .. Len(u) PROVE u[j].key <= MinKey(u[j].node)
    BY <1>2 DEF Fan
  <2>2. ASSUME NEW a \in 1 .. Len(u), NEW b \in 1 .. Len(u), a < b PROVE Before(u[a], u[b])
    <3>1. from(a) < from(b)
      BY <1>3, <2>2
    <3> QED BY <1>2, <3>1 DEF Fan
  <2> QED BY <2>1, <2>2 DEF Fan
<1>6. ASSUME NEW x PROVE x \in Elems(u) <=> \E j \in 1 .. Len(p) : j # i /\ x = p[j]
  <2>1. ASSUME NEW j \in 1 .. Len(u), x = u[j] PROVE \E m \in 1 .. Len(p) : m # i /\ x = p[m]
    BY <1>2, <2>1
  <2>2. ASSUME NEW j \in 1 .. Len(p), j # i, x = p[j] PROVE \E m \in 1 .. Len(u) : x = u[m]
    BY <1>2, <1>4, <2>2
  <2> QED BY <2>1, <2>2 DEF Elems
<1>7. \A x \in Elems(u) : x \in Elems(p)
  BY <1>6 DEF Elems
<1>8. \A x \in Elems(u) : p[1].key <= x.key
  BY <1>7, FirstLeast
<1> QED BY <1>1, <1>5, <1>6, <1>8 DEF u

\* LeafNode::remove.
Dropped(n, k, r) ==
  /\ r.removed \in BOOLEAN /\ r.gone \in BOOLEAN
  /\ r.removed <=> \E y \in Entries(n) : y[1] = k
  /\ ~r.gone => /\ r.node \in Filled /\ Entries(r.node) = Without(Entries(n), k)
                /\ KeysOf(r.node) \subseteq KeysOf(n) /\ MinKey(n) <= MinKey(r.node)
                /\ Edited(Bottom(n), Bottom(r.node))
  /\ r.gone => \A y \in Entries(n) : y[1] = k

LEMMA LeafRemoveIs ==
  ASSUME NEW n \in Filled, NEW k \in Keys
  PROVE  Dropped(n, k, LeafRemove(n.kv, k))
<1> DEFINE r == LeafRemove(n.kv, k)
           f == n.kv
           S == DOMAIN f \ {k}
           g == PartOf(f, S)
<1>1. IsPart(f) /\ Cardinality(DOMAIN f) \in 1 .. 2 * LeafDegree - 1 /\ n = Leaf(f)
  BY LeafPart
<1>2. r.node = Leaf(g) /\ r.removed = (k \in DOMAIN f) /\ r.gone = (DOMAIN f = {k})
  BY DEF LeafRemove
<1> HIDE DEF f, r
<1>3. /\ Entries(n) = Pairs(f) /\ KeysOf(n) = DOMAIN f
      /\ MinKey(n) \in DOMAIN f /\ \A j \in DOMAIN f : MinKey(n) <= j
  BY <1>1, PartLeaf
<1>4. S \in SUBSET DOMAIN f
  OBVIOUS
<1>5. r.removed <=> \E y \in Entries(n) : y[1] = k
  <2>1. ASSUME k \in DOMAIN f PROVE \E y \in Pairs(f) : y[1] = k
    BY <2>1, PairsIs
  <2>2. ASSUME NEW y \in Pairs(f), y[1] = k PROVE k \in DOMAIN f
    BY <2>2, PairsIs
  <2> QED BY <1>2, <1>3, <2>1, <2>2
<1>6. r.gone => \A y \in Entries(n) : y[1] = k
  <2>1. \A y \in Pairs(f) : y[1] \in DOMAIN f
    BY PairsIs
  <2> QED BY <1>2, <1>3, <2>1
<1>7. ASSUME ~r.gone
      PROVE  /\ r.node \in Filled /\ Entries(r.node) = Without(Entries(n), k)
             /\ KeysOf(r.node) \subseteq KeysOf(n) /\ MinKey(n) <= MinKey(r.node)
             /\ Edited(Bottom(n), Bottom(r.node))
  <2>1. S # {}
    BY <1>2, <1>3, <1>7
  <2>2. /\ IsPart(g) /\ DOMAIN g = S /\ Pairs(g) = {x \in Pairs(f) : x[1] \in S}
        /\ Cardinality(S) \in Nat /\ Cardinality(S) <= Cardinality(DOMAIN f) /\ Cardinality(S) # 0
    BY <1>1, <1>4, <2>1, PartIs
  <2>3. Cardinality(DOMAIN g) \in 1 .. 2 * LeafDegree - 1
    <3> DEFINE c == Cardinality(S)
               m == 2 * LeafDegree - 1
    <3>1. c \in Nat /\ c # 0 /\ c <= Cardinality(DOMAIN f) /\ Cardinality(DOMAIN f) \in 1 .. m /\ DOMAIN g = S
      BY <1>1, <2>2
    <3>2. LeafDegree \in Nat
      BY DegreeAssumption
    <3> HIDE DEF c, g
    <3> QED BY <3>1, <3>2 DEF c
  <2> HIDE DEF g
  <2>4. /\ Leaf(g) \in Filled /\ Entries(Leaf(g)) = Pairs(g) /\ KeysOf(Leaf(g)) = DOMAIN g
        /\ MinKey(Leaf(g)) \in DOMAIN g
    BY <2>2, <2>3, PartLeaf
  <2>5. ASSUME NEW x PROVE x \in Pairs(g) <=> x \in Without(Pairs(f), k)
    BY <2>2, PairsIs DEF Without
  <2>6. Pairs(g) = Without(Pairs(f), k)
    BY <2>5
  <2>7. KeysOf(n) \cap KeysOf(Leaf(g)) # {}
    BY <1>3, <2>2, <2>4
  <2>8. Edited(Bottom(n), Bottom(Leaf(g)))
    BY <2>4, <2>7, LeafEdited
  <2> QED BY <1>2, <1>3, <2>2, <2>4, <2>6, <2>8 DEF g
<1>8. r.removed \in BOOLEAN /\ r.gone \in BOOLEAN
  BY <1>2
<1>9. Dropped(n, k, r)
  BY <1>5, <1>6, <1>7, <1>8 DEF Dropped
<1> QED BY <1>9 DEF r, f

LEMMA RemoveFromLeafIs ==
  ASSUME NEW p \in Seq(Entry(Filled)), Fan(p), NEW k \in Keys,
         NEW i \in 1 .. Len(p), i = FindIndex(p, k)
  PROVE  Removed(Filled, p, k, RemoveFromLeaf(p, i, k))
<1> DEFINE r == LeafRemove(p[i].node.kv, k)
           q == [p EXCEPT ![i].node = r.node]
           R == RemoveFromLeaf(p, i, k)
<1>1. R.p = q /\ R.removed = r.removed /\ R.gone = r.gone
  BY DEF RemoveFromLeaf
<1>2. Sounds(Filled)
  BY LeafHolds DEF Sounds
<1>3. p[i] \in Entry(Filled) /\ p[i].node \in Filled /\ p[i].key \in Keys /\ p[i].key \in Nat /\ p[i].key <= MinKey(p[i].node)
      /\ Len(p) \in Nat
  BY ElementOfSeq, EntryIs, LenProperties DEF Fan
<1>4. /\ r.removed \in BOOLEAN /\ r.gone \in BOOLEAN
      /\ r.removed <=> \E y \in Entries(p[i].node) : y[1] = k
      /\ ~r.gone => /\ r.node \in Filled /\ Entries(r.node) = Without(Entries(p[i].node), k)
                    /\ KeysOf(r.node) \subseteq KeysOf(p[i].node) /\ MinKey(p[i].node) <= MinKey(r.node)
                    /\ Edited(Bottom(p[i].node), Bottom(r.node))
      /\ r.gone => \A y \in Entries(p[i].node) : y[1] = k
  BY <1>3, LeafRemoveIs DEF Dropped
<1>5. IsPut(q, p, i, r.node)
  BY DEF IsPut
<1> HIDE DEF r, q, R
<1>6. \A j \in 1 .. Len(p) : j # i => \A y \in Entries(p[j].node) : y[1] # k
  <2> SUFFICES ASSUME NEW j \in 1 .. Len(p), j # FindIndex(p, k)
               PROVE  \A y \in Entries(p[j].node) : y[1] # k
    OBVIOUS
  <2> QED BY <1>2, OnlyThere
<1>7. \A y : y \in Held(p) <=> \E j \in 1 .. Len(p) : y \in Entries(p[j].node)
  BY DEF Held, Elems
<1>8. R.removed <=> \E y \in Held(p) : y[1] = k
  BY <1>1, <1>4, <1>6, <1>7
<1>9. CASE ~r.gone
  <2>1. p[i].key <= MinKey(r.node)
    <3>1. Sound(p[i].node) /\ Sound(r.node)
      BY <1>2, <1>3, <1>4, <1>9 DEF Sounds
    <3>2. MinKey(p[i].node) \in Nat /\ MinKey(r.node) \in Nat
      BY <3>1, TreeAssumption DEF Sound, TreeAssumption
    <3> QED BY <1>3, <1>4, <1>9, <3>2
  <2>2. Replaced(Filled, p, i, r.node, q)
    BY <1>2, <1>4, <1>5, <1>9, <2>1, ReplaceChild
  <2>3. Held(q) = Without(Held(p), k)
    BY <1>2, <1>4, <1>9, <2>2, HeldWithout
  <2>4. Rest(R, FindIndex(p, k)) = q
    BY <1>1, <1>9 DEF Rest
  <2>6. Edited(Under(p), Under(q))
    <3>1. /\ Len(q) = Len(p) /\ q[i].node = r.node
          /\ \A j \in 1 .. Len(p) : j # i => q[j].node = p[j].node
      BY <2>2 DEF Replaced
    <3>2. Edited(Bottom(p[i].node), Bottom(q[i].node) \cup {})
      BY <1>4, <1>9, <3>1
    <3>3. Edited(Under(p), Under(q) \cup {})
      BY <1>3, <3>1, <3>2, EditedUnder
    <3> QED BY <3>3
  <2>5. Removed(Filled, p, k, R)
    BY <1>1, <1>4, <1>8, <1>9, <2>2, <2>3, <2>4, <2>6 DEF Removed, Replaced
  <2> QED BY <2>5 DEF R
<1>10. CASE r.gone
  <2> DEFINE u == RemoveAt(p, i)
  <2>1. /\ u \in Seq(Entry(Filled)) /\ Fan(u) /\ Len(u) = Len(p) - 1
        /\ \A x : x \in Elems(u) <=> \E j \in 1 .. Len(p) : j # i /\ x = p[j]
        /\ \A x \in Elems(u) : p[1].key <= x.key
    BY <1>2, DropEntry
  <2>4. Len(q) = Len(p) /\ RemoveAt(q, i) = u
    BY <1>5, PutDropped
  <2>5. Rest(R, FindIndex(p, k)) = u
    BY <1>1, <1>10, <2>4 DEF Rest
  <2> HIDE DEF u
  <2>6. ASSUME NEW y PROVE y \in Held(u) <=> y \in Without(Held(p), k)
    <3>1. y \in Held(u) <=> \E j \in 1 .. Len(p) : j # i /\ y \in Entries(p[j].node)
      BY <2>1 DEF Held
    <3> QED BY <1>4, <1>6, <1>7, <1>10, <3>1 DEF Without
  <2>7. Held(u) = Without(Held(p), k)
    BY <2>6
  <2>9. Edited(Under(p), Under(u))
    <3> DEFINE l == p[i].node
    <3>1. Shares(l, l)
      <4>1. KeysOf(l) # {} /\ KeysOf(l) = DOMAIN l.kv
        BY <1>3, LeafHolds DEF Sound
      <4> QED BY <4>1 DEF Shares
    <3>2. ASSUME NEW x PROVE x \in Under(p) <=> x \in Under(u) \cup {l}
      <4>1. x \in Under(p) <=> \E j \in 1 .. Len(p) : x \in Bottom(p[j].node)
        BY DEF Under, Elems
      <4>2. x \in Under(u) <=> \E j \in 1 .. Len(p) : j # i /\ x \in Bottom(p[j].node)
        BY <2>1 DEF Under
      <4>3. Bottom(p[i].node) = {l}
        BY <1>3, LeafHolds
      <4> QED BY <4>1, <4>2, <4>3
    <3>3. Under(p) = Under(u) \cup {l}
      BY <3>2
    <3> HIDE DEF l
    <3> QED BY <3>1, <3>3, EditedBy
  <2>8. Removed(Filled, p, k, R)
    BY <1>1, <1>4, <1>8, <1>10, <2>1, <2>4, <2>5, <2>7, <2>9 DEF Removed
  <2> QED BY <2>8 DEF R
<1> QED BY <1>4, <1>9, <1>10

\* What remove of k from the root, with entries es, does to them.  Only a root
\* over two inner nodes may be left with one of more entries than a node has.
RemovedTop(h, es, k, R) ==
  \/ Removed(Good[h], es, k, R)
  \/ h # 0 /\ Len(es) = 2 /\ R.gone /\ Removed(Wide(Good[h - 1]), es, k, R)

\* FPTree::remove below the root: the calls from the one that meets a leaf up.
LEMMA RemoveBelowIs ==
  ASSUME Degree >= 2, NEW h \in Nat, NEW es, IsNode(es, h), h # 0 => Len(es) >= 2,
         NEW k \in Keys, FindIndex(es, k) # 0
  PROVE  RemovedTop(h, es, k, RemoveBelow(Inner(es), k))
<1> DEFINE path == Path(Inner(es), k)
           at(d) == FindIndex(path[d].es, k)
           body(d, x) == IF path[d + 1].leaf
                         THEN RemoveFromLeaf(path[d].es, at(d), k)
                         ELSE RemoveStep(path[d].es, d = 0, at(d), k, x)
           call == CHOOSE f : f = [d \in Nat |-> body(d, f[d + 1])]
<1>1. RemoveBelow(Inner(es), k) = call[0]
  BY DEF RemoveBelow
<1>2. Descends(es, h, k, path)
  BY PathIs
<1>3. \A d \in Nat : \A x : Turn("remove", path, d, x, k, 0) = body(d, x)
  BY DEF Turn
<1> HIDE DEF path
<1>4. /\ path[0] = Inner(es)
      /\ \A d \in 0 .. h : /\ IsNode(path[d].es, h - d) /\ path[d] = Inner(path[d].es)
                           /\ path[d + 1] \in Good[h - d]
                           /\ path[d + 1] = path[d].es[At(path[d].es, k)].node
      /\ \A d \in Nat : d > h => path[d] \in Filled
  BY <1>2 DEF Descends
<1>5. /\ \A d \in Nat : d >= h => \A x : body(d, x) = RemoveFromLeaf(path[d].es, at(d), k)
      /\ \A d \in Nat : d < h => \A x : body(d, x) = RemoveStep(path[d].es, d = 0, at(d), k, x)
  <2>1. \A d \in Nat : d >= h => path[d + 1].leaf
    <3>1. \A d \in Nat : d >= h => d + 1 \in Nat /\ d + 1 > h
      OBVIOUS
    <3> QED BY <1>4, <3>1, LeafIs
  <2>2. \A d \in Nat : d < h => ~path[d + 1].leaf
    <3>1. \A x : ~Inner(x).leaf
      BY DEF Inner
    <3>2. \A d \in Nat : d < h => d + 1 \in 0 .. h
      OBVIOUS
    <3> QED BY <1>4, <3>1, <3>2
  <2> HIDE DEF at
  <2> QED BY <2>1, <2>2
<1> HIDE DEF body
<1>6. call = [d \in Nat |-> body(d, call[d + 1])]
  <2>1. Ends("remove", path, k, 0, h)
    BY <1>3, <1>5 DEF Ends
  <2>2. PICK f : Returned("remove", path, k, 0, f)
    BY <2>1, Calls
  <2>3. f = [d \in Nat |-> body(d, f[d + 1])]
    BY <1>3, <2>2 DEF Returned
  <2> QED BY <2>3
<1> HIDE DEF call
<1>7. /\ call[h] = RemoveFromLeaf(path[h].es, at(h), k)
      /\ \A d \in Nat : d < h => call[d] = RemoveStep(path[d].es, d = 0, at(d), k, call[d + 1])
  <2>1. call[h] = body(h, call[h + 1]) /\ h >= h
    BY <1>6
  <2>2. ASSUME NEW d \in Nat, d < h PROVE call[d] = RemoveStep(path[d].es, d = 0, at(d), k, call[d + 1])
    <3>1. call[d] = body(d, call[d + 1])
      BY <1>6
    <3> HIDE DEF at
    <3> QED BY <1>5, <2>2, <3>1
  <2> HIDE DEF at
  <2> QED BY <1>5, <2>1, <2>2
\* Nodes with a separator that is not above k.
<1>8. ASSUME NEW d \in 0 .. h, at(d) # 0
      PROVE  /\ path[d].es \in Seq(Entry(Good[h - d])) /\ Fan(path[d].es) /\ path[d].es # <<>>
             /\ at(d) \in 1 .. Len(path[d].es) /\ path[d + 1] = path[d].es[at(d)].node
             /\ h - d \in Nat
  <2>1. IsNode(path[d].es, h - d) /\ path[d + 1] = path[d].es[At(path[d].es, k)].node /\ h - d \in Nat
    BY <1>4
  <2> DEFINE zs == path[d].es
             N  == Good[h - d]
  <2>2. zs \in Seq(Entry(N)) /\ zs # <<>> /\ Fan(zs) /\ Sounds(N)
    BY <2>1, GoodLayer DEF IsNode, Layer, Sounds
  <2> HIDE DEF zs, N
  <2>3. FindIndex(zs, k) # 0 => At(zs, k) = FindIndex(zs, k)
    BY <2>2, AtIn
  <2>4. At(zs, k) \in 1 .. Len(zs)
    BY <2>2, AtIn
  <2> QED BY <1>8, <2>1, <2>2, <2>3, <2>4 DEF zs, N
\* One level, with an inner node below.
<1>9. ASSUME NEW d \in Nat, d < h, at(d) # 0, Len(path[d].es) >= 2,
             at(d + 1) # 0 => Removed(Good[h - (d + 1)], path[d + 1].es, k, call[d + 1])
      PROVE  \/ Removed(Good[h - d], path[d].es, k, call[d])
             \/ d = 0 /\ Len(path[d].es) = 2 /\ call[d].gone /\ Removed(Wide(Good[h - (d + 1)]), path[d].es, k, call[d])
  <2> DEFINE p == path[d].es
             i == at(d)
             r == call[d + 1]
             j == h - (d + 1)
             top == (d = 0)
  <2>1. j \in Nat /\ j + 1 = h - d /\ d \in 0 .. h
    BY <1>9
  <2>2. Good[h - d] = Grown(Good[j])
    BY <2>1, GoodIs
  <2>3. p \in Seq(Entry(Grown(Good[j]))) /\ Fan(p) /\ i \in 1 .. Len(p) /\ path[d + 1] = p[i].node /\ Len(p) >= 2
    BY <1>8, <1>9, <2>1, <2>2
  <2>4. i = FindIndex(p, k) /\ at(d + 1) = FindIndex(p[i].node.es, k)
    BY <2>3
  <2>5. FindIndex(p[i].node.es, k) # 0 => Removed(Good[j], p[i].node.es, k, r)
    BY <1>9, <2>3, <2>4
  <2>6. call[d] = RemoveStep(p, top, i, k, r)
    BY <1>7, <1>9
  <2>7. Layer(Good[j]) /\ top \in BOOLEAN
    BY <2>1, GoodLayer
  <2>8. Good[h - (d + 1)] = Good[j]
    OBVIOUS
  <2> HIDE DEF p, i, r, j, at
  <2> DEFINE N == Good[j]
             R == RemoveStep(p, top, i, k, r)
  <2>9. Layer(N) /\ p \in Seq(Entry(Grown(N))) /\ (FindIndex(p[i].node.es, k) # 0 => Removed(N, p[i].node.es, k, r))
    BY <2>3, <2>5, <2>7
  <2> HIDE DEF N, top
  <2>10. \/ Removed(Grown(N), p, k, R)
         \/ top /\ Len(p) = 2 /\ R.gone /\ Removed(Wide(N), p, k, R)
    BY <2>3, <2>4, <2>7, <2>9, RemoveStepIs
  <2> HIDE DEF R
  <2>11. call[d] = R
    BY <2>6 DEF R
  <2> QED BY <2>2, <2>8, <2>10, <2>11 DEF p, N, top
<1> DEFINE S == {d \in Nat : d # 0 /\ at(d) # 0 => Removed(Good[h - d], path[d].es, k, call[d])}
<1>10. at(h) # 0 => Removed(Good[h - h], path[h].es, k, call[h])
  <2> SUFFICES ASSUME at(h) # 0 PROVE Removed(Good[h - h], path[h].es, k, call[h])
    OBVIOUS
  <2>1. h \in 0 .. h /\ h - h = 0 /\ Good[0] = Filled
    BY GoodIs
  <2> DEFINE p == path[h].es
             i == at(h)
  <2>2. p \in Seq(Entry(Filled)) /\ Fan(p) /\ i \in 1 .. Len(p)
    <3>1. at(h) # 0 /\ h \in 0 .. h
      BY <2>1
    <3>2. path[h].es \in Seq(Entry(Good[h - h])) /\ Fan(path[h].es) /\ at(h) \in 1 .. Len(path[h].es)
      BY <1>8, <3>1
    <3> QED BY <2>1, <3>2
  <2>3. i = FindIndex(p, k)
    OBVIOUS
  <2> HIDE DEF p, i
  <2>4. Removed(Filled, p, k, RemoveFromLeaf(p, i, k))
    BY <2>2, <2>3, RemoveFromLeafIs
  <2> QED BY <1>7, <2>1, <2>4 DEF p, i
<1>11. ASSUME NEW d \in Nat, d < h, d + 1 \in S PROVE d \in S
  <2> SUFFICES ASSUME d # 0, at(d) # 0 PROVE Removed(Good[h - d], path[d].es, k, call[d])
    OBVIOUS
  <2>1. d + 1 # 0
    OBVIOUS
  <2>2. at(d + 1) # 0 => Removed(Good[h - (d + 1)], path[d + 1].es, k, call[d + 1])
    BY <1>11, <2>1
  <2>3. Len(path[d].es) >= 2
    <3>1. d - 1 \in 0 .. h /\ (d - 1) + 1 = d /\ h - (d - 1) \in Nat /\ h - (d - 1) # 0
      BY <1>11
    <3>2. path[d] \in Good[h - (d - 1)]
      BY <1>4, <3>1
    <3>3. Sized(path[d].es)
      BY <3>1, <3>2, GoodNodes
    <3> DEFINE n == Len(path[d].es)
    <3>4. n \in Degree .. 2 * Degree + 1 /\ Degree \in Nat
      BY <3>3, DegreeAssumption DEF Sized
    <3> HIDE DEF n
    <3>5. n >= 2
      BY <3>4
    <3> QED BY <3>5 DEF n
  <2> HIDE DEF at
  <2> QED BY <1>9, <1>11, <2>2, <2>3
<1>12. path[0].es = es /\ h - 0 = h /\ 0 \in Nat
  BY <1>4 DEF Inner
<1>13. at(0) # 0
  BY <1>12
<1>14. CASE h = 0
  <2>1. Removed(Good[0], es, k, call[0])
    BY <1>10, <1>12, <1>13, <1>14
  <2> QED BY <1>1, <1>14, <2>1 DEF RemovedTop
<1>15. CASE h # 0
  <2>1. h - 1 \in Nat /\ 0 + 1 \in Nat /\ 0 < h /\ h - (0 + 1) = h - 1 /\ 0 + 1 # 0 /\ 0 + 1 <= h
    BY <1>15
  <2>2. h \in S
    BY <1>10
  <2>3. 0 + 1 \in S
    <3> DEFINE T == {d \in Nat : d + 1 \in S}
               n == h - 1
    <3>1. n \in T /\ n \in Nat
      <4>1. n \in Nat /\ n + 1 = h
        BY <2>1
      <4> HIDE DEF S
      <4> QED BY <2>2, <4>1
    <3>2. \A d \in Nat : d < n /\ d + 1 \in T => d \in T
      <4> SUFFICES ASSUME NEW d \in Nat, d < n, d + 1 \in T PROVE d + 1 \in S
        OBVIOUS
      <4>1. d + 1 \in Nat /\ d + 1 < h /\ (d + 1) + 1 \in S
        OBVIOUS
      <4> HIDE DEF S
      <4> QED BY <1>11, <4>1
    <3> HIDE DEF T, n
    <3>3. 0 \in T
      BY <3>1, <3>2, Descend
    <3> HIDE DEF S
    <3> QED BY <3>3 DEF T
  <2>4. at(0 + 1) # 0 => Removed(Good[h - (0 + 1)], path[0 + 1].es, k, call[0 + 1])
    BY <2>1, <2>3
  <2>5. Len(path[0].es) >= 2
    BY <1>12, <1>15
  <2>6. \/ Removed(Good[h - 0], path[0].es, k, call[0])
        \/ Len(path[0].es) = 2 /\ call[0].gone /\ Removed(Wide(Good[h - (0 + 1)]), path[0].es, k, call[0])
    <3> HIDE DEF at
    <3> QED BY <1>9, <1>12, <1>13, <2>1, <2>4, <2>5
  <2> HIDE DEF S, at
  <2> QED BY <1>1, <1>12, <1>15, <2>1, <2>6 DEF RemovedTop
<1> QED BY <1>14, <1>15

\* A root left with one inner child gives way to it.
LEMMA OnlyChild ==
  ASSUME NEW N, NEW us \in Seq(Entry(N)), Len(us) = 1
  PROVE  /\ us[1].node \in N
         /\ Held(us) = Entries(us[1].node) /\ Under(us) = Bottom(us[1].node)
<1>1. \A i \in 1 .. Len(us) : i = 1
  OBVIOUS
<1>2. 1 \in 1 .. Len(us)
  OBVIOUS
<1>3. us[1] \in Entry(N)
  BY <1>2, ElementOfSeq
<1>4. \A y : y \in Held(us) <=> y \in Entries(us[1].node)
  BY <1>1, <1>2 DEF Held, Elems
<1>5. \A y : y \in Under(us) <=> y \in Bottom(us[1].node)
  BY <1>1, <1>2 DEF Under, Elems
<1> QED BY <1>3, <1>4, <1>5, EntryIs

\* What FPTree::remove leaves of the tree t, and returns.
RemovedFrom(t, k, r) ==
  /\ IsTree(r.t) /\ Entries(r.t) = Without(Entries(t), k)
  /\ Touched(Bottom(t), Bottom(r.t))
  /\ r.removed \in BOOLEAN /\ (r.removed <=> \E y \in Entries(t) : y[1] = k)

\* FPTree::remove keeps the tree well-formed, takes the pair of its key from it,
\* leaves all leaves but one what they are and returns whether there was a pair,
\* at any degree of at least MIN_DEGREE.
THEOREM RemoveKeyIs ==
  ASSUME Degree >= 2, NEW t, IsTree(t), NEW k \in Keys
  PROVE  RemovedFrom(t, k, RemoveKey(t, k))
<1> DEFINE pos == FindIndex(t.es, k)
           R   == RemoveBelow(t, k)
           us  == RemoveChild(R.p, pos)
           r   == RemoveKey(t, k)
<1>1. PICK h \in Nat : \E zs : t = Inner(zs) /\ IsRoot(zs, h)
  BY DEF IsTree
<1>2. PICK es : t = Inner(es) /\ IsRoot(es, h)
  BY <1>1
<1>3. t.es = es
  BY <1>2 DEF Inner
<1>4. /\ Entries(t) = Held(es) /\ Bottom(t) = Under(es)
      /\ (es # <<>> => IsNode(es, h)) /\ (es = <<>> => h = 0)
      /\ es \in Seq(Entry(Good[h])) /\ Fan(es) /\ Len(es) <= 3 * Degree + 1 /\ (h # 0 => Len(es) >= 2)
      /\ Degree \in Nat /\ Degree >= 1 /\ Len(es) \in Nat /\ Sounds(Good[h])
  BY <1>2, RootHolds, LenProperties, DegreeAssumption DEF IsRoot
<1>5. /\ pos = 0 => r = [t |-> t, removed |-> FALSE]
      /\ pos # 0 /\ ~R.gone => r = [t |-> Inner(RefreshFirst(R.p)), removed |-> R.removed]
      /\ pos # 0 /\ R.gone => r = [t |-> IF RootGivesWay(us) THEN us[1].node ELSE Inner(us), removed |-> R.removed]
  BY DEF RemoveKey
<1>6. us = RemoveAt(R.p, pos)
  BY DEF RemoveChild
<1> HIDE DEF r, R, us
<1>7. ASSUME NEW j \in Nat, NEW xs, r.t = Inner(xs), IsRoot(xs, j), Held(xs) = Without(Held(es), k),
             Edited(Under(es), Under(xs)),
             r.removed \in BOOLEAN, r.removed <=> \E y \in Held(es) : y[1] = k
      PROVE  RemovedFrom(t, k, r)
  <2>1. Entries(Inner(xs)) = Held(xs) /\ Bottom(Inner(xs)) = Under(xs)
    BY <1>7, RootHolds
  <2> QED BY <1>4, <1>7, <2>1 DEF RemovedFrom, IsTree, Touched
<1>8. CASE pos = 0
  <2>1. r.t = Inner(es) /\ r.removed = FALSE
    BY <1>2, <1>5, <1>8
  <2>2. \A y \in Held(es) : y[1] # k
    <3>1. CASE es = <<>>
      BY <3>1, EmptyRoot
    <3>2. CASE es # <<>>
      BY <1>2, <1>3, <1>4, <1>8, <3>2, Through
    <3> QED BY <3>1, <3>2
  <2>3. Held(es) = Without(Held(es), k)
    BY <2>2 DEF Without
  <2>5. Edited(Under(es), Under(es))
    BY DEF Edited
  <2>4. RemovedFrom(t, k, r)
    BY <1>2, <1>7, <2>1, <2>2, <2>3, <2>5
  <2> QED BY <2>4 DEF r
<1>9. CASE pos # 0
  <2>1. es # <<>>
    <3>1. FindIndex(es, k) \in 0 .. Len(es)
      BY <1>4, FindIndexIs
    <3>2. Len(<<>>) = 0
      OBVIOUS
    <3> QED BY <1>3, <1>9, <3>1, <3>2
  <2>2. RemovedTop(h, es, k, R)
    <3>1. FindIndex(es, k) # 0
      BY <1>3, <1>9
    <3> QED BY <1>2, <1>4, <2>1, <3>1, RemoveBelowIs DEF R
  <2>3. ASSUME NEW N, Removed(N, es, k, R)
        PROVE  LET xs == Rest(R, pos)
               IN /\ xs \in Seq(Entry(N)) /\ Fan(xs)
                  /\ Len(xs) = IF R.gone THEN Len(es) - 1 ELSE Len(es)
                  /\ Held(xs) = Without(Held(es), k) /\ Edited(Under(es), Under(xs))
                  /\ R.removed <=> \E x \in Held(es) : x[1] = k
                  /\ R.removed \in BOOLEAN
    BY <1>3, <2>3 DEF Removed
  <2>4. CASE ~R.gone
    <3> DEFINE xs == R.p
               ws == RefreshFirst(xs)
    <3>1. Removed(Good[h], es, k, R) /\ Rest(R, pos) = xs
      BY <2>2, <2>4 DEF RemovedTop, Rest
    <3>2. /\ xs \in Seq(Entry(Good[h])) /\ Fan(xs) /\ Len(xs) = Len(es)
          /\ Held(xs) = Without(Held(es), k) /\ Edited(Under(es), Under(xs))
          /\ R.removed <=> \E x \in Held(es) : x[1] = k
          /\ R.removed \in BOOLEAN
      BY <2>3, <2>4, <3>1
    <3>3. r.t = Inner(ws) /\ r.removed = R.removed
      BY <1>5, <1>9, <2>4
    <3> HIDE DEF xs
    <3>4. xs # <<>>
      BY <1>4, <2>1, <3>2, EmptySeq
    <3>5. /\ ws \in Seq(Entry(Good[h])) /\ Fan(ws) /\ Len(ws) = Len(xs)
          /\ Held(ws) = Held(xs) /\ Under(ws) = Under(xs)
      BY <1>4, <3>2, <3>4, RefreshIs
    <3> HIDE DEF ws
    <3>6. IsRoot(ws, h)
      BY <1>4, <3>2, <3>5 DEF IsRoot
    <3>7. RemovedFrom(t, k, r)
      BY <1>7, <3>2, <3>3, <3>5, <3>6
    <3> QED BY <3>7 DEF r
  <2>5. CASE R.gone
    <3>1. Rest(R, pos) = us
      BY <1>6, <2>5 DEF Rest
    <3>2. r.t = (IF RootGivesWay(us) THEN us[1].node ELSE Inner(us)) /\ r.removed = R.removed
      BY <1>5, <1>9, <2>5
    <3>3. ASSUME NEW N, Removed(N, es, k, R)
          PROVE  /\ us \in Seq(Entry(N)) /\ Fan(us) /\ Len(us) = Len(es) - 1
                 /\ Held(us) = Without(Held(es), k) /\ Edited(Under(es), Under(us))
                 /\ R.removed <=> \E x \in Held(es) : x[1] = k
                 /\ R.removed \in BOOLEAN
      BY <2>3, <2>5, <3>1, <3>3
    \* The only child left, an inner node, becomes the root.
    <3>4. ASSUME NEW j \in Nat, NEW zs, us[1].node = Inner(zs), Len(us) = 1,
                 zs \in Seq(Entry(Good[j])), Fan(zs), Len(zs) \in 2 .. 3 * Degree + 1,
                 NEW N, Removed(N, es, k, R)
          PROVE  RemovedFrom(t, k, r)
      <4>1. /\ us \in Seq(Entry(N)) /\ Held(us) = Without(Held(es), k)
            /\ Edited(Under(es), Under(us))
            /\ R.removed <=> \E x \in Held(es) : x[1] = k
            /\ R.removed \in BOOLEAN
        BY <3>3, <3>4
      <4>2. Held(us) = Entries(us[1].node) /\ Under(us) = Bottom(us[1].node)
        BY <3>4, <4>1, OnlyChild
      <4>3. \A x : ~Inner(x).leaf
        BY DEF Inner
      <4>4. RootGivesWay(us)
        BY <3>4, <4>3 DEF RootGivesWay
      <4>5. r.t = Inner(zs)
        BY <3>2, <3>4, <4>4
      <4>6. IsRoot(zs, j)
        BY <1>4, <3>4 DEF IsRoot
      <4>7. Held(zs) = Held(us) /\ Under(zs) = Under(us)
        BY <3>4, <4>2, <4>6, RootHolds
      <4> QED BY <1>7, <3>2, <4>1, <4>5, <4>6, <4>7
    <3>5. ASSUME Removed(Good[h], es, k, R) PROVE RemovedFrom(t, k, r)
      <4>1. /\ us \in Seq(Entry(Good[h])) /\ Fan(us) /\ Len(us) = Len(es) - 1
            /\ Held(us) = Without(Held(es), k) /\ Edited(Under(es), Under(us))
            /\ R.removed <=> \E x \in Held(es) : x[1] = k
            /\ R.removed \in BOOLEAN
        BY <3>3, <3>5
      <4>2. CASE h # 0 /\ Len(us) = 1
        <5>1. us[1].node \in Good[h]
          BY <4>1, <4>2, OnlyChild
        <5> DEFINE zs == us[1].node.es
                   n  == Len(zs)
        <5>2. /\ h - 1 \in Nat /\ us[1].node = Inner(zs) /\ zs \in Seq(Entry(Good[h - 1]))
              /\ Fan(zs) /\ Sized(zs)
          BY <4>2, <5>1, GoodNodes
        <5>3. n \in Degree .. 2 * Degree + 1 /\ n \in Nat
          BY <5>2, LenProperties DEF Sized
        <5> HIDE DEF n
        <5>4. n \in 2 .. 3 * Degree + 1
          BY <1>4, <5>3
        <5> HIDE DEF zs
        <5> QED BY <3>4, <3>5, <4>2, <5>2, <5>4 DEF n
      <4>3. CASE ~(h # 0 /\ Len(us) = 1)
        <5>1. ~RootGivesWay(us)
          <6> SUFFICES ASSUME Len(us) = 1 PROVE us[1].node.leaf
            BY DEF RootGivesWay
          <6>1. h = 0 /\ us[1].node \in Good[0] /\ 0 \in Nat
            BY <4>1, <4>3, OnlyChild
          <6> QED BY <6>1, GoodNodes
        <5>2. r.t = Inner(us)
          BY <3>2, <5>1
        <5>3. Len(us) <= 3 * Degree + 1 /\ (h # 0 => Len(us) >= 2)
          BY <1>4, <4>1, <4>3
        <5>4. IsRoot(us, h)
          BY <4>1, <5>3 DEF IsRoot
        <5> QED BY <1>7, <3>2, <4>1, <5>2, <5>4
      <4> QED BY <4>2, <4>3
    <3>6. ASSUME h # 0, Len(es) = 2, Removed(Wide(Good[h - 1]), es, k, R) PROVE RemovedFrom(t, k, r)
      <4>1. us \in Seq(Entry(Wide(Good[h - 1]))) /\ Len(us) = 1 /\ h - 1 \in Nat
        BY <3>3, <3>6
      <4>2. us[1].node \in Wide(Good[h - 1])
        BY <4>1, OnlyChild
      <4>3. us[1].node \in Fans(Good[h - 1]) /\ Len(us[1].node.es) \in 2 .. 3 * Degree + 1
        BY <4>2 DEF Wide
      <4>4. PICK zs \in Seq(Entry(Good[h - 1])) : us[1].node = Inner(zs) /\ Fan(zs)
        BY <4>3 DEF Fans
      <4>5. us[1].node.es = zs
        BY <4>4 DEF Inner
      <4>6. Len(zs) \in 2 .. 3 * Degree + 1
        BY <4>3, <4>5
      <4> QED BY <3>4, <3>6, <4>1, <4>4, <4>6
    <3>7. RemovedFrom(t, k, r)
      BY <2>2, <3>5, <3>6 DEF RemovedTop
    <3> QED BY <3>7 DEF r
  <2> QED BY <2>4, <2>5
<1> QED BY <1>8, <1>9
-----------------------------------------------------------------------------
\* find and update in any tree.

\* In a tree without leaves every call is on the root.
LEMMA EmptyPath ==
  ASSUME NEW k
  PROVE  /\ \A d \in Nat : Path(Inner(<<>>), k)[d] = Inner(<<>>)
         /\ Inner(<<>>).es = <<>> /\ ~Inner(<<>>).leaf /\ FindIndex(<<>>, k) = 0
<1> DEFINE n == Inner(<<>>)
           next(x) == IF x.leaf \/ x.es = <<>> THEN x ELSE x.es[At(x.es, k)].node
           f == [d \in Nat |-> n]
           path == Path(n, k)
<1>1. n.es = <<>> /\ ~n.leaf
  BY DEF Inner
<1>2. f = [d \in Nat |-> IF d = 0 THEN n ELSE next(f[d - 1])]
  <2>1. next(n) = n
    BY <1>1
  <2>2. \A d \in Nat : d # 0 => next(f[d - 1]) = n
    <3> SUFFICES ASSUME NEW d \in Nat, d # 0 PROVE next(f[d - 1]) = n
      OBVIOUS
    <3>1. f[d - 1] = n
      OBVIOUS
    <3> HIDE DEF next, f, n
    <3> QED BY <2>1, <3>1
  <2> HIDE DEF next, n
  <2> QED BY <2>2
<1>3. path = [d \in Nat |-> IF d = 0 THEN n ELSE next(path[d - 1])]
  <2>1. path = CHOOSE g : g = [d \in Nat |-> IF d = 0 THEN n ELSE next(g[d - 1])]
    BY DEF Path
  <2> HIDE DEF path, next, f, n
  <2> QED BY <1>2, <2>1
<1> HIDE DEF path, n
<1> DEFINE S == {d \in Nat : path[d] = n}
<1>4. 0 \in S
  BY <1>3
<1>5. ASSUME NEW d \in Nat, d \in S PROVE d + 1 \in S
  <2>1. d + 1 \in Nat /\ d + 1 # 0 /\ (d + 1) - 1 = d
    OBVIOUS
  <2>2. path[d + 1] = next(path[d])
    <3> HIDE DEF next
    <3> QED BY <1>3, <2>1
  <2> QED BY <1>1, <1>5, <2>2
<1> HIDE DEF S
<1>6. \A d \in Nat : d \in S
  BY <1>4, <1>5, Induct
<1>7. FindIndex(<<>>, k) = 0
  <2>1. {i \in 1 .. Len(<<>>) : <<>>[i].key <= k} = {}
    OBVIOUS
  <2> QED BY <2>1, FS_EmptySet DEF FindIndex
<1> QED BY <1>1, <1>6, <1>7 DEF S, path, n

\* FPTree::find returns the value of the key, or MAX_VALUE.
THEOREM FindIs ==
  ASSUME NEW t, IsTree(t), NEW k \in Keys
  PROVE  Found(Entries(t), k, FindKey(t, k))
<1>1. PICK h \in Nat : \E zs : t = Inner(zs) /\ IsRoot(zs, h)
  BY DEF IsTree
<1>2. PICK es : t = Inner(es) /\ IsRoot(es, h)
  BY <1>1
<1>3. CASE es # <<>>
  BY <1>2, <1>3, RootHolds, FindKeyIs
<1>4. CASE es = <<>>
  <2> DEFINE path == Path(t, k)
             body(d, x) == IF path[d].leaf THEN LeafFind(path[d].kv, k)
                           ELSE IF FindIndex(path[d].es, k) = 0 THEN NoValue ELSE x
             call == CHOOSE f : f = [d \in Nat |-> body(d, f[d + 1])]
  <2>1. FindKey(t, k) = call[0]
    BY DEF FindKey
  <2>2. \A d \in Nat : ~path[d].leaf /\ FindIndex(path[d].es, k) = 0
    <3>1. t = Inner(<<>>)
      BY <1>2, <1>4
    <3>2. \A d \in Nat : path[d] = Inner(<<>>)
      BY <3>1, EmptyPath
    <3> HIDE DEF path
    <3> QED BY <3>2, EmptyPath
  <2> HIDE DEF path
  <2>3. \A d \in Nat : \A x : body(d, x) = NoValue
    BY <2>2
  <2> HIDE DEF body
  <2> DEFINE g == [d \in Nat |-> NoValue]
  <2>4. g = [d \in Nat |-> body(d, g[d + 1])]
    BY <2>3
  <2>5. call = [d \in Nat |-> body(d, call[d + 1])]
    <3> HIDE DEF g
    <3> QED BY <2>4
  <2> HIDE DEF call
  <2>6. call[0] = NoValue
    BY <2>3, <2>5
  <2>7. Entries(t) = {}
    BY <1>2, <1>4, EmptyRoot
  <2> QED BY <2>1, <2>6, <2>7 DEF Found
<1> QED BY <1>3, <1>4

\* What FPTree::update leaves of the tree t, and returns.
UpdatedIn(t, k, v, r) ==
  /\ IsTree(r.node)
  /\ r.found \in BOOLEAN /\ (r.found <=> \E y \in Entries(t) : y[1] = k)
  /\ Entries(r.node) = IF r.found THEN Put(Entries(t), k, v) ELSE Entries(t)
  /\ Touched(Bottom(t), Bottom(r.node))

\* FPTree::update keeps the tree well-formed, changes the value of a key that is
\* there and no other, in one leaf, and returns whether it was.
THEOREM UpdateIs ==
  ASSUME NEW t, IsTree(t), NEW k \in Keys, NEW v \in Values
  PROVE  UpdatedIn(t, k, v, UpdateKey(t, k, v))
<1>1. PICK h \in Nat : \E zs : t = Inner(zs) /\ IsRoot(zs, h)
  BY DEF IsTree
<1>2. PICK es : t = Inner(es) /\ IsRoot(es, h)
  BY <1>1
<1>3. CASE es # <<>>
  <2> DEFINE r == UpdateKey(t, k, v)
             us == r.node.es
  <2>1. Rewritten(h, es, k, v, r)
    BY <1>2, <1>3, RootHolds, UpdateKeyIs
  <2> HIDE DEF r
  <2>2. /\ r.node = Inner(us) /\ IsNode(us, h) /\ Len(us) = Len(es)
        /\ r.found \in BOOLEAN /\ (r.found <=> \E y \in Entries(Inner(es)) : y[1] = k)
        /\ Entries(r.node) = IF r.found THEN Put(Entries(Inner(es)), k, v) ELSE Entries(Inner(es))
        /\ Touched(Bottom(Inner(es)), Bottom(r.node))
    BY <2>1 DEF Rewritten, Touched
  <2> HIDE DEF us
  <2>3. IsRoot(us, h)
    BY <1>2, <2>2 DEF IsRoot, IsNode
  <2>4. UpdatedIn(t, k, v, r)
    BY <1>2, <2>2, <2>3 DEF UpdatedIn, IsTree
  <2> QED BY <2>4 DEF r
<1>4. CASE es = <<>>
  <2> DEFINE path == Path(t, k)
             put(zs, x) == [zs EXCEPT ![FindIndex(zs, k)].node = x]
             body(d, x) == IF path[d].leaf THEN LeafUpdate(path[d].kv, k, v)
                           ELSE IF FindIndex(path[d].es, k) = 0
                           THEN [node |-> path[d], found |-> FALSE]
                           ELSE [node |-> Inner(put(path[d].es, x.node)), found |-> x.found]
             call == CHOOSE f : f = [d \in Nat |-> body(d, f[d + 1])]
             no == [node |-> t, found |-> FALSE]
  <2>1. UpdateKey(t, k, v) = call[0]
    BY DEF UpdateKey
  <2>2. \A d \in Nat : ~path[d].leaf /\ FindIndex(path[d].es, k) = 0 /\ path[d] = t
    <3>1. t = Inner(<<>>)
      BY <1>2, <1>4
    <3>2. \A d \in Nat : path[d] = Inner(<<>>)
      BY <3>1, EmptyPath
    <3> HIDE DEF path
    <3> QED BY <3>1, <3>2, EmptyPath
  <2> HIDE DEF path
  <2>3. \A d \in Nat : \A x : body(d, x) = no
    BY <2>2
  <2> HIDE DEF body, no
  <2> DEFINE g == [d \in Nat |-> no]
  <2>4. g = [d \in Nat |-> body(d, g[d + 1])]
    BY <2>3
  <2>5. call = [d \in Nat |-> body(d, call[d + 1])]
    <3> HIDE DEF g
    <3> QED BY <2>4
  <2> HIDE DEF call
  <2>6. call[0] = no
    BY <2>3, <2>5
  <2>7. Entries(t) = {}
    BY <1>2, <1>4, EmptyRoot
  <2>8. no.node = t /\ no.found = FALSE
    BY DEF no
  <2>9. UpdatedIn(t, k, v, no)
    BY <2>7, <2>8 DEF UpdatedIn, Touched, Edited
  <2> QED BY <2>1, <2>6, <2>9
<1> QED BY <1>3, <1>4
-----------------------------------------------------------------------------
\* The rows of nodes bulkLoading builds a tree from.

\* R relates the elements of s in their order, and those of a row of sequences
\* across them too.
Ordered(s, R) == \A i, j \in 1 .. Len(s) : i < j => <<s[i], s[j]>> \in R

AllBefore(s, t, R) == \A x \in Elems(s), y \in Elems(t) : <<x, y>> \in R

RowsOrdered(ss, R) ==
  /\ \A i \in 1 .. Len(ss) : Ordered(ss[i], R)
  /\ \A i, j \in 1 .. Len(ss) : i < j => AllBefore(ss[i], ss[j], R)

LEMMA OrderedConcat ==
  ASSUME NEW S, NEW s \in Seq(S), NEW t \in Seq(S), NEW R,
         Ordered(s, R), Ordered(t, R), AllBefore(s, t, R)
  PROVE  Ordered(s \o t, R)
<1> DEFINE u == s \o t
           n == Len(s)
           m == Len(t)
<1>1. /\ s \o t \in Seq(S) /\ Len(s \o t) = Len(s) + Len(t)
      /\ \A i \in 1 .. Len(s) + Len(t) :
           (s \o t)[i] = IF i <= Len(s) THEN s[i] ELSE t[i - Len(s)]
  BY ConcatProperties
<1>2. n \in Nat /\ m \in Nat
  BY LenProperties
<1>3. Len(u) = n + m /\ \A i \in 1 .. n + m : u[i] = IF i <= n THEN s[i] ELSE t[i - n]
  BY <1>1
<1>4. /\ \A i, j \in 1 .. n : i < j => <<s[i], s[j]>> \in R
      /\ \A i, j \in 1 .. m : i < j => <<t[i], t[j]>> \in R
      /\ \A i \in 1 .. n, j \in 1 .. m : <<s[i], t[j]>> \in R
  BY DEF Ordered, AllBefore, Elems
<1> HIDE DEF u, n, m
<1>5. ASSUME NEW i \in 1 .. n + m, NEW j \in 1 .. n + m, i < j PROVE <<u[i], u[j]>> \in R
  <2>1. CASE j <= n
    <3>1. i \in 1 .. n /\ j \in 1 .. n
      BY <1>2, <1>5, <2>1
    <3> QED BY <1>3, <1>4, <1>5, <3>1
  <2>2. CASE i <= n /\ ~(j <= n)
    <3>1. i \in 1 .. n /\ j - n \in 1 .. m
      BY <1>2, <1>5, <2>2
    <3> QED BY <1>3, <1>4, <2>2, <3>1
  <2>3. CASE ~(i <= n)
    <3>1. ~(j <= n) /\ i - n \in 1 .. m /\ j - n \in 1 .. m /\ i - n < j - n
      BY <1>2, <1>5, <2>3
    <3> QED BY <1>3, <1>4, <2>3, <3>1
  <2> QED BY <2>1, <2>2, <2>3
<1>6. Ordered(u, R)
  BY <1>3, <1>5 DEF Ordered
<1> QED BY <1>6 DEF u

\* The prefixes FlattenSeq adds up.
Flattens(ss, f) ==
  f = [i \in 1 .. Len(ss) |-> IF i = 1 THEN ss[i] ELSE f[i - 1] \o ss[i]]

LEMMA FlattenExists ==
  ASSUME NEW S, NEW ss \in Seq(Seq(S)), ss # <<>>
  PROVE  \E f : Flattens(ss, f)
<1> DEFINE n == Len(ss)
           V == Nat \X Seq(S)
           first == <<1, ss[1]>>
           step(x) == <<x[1] + 1, IF x[1] + 1 \in 1 .. n THEN x[2] \o ss[x[1] + 1] ELSE x[2]>>
           G == [x \in V |-> step(x)]
<1>1. n \in Nat /\ n >= 1 /\ \A i \in 1 .. n : ss[i] \in Seq(S)
  BY EmptySeq, LenProperties, ElementOfSeq
<1> HIDE DEF n
<1>2. first \in V
  BY <1>1
<1>3. ASSUME NEW x \in V PROVE step(x) \in V
  <2>1. x[1] \in Nat /\ x[2] \in Seq(S) /\ x[1] + 1 \in Nat
    OBVIOUS
  <2>2. x[1] + 1 \in 1 .. n => x[2] \o ss[x[1] + 1] \in Seq(S)
    BY <1>1, <2>1, ConcatProperties
  <2> QED BY <2>1, <2>2
<1>4. G \in [V -> V]
  <2> HIDE DEF V, step
  <2> QED BY <1>3
<1>5. PICK f \in [Nat -> V] : Iterates(f, first, G)
  <2>1. first \in V /\ G \in [V -> V]
    BY <1>2, <1>4
  <2> HIDE DEF V, G, first, step
  <2> QED BY <2>1, Iterate
<1>6. f[0] = first /\ \A i \in Nat : f[i + 1] = step(f[i])
  <2>1. \A i \in Nat : f[i] \in V
    <3> HIDE DEF V
    <3> QED BY <1>5
  <2>2. \A i \in Nat : G[f[i]] = step(f[i])
    <3> HIDE DEF V, step
    <3> QED BY <2>1
  <2> HIDE DEF G, step, V, first
  <2>3. Goes(f, first, G)
    BY <1>5, Steps
  <2> QED BY <2>2, <2>3 DEF Goes
<1> DEFINE T == {i \in Nat : f[i][1] = i + 1}
<1>7. \A i \in Nat : i \in T
  <2>1. 0 \in T
    BY <1>6
  <2>2. ASSUME NEW i \in Nat, i \in T PROVE i + 1 \in T
    BY <1>6, <2>2
  <2> HIDE DEF T
  <2> QED BY <2>1, <2>2, Induct
<1> DEFINE g == [i \in 1 .. n |-> f[i - 1][2]]
<1>8. ASSUME NEW i \in 1 .. n PROVE g[i] = IF i = 1 THEN ss[i] ELSE g[i - 1] \o ss[i]
  <2>1. CASE i = 1
    <3>1. 1 \in 1 .. n /\ 1 - 1 = 0
      BY <1>1
    <3>2. g[1] = f[1 - 1][2]
      BY <3>1
    <3>3. f[0][2] = ss[1]
      BY <1>6
    <3> QED BY <2>1, <3>1, <3>2, <3>3
  <2>2. CASE i # 1
    <3>1. i - 2 \in Nat /\ (i - 2) + 1 = i - 1 /\ i - 1 \in 1 .. n /\ (i - 1) - 1 = i - 2 /\ i - 1 \in Nat
      BY <1>1, <2>2
    <3>2. f[i - 1] = step(f[i - 2])
      BY <1>6, <3>1
    <3>3. f[i - 2][1] = i - 1
      BY <1>7, <3>1
    <3>4. f[i - 1][2] = f[i - 2][2] \o ss[i]
      <4>1. f[i - 2][1] + 1 = i
        BY <3>1, <3>3
      <4>2. \A x : x[1] + 1 = i => step(x)[2] = x[2] \o ss[i]
        OBVIOUS
      <4> HIDE DEF step
      <4> QED BY <3>2, <4>1, <4>2
    <3>5. g[i] = f[i - 1][2] /\ g[i - 1] = f[i - 2][2]
      BY <3>1
    <3> QED BY <2>2, <3>4, <3>5
  <2> QED BY <2>1, <2>2
<1>9. g = [i \in 1 .. n |-> g[i]]
  OBVIOUS
<1> HIDE DEF g
<1>10. g = [i \in 1 .. n |-> IF i = 1 THEN ss[i] ELSE g[i - 1] \o ss[i]]
  BY <1>8, <1>9
<1>11. Flattens(ss, g)
  BY <1>10 DEF n, Flattens
<1> QED BY <1>11

\* What FlattenSeq makes of a row of sequences.
LEMMA FlattenIs ==
  ASSUME NEW S, NEW ss \in Seq(Seq(S)), NEW R, RowsOrdered(ss, R)
  PROVE  /\ FlattenSeq(ss) \in Seq(S)
         /\ Elems(FlattenSeq(ss)) = UNION {Elems(ss[i]) : i \in 1 .. Len(ss)}
         /\ Ordered(FlattenSeq(ss), R)
<1>1. CASE ss = <<>>
  <2>1. Len(ss) = 0 /\ ss \in Seq(S) /\ 1 .. Len(ss) = {}
    BY <1>1
  <2>2. FlattenSeq(ss) = ss
    BY <2>1 DEF FlattenSeq
  <2> QED BY <2>1, <2>2 DEF Elems, Ordered
<1>2. CASE ss # <<>>
  <2> DEFINE n == Len(ss)
             f == CHOOSE g : g = [i \in 1 .. n |-> IF i = 1 THEN ss[i] ELSE g[i - 1] \o ss[i]]
             Upto(i) == UNION {Elems(ss[j]) : j \in 1 .. i}
  <2>1. n \in Nat /\ n >= 1 /\ \A i \in 1 .. n : ss[i] \in Seq(S)
    BY <1>2, EmptySeq, LenProperties, ElementOfSeq
  <2>2. FlattenSeq(ss) = f[n]
    BY <2>1 DEF FlattenSeq
  <2>3. f = [i \in 1 .. n |-> IF i = 1 THEN ss[i] ELSE f[i - 1] \o ss[i]]
    <3>1. \E g : g = [i \in 1 .. n |-> IF i = 1 THEN ss[i] ELSE g[i - 1] \o ss[i]]
      BY <1>2, FlattenExists DEF Flattens
    <3> QED BY <3>1
  <2> HIDE DEF f
  <2>4. /\ \A i \in 1 .. n : Ordered(ss[i], R)
        /\ \A i, j \in 1 .. n : i < j => AllBefore(ss[i], ss[j], R)
    BY DEF RowsOrdered
  <2> HIDE DEF n
  <2> DEFINE T == {i \in Nat : i + 1 <= n => /\ f[i + 1] \in Seq(S)
                                             /\ Elems(f[i + 1]) = Upto(i + 1)
                                             /\ Ordered(f[i + 1], R)}
  <2>5. 0 \in T
    <3>1. f[1] = ss[1] /\ 1 \in 1 .. n
      BY <2>1, <2>3
    <3>2. Upto(1) = Elems(ss[1])
      OBVIOUS
    <3> HIDE DEF Upto
    <3> QED BY <2>1, <2>4, <3>1, <3>2
  <2>6. ASSUME NEW i \in Nat, i \in T PROVE i + 1 \in T
    <3> DEFINE m == i + 1
    <3> SUFFICES ASSUME m + 1 <= n
                 PROVE  f[m + 1] \in Seq(S) /\ Elems(f[m + 1]) = Upto(m + 1) /\ Ordered(f[m + 1], R)
      OBVIOUS
    <3>1. m \in 1 .. n /\ m + 1 \in 1 .. n /\ m + 1 # 1 /\ (m + 1) - 1 = m /\ m \in Nat
      BY <2>1
    <3>2. f[m] \in Seq(S) /\ Elems(f[m]) = Upto(m) /\ Ordered(f[m], R)
      BY <2>6, <3>1
    <3> HIDE DEF m
    <3>3. f[m + 1] = f[m] \o ss[m + 1]
      BY <2>3, <3>1
    <3>4. ss[m + 1] \in Seq(S) /\ Ordered(ss[m + 1], R)
      BY <2>1, <2>4, <3>1
    <3>5. AllBefore(f[m], ss[m + 1], R)
      <4> SUFFICES ASSUME NEW x \in Elems(f[m]), NEW y \in Elems(ss[m + 1]) PROVE <<x, y>> \in R
        BY DEF AllBefore
      <4>1. PICK j \in 1 .. m : x \in Elems(ss[j])
        BY <3>2
      <4>2. j \in 1 .. n /\ j < m + 1
        BY <2>1, <3>1, <4>1
      <4> QED BY <2>4, <3>1, <4>1, <4>2 DEF AllBefore
    <3>6. f[m] \o ss[m + 1] \in Seq(S)
      BY <3>2, <3>4, ConcatProperties
    <3>7. Elems(f[m] \o ss[m + 1]) = Elems(f[m]) \cup Elems(ss[m + 1])
      BY <3>2, <3>4, ElemsConcat
    <3>8. Upto(m + 1) = Upto(m) \cup Elems(ss[m + 1])
      <4>1. 1 .. m + 1 = (1 .. m) \cup {m + 1}
        BY <3>1
      <4> QED BY <4>1
    <3>9. Ordered(f[m] \o ss[m + 1], R)
      BY <3>2, <3>4, <3>5, OrderedConcat
    <3> HIDE DEF Upto
    <3> QED BY <3>2, <3>3, <3>6, <3>7, <3>8, <3>9
  <2> HIDE DEF T
  <2>7. \A i \in Nat : i \in T
    BY <2>5, <2>6, Induct
  <2>8. n - 1 \in Nat /\ (n - 1) + 1 = n /\ n <= n
    BY <2>1
  <2>9. f[n] \in Seq(S) /\ Elems(f[n]) = Upto(n) /\ Ordered(f[n], R)
    BY <2>7, <2>8 DEF T
  <2> QED BY <2>2, <2>9 DEF n
<1> QED BY <1>1, <1>2

\* A row of nodes in the order of their keys, and the leaves below them.
Ahead(m, n) == \A k \in KeysOf(m) : k < MinKey(n)
Rises(ns) == \A i, j \in 1 .. Len(ns) : i < j => Ahead(ns[i], ns[j])
Beneath(ns) == UNION {Bottom(n) : n \in Elems(ns)}

AheadIn(N) == {p \in N \X N : Ahead(p[1], p[2])}

LEMMA RowIs ==
  ASSUME NEW N, NEW n \in Nat, NEW c \in [1 .. n -> N]
  PROVE  c \in Seq(N) /\ Len(c) = n
<1>1. c \in Seq(N)
  BY SeqDef
<1>2. Len(c) \in Nat /\ DOMAIN c = 1 .. Len(c) /\ DOMAIN c = 1 .. n
  BY <1>1, LenProperties
<1>3. Len(c) <= n
  <2>1. Len(c) = 0 \/ Len(c) \in 1 .. Len(c)
    BY <1>2
  <2> QED BY <1>2, <2>1
<1>4. n <= Len(c)
  <2>1. n = 0 \/ n \in 1 .. n
    OBVIOUS
  <2> QED BY <1>2, <2>1
<1> QED BY <1>1, <1>2, <1>3, <1>4

\* What the children of an inner node are to it.
LEMMA ChildrenRow ==
  ASSUME NEW N, Layer(N), NEW n \in Fans(N)
  PROVE  /\ Children(n) \in Seq(N) /\ Ordered(Children(n), AheadIn(N))
         /\ \A m \in Elems(Children(n)) : KeysOf(m) \subseteq KeysOf(n) /\ MinKey(n) <= MinKey(m)
         /\ \A x : x \in Bottom(n) <=> \E m \in Elems(Children(n)) : x \in Bottom(m)
<1> DEFINE es == n.es
           c  == [i \in 1 .. Len(es) |-> es[i].node]
<1>1. /\ ~n.leaf /\ es \in Seq(Entry(N)) /\ es # <<>> /\ Fan(es)
      /\ MinKey(n) = es[1].key /\ Bottom(n) = Under(es) /\ Sound(n)
      /\ Sounds(N)
  <2>1. /\ n = Inner(n.es) /\ ~n.leaf /\ n.es \in Seq(Entry(N)) /\ n.es # <<>> /\ Fan(n.es)
        /\ MinKey(n) = n.es[1].key
        /\ Bottom(n) = Under(n.es)
        /\ Sound(n)
    BY FansSound
  <2> QED BY <2>1 DEF Layer, Sounds
<1>2. Children(n) = c
  BY <1>1 DEF Children
<1> HIDE DEF es
<1>3. Len(es) \in Nat /\ \A i \in 1 .. Len(es) : es[i] \in Entry(N)
  BY <1>1, LenProperties, ElementOfSeq
<1>4. \A i \in 1 .. Len(es) : /\ es[i].node \in N /\ es[i].key \in Nat
                              /\ Sound(es[i].node) /\ MinKey(es[i].node) \in Nat
                              /\ KeysOf(es[i].node) \subseteq Nat
  <2> SUFFICES ASSUME NEW i \in 1 .. Len(es)
               PROVE  /\ es[i].node \in N /\ es[i].key \in Nat
                      /\ Sound(es[i].node) /\ MinKey(es[i].node) \in Nat
                      /\ KeysOf(es[i].node) \subseteq Nat
    OBVIOUS
  <2>1. es[i].node \in N /\ es[i].key \in Nat
    BY <1>3, EntryIs
  <2>2. Keys \subseteq Nat
    BY TreeAssumption DEF TreeAssumption
  <2> QED BY <1>1, <2>1, <2>2 DEF Sounds, Sound
<1>5. Len(c) = Len(es) /\ c \in Seq(N) /\ \A i \in 1 .. Len(es) : c[i] = es[i].node
  <2>1. c \in [1 .. Len(es) -> N]
    BY <1>4
  <2>2. \A i \in 1 .. Len(es) : c[i] = es[i].node
    OBVIOUS
  <2> HIDE DEF c
  <2> QED BY <1>3, <2>1, <2>2, RowIs
<1> HIDE DEF c
<1>6. Elems(c) = {e.node : e \in Elems(es)}
  BY <1>5 DEF Elems
<1>7. ASSUME NEW i \in 1 .. Len(es), NEW j \in 1 .. Len(es), i < j PROVE <<c[i], c[j]>> \in AheadIn(N)
  <2>1. Before(es[i], es[j]) /\ es[j].key <= MinKey(es[j].node)
    BY <1>1, <1>7 DEF Fan
  <2>2. ASSUME NEW k \in KeysOf(es[i].node) PROVE k < MinKey(es[j].node)
    <3>1. k < es[j].key /\ k \in Nat
      BY <1>4, <2>1 DEF Before
    <3> QED BY <1>4, <2>1, <3>1
  <2>3. es[i].node \in N /\ es[j].node \in N
    BY <1>4
  <2> QED BY <1>5, <2>2, <2>3 DEF AheadIn, Ahead
<1>8. ASSUME NEW e \in Elems(es) PROVE KeysOf(e.node) \subseteq KeysOf(n) /\ MinKey(n) <= MinKey(e.node)
  <2>1. es[1].key <= e.key /\ 1 \in 1 .. Len(es)
    BY <1>1, FirstLeast
  <2>2. PICK i \in 1 .. Len(es) : e = es[i]
    BY DEF Elems
  <2>3. e.key <= MinKey(e.node)
    BY <1>1, <2>2 DEF Fan
  <2>4. MinKey(n) <= MinKey(e.node)
    <3>1. e.key \in Nat /\ es[1].key \in Nat /\ MinKey(e.node) \in Nat
      BY <1>4, <2>1, <2>2
    <3> QED BY <1>1, <2>1, <2>3, <3>1
  <2>5. Bottom(e.node) \subseteq Bottom(n)
    BY <1>1 DEF Under
  <2>6. KeysOf(e.node) \subseteq KeysOf(n)
    BY <2>5 DEF KeysOf
  <2> QED BY <2>4, <2>6
<1>9. ASSUME NEW x PROVE x \in Bottom(n) <=> \E m \in Elems(c) : x \in Bottom(m)
  <2>1. x \in Under(es) <=> \E e \in Elems(es) : x \in Bottom(e.node)
    BY DEF Under
  <2> QED BY <1>1, <1>6, <2>1
<1>10. Ordered(c, AheadIn(N))
  BY <1>5, <1>7 DEF Ordered
<1> QED BY <1>2, <1>5, <1>6, <1>8, <1>9, <1>10

\* The children of the nodes of a row, from left to right.
Below(ns) == FlattenSeq([i \in 1 .. Len(ns) |-> Children(ns[i])])

IsRow(N, ns, E) == ns \in Seq(N) /\ Rises(ns) /\ Beneath(ns) = E

LEMMA RowBelow ==
  ASSUME NEW N, Layer(N), NEW E, NEW ns, IsRow(Fans(N), ns, E)
  PROVE  IsRow(N, Below(ns), E)
<1> DEFINE ss == [i \in 1 .. Len(ns) |-> Children(ns[i])]
           R  == AheadIn(N)
<1>1. /\ ns \in Seq(Fans(N)) /\ Rises(ns) /\ Beneath(ns) = E
      /\ Len(ns) \in Nat /\ \A i \in 1 .. Len(ns) : ns[i] \in Fans(N)
  <2>1. ns \in Seq(Fans(N))
    BY DEF IsRow
  <2> QED BY <2>1, LenProperties, ElementOfSeq DEF IsRow
<1>2. \A i \in 1 .. Len(ns) :
        /\ Children(ns[i]) \in Seq(N) /\ Ordered(Children(ns[i]), R)
        /\ \A m \in Elems(Children(ns[i])) : KeysOf(m) \subseteq KeysOf(ns[i]) /\ MinKey(ns[i]) <= MinKey(m)
        /\ \A x : x \in Bottom(ns[i]) <=> \E m \in Elems(Children(ns[i])) : x \in Bottom(m)
  BY <1>1, ChildrenRow
<1>3. Len(ss) = Len(ns) /\ ss \in Seq(Seq(N)) /\ \A i \in 1 .. Len(ns) : ss[i] = Children(ns[i])
  <2>1. ss \in [1 .. Len(ns) -> Seq(N)]
    BY <1>2
  <2>2. \A i \in 1 .. Len(ns) : ss[i] = Children(ns[i])
    OBVIOUS
  <2> HIDE DEF ss
  <2> QED BY <1>1, <2>1, <2>2, RowIs
<1>4. Below(ns) = FlattenSeq(ss)
  BY DEF Below
<1> HIDE DEF ss, R
<1>5. RowsOrdered(ss, R)
  <2>1. ASSUME NEW i \in 1 .. Len(ns), NEW j \in 1 .. Len(ns), i < j PROVE AllBefore(ss[i], ss[j], R)
    <3> SUFFICES ASSUME NEW x \in Elems(Children(ns[i])), NEW y \in Elems(Children(ns[j]))
                 PROVE  <<x, y>> \in R
      BY <1>3 DEF AllBefore
    <3>1. x \in N /\ y \in N
      <4>1. Children(ns[i]) \in Seq(N) /\ Children(ns[j]) \in Seq(N)
        BY <1>2
      <4> QED BY <4>1, ElemsOf
    <3>2. KeysOf(x) \subseteq KeysOf(ns[i]) /\ MinKey(ns[j]) <= MinKey(y)
      BY <1>2
    <3>3. Ahead(ns[i], ns[j])
      BY <1>1, <2>1 DEF Rises
    <3>4. Sound(ns[i]) /\ Sound(ns[j]) /\ Sound(y)
      <4>1. Sound(ns[i]) /\ Sound(ns[j])
        BY <1>1, FansSound
      <4> QED BY <3>1, <4>1 DEF Layer
    <3>5. ASSUME NEW k \in KeysOf(x) PROVE k < MinKey(y)
      <4>1. k < MinKey(ns[j])
        BY <3>2, <3>3 DEF Ahead
      <4>2. k \in Nat /\ MinKey(ns[j]) \in Nat /\ MinKey(y) \in Nat
        <5>1. Keys \subseteq Nat
          BY TreeAssumption DEF TreeAssumption
        <5> QED BY <3>2, <3>4, <5>1 DEF Sound
      <4> QED BY <3>2, <4>1, <4>2
    <3> QED BY <3>1, <3>5 DEF R, AheadIn, Ahead
  <2> QED BY <1>2, <1>3, <2>1 DEF RowsOrdered
<1> DEFINE f == FlattenSeq(ss)
<1>6. /\ f \in Seq(N)
      /\ Elems(f) = UNION {Elems(ss[i]) : i \in 1 .. Len(ss)}
      /\ Ordered(f, R)
  BY <1>3, <1>5, FlattenIs
<1> HIDE DEF f
<1>7. Rises(f)
  BY <1>6 DEF Rises, Ordered, R, AheadIn
<1>8. ASSUME NEW x PROVE x \in Beneath(f) <=> x \in Beneath(ns)
  <2>1. x \in Beneath(f) <=> \E i \in 1 .. Len(ns) : \E m \in Elems(Children(ns[i])) : x \in Bottom(m)
    <3>1. x \in Beneath(f) <=> \E m \in Elems(f) : x \in Bottom(m)
      BY DEF Beneath
    <3>2. \A m : m \in Elems(f) <=> \E i \in 1 .. Len(ns) : m \in Elems(Children(ns[i]))
      BY <1>3, <1>6
    <3> QED BY <3>1, <3>2
  <2>2. x \in Beneath(ns) <=> \E i \in 1 .. Len(ns) : x \in Bottom(ns[i])
    BY DEF Beneath, Elems
  <2> QED BY <1>2, <2>1, <2>2
<1>9. Beneath(f) = E
  BY <1>1, <1>8
<1>10. IsRow(N, f, E)
  BY <1>6, <1>7, <1>9 DEF IsRow
<1> QED BY <1>4, <1>10 DEF f

\* A set of nodes with the rows of their children.
Rows(U) == \A n \in U : Children(n) \in Seq(U)

LEMMA RowsAre ==
  ASSUME NEW U, Rows(U), NEW node \in U
  PROVE  \E row : /\ row[0] = <<node>> /\ \A d \in Nat : row[d + 1] = Below(row[d])
                  /\ LeavesOf(node) = row[Height(node)]
<1> DEFINE V == Seq(U)
           one == <<node>>
           G == [x \in V |-> Below(x)]
           row == CHOOSE f : f = [d \in Nat |-> IF d = 0 THEN one ELSE Below(f[d - 1])]
<1>1. one \in V
  OBVIOUS
<1>2. ASSUME NEW x \in V PROVE Below(x) \in V
  <2> DEFINE c == [i \in 1 .. Len(x) |-> Children(x[i])]
             R == U \X U
  <2>1. Len(x) \in Nat /\ \A i \in 1 .. Len(x) : x[i] \in U
    BY LenProperties, ElementOfSeq
  <2>2. c \in [1 .. Len(x) -> Seq(U)]
    BY <2>1 DEF Rows
  <2>3. Below(x) = FlattenSeq(c)
    BY DEF Below
  <2> HIDE DEF c
  <2>4. c \in Seq(Seq(U)) /\ Len(c) = Len(x)
    BY <2>1, <2>2, RowIs
  <2>5. \A i \in 1 .. Len(c) : c[i] \in Seq(U) /\ Elems(c[i]) \subseteq U
    <3>1. \A i \in 1 .. Len(c) : c[i] \in Seq(U)
      BY <2>4, ElementOfSeq
    <3> QED BY <3>1, ElemsOf
  <2>6. RowsOrdered(c, R)
    <3>1. \A i \in 1 .. Len(c) : Ordered(c[i], R)
      <4> SUFFICES ASSUME NEW i \in 1 .. Len(c), NEW p \in 1 .. Len(c[i]), NEW q \in 1 .. Len(c[i])
                   PROVE  <<c[i][p], c[i][q]>> \in R
        BY DEF Ordered
      <4>1. c[i][p] \in Elems(c[i]) /\ c[i][q] \in Elems(c[i])
        BY DEF Elems
      <4> QED BY <2>5, <4>1
    <3>2. \A i, j \in 1 .. Len(c) : AllBefore(c[i], c[j], R)
      BY <2>5 DEF AllBefore
    <3> QED BY <3>1, <3>2 DEF RowsOrdered
  <2> HIDE DEF R
  <2>7. /\ FlattenSeq(c) \in Seq(U)
        /\ Elems(FlattenSeq(c)) = UNION {Elems(c[i]) : i \in 1 .. Len(c)}
        /\ Ordered(FlattenSeq(c), R)
    BY <2>4, <2>6, FlattenIs
  <2> QED BY <2>3, <2>7
<1>3. G \in [V -> V]
  <2> HIDE DEF V
  <2> QED BY <1>2
<1>4. PICK f \in [Nat -> V] : Iterates(f, one, G)
  <2> HIDE DEF V, G, one
  <2> QED BY <1>1, <1>3, Iterate
<1>5. f = [d \in Nat |-> IF d = 0 THEN one ELSE Below(f[d - 1])]
  <2>1. ASSUME NEW d \in Nat, d # 0 PROVE G[f[d - 1]] = Below(f[d - 1])
    <3>1. d - 1 \in Nat
      BY <2>1
    <3>2. f[d - 1] \in V
      BY <1>4, <3>1
    <3> HIDE DEF V
    <3> QED BY <3>2
  <2> HIDE DEF G, one, V
  <2> QED BY <1>4, <2>1 DEF Iterates
<1>6. LeavesOf(node) = row[Height(node)]
  BY DEF LeavesOf, Below
<1>7. row = [d \in Nat |-> IF d = 0 THEN one ELSE Below(row[d - 1])]
  <2> HIDE DEF one
  <2> QED BY <1>5
<1> HIDE DEF row
<1>8. \A d \in Nat : d + 1 \in Nat /\ d + 1 # 0 /\ (d + 1) - 1 = d
  OBVIOUS
<1>9. row[0] = one /\ \A d \in Nat : row[d + 1] = Below(row[d])
  <2> HIDE DEF one
  <2> QED BY <1>7, <1>8
<1> QED BY <1>6, <1>9

\* bulkLoading finds the leaves of a tree in order, with all that is in it.
LEMMA LeavesOfIs ==
  ASSUME NEW t, IsTree(t)
  PROVE  IsRow(Filled, LeavesOf(t), Bottom(t))
<1>1. PICK h \in Nat : \E zs : t = Inner(zs) /\ IsRoot(zs, h)
  BY DEF IsTree
<1>2. PICK es : t = Inner(es) /\ IsRoot(es, h)
  BY <1>1
<1>3. CASE es = <<>>
  <2> DEFINE U == {t}
             one == <<t>>
             c == [i \in 1 .. Len(one) |-> Children(one[i])]
             none == {t} \X {t}
  <2>1. Children(t) = <<>>
    <3>1. ~t.leaf /\ t.es = <<>>
      BY <1>2, <1>3 DEF Inner
    <3> QED BY <3>1 DEF Children
  <2>2. Rows(U)
    BY <2>1 DEF Rows
  <2>3. PICK row : /\ row[0] = <<t>> /\ \A d \in Nat : row[d + 1] = Below(row[d])
                   /\ LeavesOf(t) = row[Height(t)]
    <3>1. t \in U
      OBVIOUS
    <3> HIDE DEF U
    <3> QED BY <2>2, <3>1, RowsAre
  <2>4. Height(t) = 1 /\ Bottom(t) = {}
    BY <1>2, <1>3, EmptyRoot
  <2>5. LeavesOf(t) = Below(one)
    <3>1. row[0 + 1] = Below(row[0])
      BY <2>3
    <3> QED BY <2>3, <2>4, <3>1
  <2>6. Below(one) = FlattenSeq(c)
    BY DEF Below
  <2>7. c \in Seq(Seq({})) /\ \A i \in 1 .. Len(c) : c[i] = <<>>
    <3>1. Len(one) \in Nat /\ \A i \in 1 .. Len(one) : one[i] = t
      OBVIOUS
    <3> HIDE DEF one
    <3>2. c \in [1 .. Len(one) -> Seq({})]
      <4>1. \A i \in 1 .. Len(one) : Children(one[i]) = <<>>
        BY <2>1, <3>1
      <4>2. <<>> \in Seq({})
        OBVIOUS
      <4> QED BY <4>1, <4>2
    <3>3. \A i \in 1 .. Len(one) : c[i] = <<>>
      BY <2>1, <3>1
    <3> HIDE DEF c
    <3>4. c \in Seq(Seq({})) /\ Len(c) = Len(one)
      BY <3>1, <3>2, RowIs
    <3> QED BY <3>3, <3>4
  <2> HIDE DEF c, none
  <2>8. RowsOrdered(c, none)
    BY <2>7 DEF RowsOrdered, Ordered, AllBefore, Elems
  <2>9. FlattenSeq(c) \in Seq({})
    <3>1. /\ FlattenSeq(c) \in Seq({})
          /\ Elems(FlattenSeq(c)) = UNION {Elems(c[i]) : i \in 1 .. Len(c)}
          /\ Ordered(FlattenSeq(c), none)
      BY <2>7, <2>8, FlattenIs
    <3> QED BY <3>1
  <2>10. LeavesOf(t) = <<>>
    <3> DEFINE s == LeavesOf(t)
    <3>1. s \in Seq({})
      BY <2>5, <2>6, <2>9
    <3> HIDE DEF s
    <3>2. s = <<>>
      BY <3>1, EmptySeq, ElementOfSeq, LenProperties
    <3> QED BY <3>2 DEF s
  <2>11. IsRow(Filled, <<>>, {})
    BY DEF IsRow, Rises, Beneath, Elems
  <2> QED BY <2>4, <2>10, <2>11
<1>4. CASE es # <<>>
  <2> DEFINE U == UpTo(h) \cup {t}
             E == Bottom(t)
  <2>1. IsNode(es, h) /\ Layer(Good[h])
    BY <1>2, <1>4, RootHolds
  <2>2. t \in Fans(Good[h])
    BY <1>2, <2>1 DEF IsNode, Fans
  <2>3. \A j \in Nat : Good[j + 1] \subseteq Fans(Good[j]) /\ Layer(Good[j]) /\ Good[0] = Filled
    BY GoodIs, GoodLayer DEF Grown
  <2>4. Rows(U)
    <3>1. ASSUME NEW N, N \subseteq U, NEW c \in Seq(N) PROVE c \in Seq(U)
      <4>1. Elems(c) \subseteq N
        BY ElemsOf
      <4>2. Elems(c) \subseteq U
        BY <3>1, <4>1
      <4> HIDE DEF U
      <4> QED BY <4>2, SeqOver
    <3>2. ASSUME NEW j \in 0 .. h, NEW n \in Fans(Good[j]) PROVE Children(n) \in Seq(U)
      <4>1. j \in Nat /\ Layer(Good[j]) /\ Good[j] \subseteq U
        BY <2>3 DEF UpTo
      <4>2. Children(n) \in Seq(Good[j])
        BY <4>1, ChildrenRow
      <4> HIDE DEF U
      <4> QED BY <3>1, <4>1, <4>2
    <3>3. ASSUME NEW n \in UpTo(h) PROVE Children(n) \in Seq(U)
      <4>1. PICK j \in 0 .. h : n \in Good[j]
        BY DEF UpTo
      <4>2. CASE j = 0
        <5>1. n.leaf
          BY <4>1, <4>2, GoodNodes
        <5>2. Children(n) = <<>>
          BY <5>1 DEF Children
        <5> QED BY <5>2
      <4>3. CASE j # 0
        <5>1. j - 1 \in 0 .. h /\ j - 1 \in Nat /\ (j - 1) + 1 = j
          BY <4>3
        <5>2. n \in Fans(Good[j - 1])
          BY <2>3, <4>1, <5>1
        <5> QED BY <3>2, <5>1, <5>2
      <4> QED BY <4>2, <4>3
    <3>4. h \in 0 .. h
      OBVIOUS
    <3>5. Children(t) \in Seq(U)
      BY <2>2, <3>2, <3>4
    <3> QED BY <3>3, <3>5 DEF Rows
  <2>5. PICK row : /\ row[0] = <<t>> /\ \A d \in Nat : row[d + 1] = Below(row[d])
                   /\ LeavesOf(t) = row[Height(t)]
    <3>1. t \in U
      OBVIOUS
    <3> HIDE DEF U
    <3> QED BY <2>4, <3>1, RowsAre
  <2>6. Height(t) = h + 1
    BY <1>2, <2>1, HoldsOver DEF IsNode
  <2> DEFINE S == {d \in Nat : d <= h => IsRow(Good[h - d], row[d + 1], E)}
  <2>7. 0 \in S
    <3>1. IsRow(Fans(Good[h]), <<t>>, E)
      <4> DEFINE one == <<t>>
      <4>1. one \in Seq(Fans(Good[h])) /\ Len(one) = 1 /\ one[1] = t
        BY <2>2
      <4> HIDE DEF one
      <4>2. Elems(one) = {t}
        BY <4>1 DEF Elems
      <4>3. Beneath(one) = E
        BY <4>2 DEF Beneath
      <4>4. Rises(one)
        BY <4>1 DEF Rises
      <4>5. IsRow(Fans(Good[h]), one, E)
        BY <4>1, <4>3, <4>4 DEF IsRow
      <4> QED BY <4>5 DEF one
    <3> HIDE DEF E
    <3>2. IsRow(Good[h], Below(<<t>>), E)
      BY <2>1, <3>1, RowBelow
    <3>3. row[0 + 1] = Below(row[0]) /\ row[0] = <<t>>
      BY <2>5
    <3>4. h - 0 = h
      OBVIOUS
    <3>5. row[0 + 1] = Below(<<t>>)
      BY ONLY <3>3
    <3> QED BY <3>2, <3>4, <3>5
  <2>8. ASSUME NEW d \in Nat, d \in S PROVE d + 1 \in S
    <3> SUFFICES ASSUME d + 1 <= h PROVE IsRow(Good[h - (d + 1)], row[(d + 1) + 1], E)
      OBVIOUS
    <3> DEFINE j == h - (d + 1)
               r == row[d + 1]
    <3>1. j \in Nat /\ j + 1 = h - d /\ d <= h /\ d + 1 \in Nat
      OBVIOUS
    <3>2. IsRow(Good[h - d], r, E)
      BY <2>8, <3>1
    <3>3. row[(d + 1) + 1] = Below(r)
      BY <2>5, <3>1
    <3> HIDE DEF j, r, E
    <3>4. r \in Seq(Good[j + 1]) /\ Rises(r) /\ Beneath(r) = E
      BY <3>1, <3>2 DEF IsRow
    <3>5. Good[j + 1] \subseteq Fans(Good[j]) /\ Layer(Good[j])
      BY <2>3, <3>1
    <3>6. Elems(r) \subseteq Fans(Good[j])
      <4>1. Elems(r) \subseteq Good[j + 1]
        BY <3>4, ElemsOf
      <4> QED BY <3>5, <4>1
    <3>7. r \in Seq(Fans(Good[j]))
      BY <3>4, <3>6, SeqOver
    <3>8. IsRow(Fans(Good[j]), r, E)
      BY <3>4, <3>7 DEF IsRow
    <3>9. IsRow(Good[j], Below(r), E)
      BY <3>5, <3>8, RowBelow
    <3> QED BY <3>3, <3>9 DEF j
  <2> HIDE DEF S
  <2>9. \A d \in Nat : d \in S
    BY <2>7, <2>8, Induct
  <2>10. h - h = 0 /\ h <= h /\ Good[0] = Filled
    BY <2>3
  <2>11. IsRow(Good[h - h], row[h + 1], E)
    BY <2>9, <2>10 DEF S
  <2> QED BY <2>5, <2>6, <2>10, <2>11
<1> QED BY <1>3, <1>4
-----------------------------------------------------------------------------
\* How bulkLoading divides a level among the nodes of the next.

LEMMA MulMono ==
  ASSUME NEW a \in Nat, NEW b \in Nat, NEW d \in Nat, a <= b
  PROVE  a * d <= b * d /\ a * d \in Nat /\ b * d \in Nat
OBVIOUS

LEMMA DivMod ==
  ASSUME NEW n \in Nat, NEW d \in Nat, d > 0
  PROVE  /\ n = (n \div d) * d + (n % d)
         /\ n \div d \in Nat /\ n % d \in Nat /\ n % d < d
OBVIOUS

LEMMA MulSucc ==
  ASSUME NEW a \in Nat, NEW d \in Nat
  PROVE  (a + 1) * d = a * d + d
OBVIOUS

\* n nodes in groups: group g has the size[g] nodes after the first off[g].
IsPartition(n, last, off, size) ==
  /\ last \in Nat /\ last >= 2 /\ last < n
  /\ \A g \in 1 .. last :
       /\ off[g] \in Nat /\ size[g] \in Degree .. 2 * Degree + 1
       /\ off[g] + size[g] <= n
       /\ \A h \in 1 .. last : g < h => off[g] + size[g] <= off[h]
  /\ \A j \in 1 .. n : \E g \in 1 .. last : \E i \in 1 .. size[g] : j = off[g] + i

LEMMA GroupsAre ==
  ASSUME NEW n \in Nat, n >= 2 * Degree + 1, NEW last, last = (n - 1) \div Degree
  PROVE  IsPartition(n, last, [g \in 1 .. last |-> (g - 1) * Degree],
                     [g \in 1 .. last |-> IF g = last THEN n - (last - 1) * Degree ELSE Degree])
<1> DEFINE d == Degree
           r == (n - 1) % d
           off  == [g \in 1 .. last |-> (g - 1) * Degree]
           size == [g \in 1 .. last |-> IF g = last THEN n - (last - 1) * Degree ELSE Degree]
           P(x) == x * d
<1>1. d \in Nat /\ d >= 1 /\ n >= 2 * d + 1 /\ n - 1 \in Nat /\ d > 0
  BY DegreeAssumption
<1> HIDE DEF d
<1>2. last \in Nat /\ n = P(last) + r + 1 /\ r \in Nat /\ r < d
  <2> DEFINE m == n - 1
  <2>1. m \in Nat /\ n = m + 1
    BY <1>1
  <2> HIDE DEF m
  <2>2. /\ m = (m \div d) * d + (m % d)
        /\ m \div d \in Nat /\ m % d \in Nat /\ m % d < d
    BY <1>1, <2>1, DivMod
  <2>3. last = m \div d /\ r = m % d
    BY DEF m, d
  <2> QED BY <2>1, <2>2, <2>3
<1> HIDE DEF r
<1>3. \A a, b \in Nat : a <= b => P(a) <= P(b)
  <2> SUFFICES ASSUME NEW a \in Nat, NEW b \in Nat, a <= b PROVE a * d <= b * d
    OBVIOUS
  <2>1. a * d <= b * d /\ a * d \in Nat /\ b * d \in Nat
    BY <1>1, MulMono
  <2> QED BY <2>1
<1>4. \A a \in Nat : P(a) \in Nat /\ P(a + 1) = P(a) + d
  <2> SUFFICES ASSUME NEW a \in Nat PROVE a * d \in Nat /\ (a + 1) * d = a * d + d
    OBVIOUS
  <2>1. (a + 1) * d = a * d + d
    BY <1>1, MulSucc
  <2>2. a * d \in Nat
    BY <1>1
  <2> QED BY <2>1, <2>2
<1>5. P(0) = 0
  BY <1>1
<1>6. \A g \in 1 .. last : off[g] = P(g - 1) /\ size[g] = IF g = last THEN n - P(last - 1) ELSE d
  BY DEF d
<1> HIDE DEF off, size, P
<1>7. P(1) = d
  <2>1. P(0 + 1) = P(0) + d
    BY <1>4
  <2> QED BY <1>1, <1>5, <2>1
<1>8. last >= 2
  <2> SUFFICES ASSUME last <= 1 PROVE FALSE
    BY <1>2
  <2>1. P(last) <= P(1)
    BY <1>2, <1>3
  <2>2. P(last) \in Nat
    BY <1>2, <1>4
  <2> QED BY <1>1, <1>2, <1>7, <2>1, <2>2
<1>9. last < n
  <2> DEFINE S == {a \in Nat : a <= P(a)}
  <2>1. 0 \in S
    BY <1>5
  <2>2. ASSUME NEW a \in Nat, a \in S PROVE a + 1 \in S
    BY <1>1, <1>4, <2>2
  <2> HIDE DEF S
  <2>3. last \in S
    BY <1>2, <2>1, <2>2, Induct
  <2>4. last <= P(last) /\ P(last) \in Nat
    BY <1>2, <1>4, <2>3 DEF S
  <2> QED BY <1>2, <2>4
<1>10. P(last - 1) \in Nat /\ P(last) = P(last - 1) + d
  <2>1. last - 1 \in Nat /\ (last - 1) + 1 = last
    BY <1>8, <1>2
  <2> QED BY <1>4, <2>1
<1>11. off[last] = P(last - 1) /\ size[last] = d + r + 1 /\ off[last] + size[last] = n
  <2>1. last \in 1 .. last
    BY <1>2, <1>8
  <2> QED BY <1>1, <1>2, <1>6, <1>10, <2>1
<1>12. \A g \in 1 .. last : g # last => size[g] = d /\ off[g] \in Nat /\ off[g] + size[g] = P(g) /\ P(g) <= P(last - 1)
  <2> SUFFICES ASSUME NEW g \in 1 .. last, g # last
               PROVE  size[g] = d /\ off[g] \in Nat /\ off[g] + size[g] = P(g) /\ P(g) <= P(last - 1)
    OBVIOUS
  <2>1. g - 1 \in Nat /\ (g - 1) + 1 = g /\ g \in Nat /\ last - 1 \in Nat /\ g <= last - 1
    BY <1>2
  <2>2. P(g) = P(g - 1) + d /\ P(g - 1) \in Nat
    BY <1>4, <2>1
  <2> QED BY <1>3, <1>6, <2>1, <2>2
<1>13. ASSUME NEW g \in 1 .. last
       PROVE  off[g] \in Nat /\ size[g] \in Degree .. 2 * Degree + 1 /\ off[g] + size[g] <= n
  <2>1. CASE g = last
    <3> DEFINE z == size[g]
    <3>1. off[g] = P(last - 1) /\ z = d + r + 1 /\ off[g] + z = n
      BY <1>11, <2>1
    <3> HIDE DEF z
    <3>2. z \in d .. 2 * d + 1
      BY <1>1, <1>2, <3>1
    <3>3. off[g] \in Nat /\ off[g] + z <= n
      BY <1>10, <3>1
    <3> QED BY <3>2, <3>3 DEF d, z
  <2>2. CASE g # last
    <3>1. size[g] = d /\ off[g] \in Nat /\ off[g] + size[g] = P(g) /\ P(g) <= P(last - 1)
      BY <1>12, <2>2
    <3>2. size[g] \in d .. 2 * d + 1
      BY <1>1, <3>1
    <3>3. off[g] + size[g] <= n
      BY <1>1, <1>2, <1>10, <3>1
    <3> QED BY <3>1, <3>2, <3>3 DEF d
  <2> QED BY <2>1, <2>2
<1>14. ASSUME NEW g \in 1 .. last, NEW h \in 1 .. last, g < h PROVE off[g] + size[g] <= off[h]
  <2>1. g # last /\ h - 1 \in Nat /\ g \in Nat /\ g <= h - 1
    BY <1>2, <1>14
  <2>2. P(g) <= P(h - 1) /\ off[h] = P(h - 1)
    BY <1>3, <1>6, <2>1
  <2>3. off[g] + size[g] = P(g)
    BY <1>12, <2>1
  <2> QED BY <2>2, <2>3
<1>15. ASSUME NEW j \in 1 .. n PROVE \E g \in 1 .. last : \E i \in 1 .. size[g] : j = off[g] + i
  <2> DEFINE m == j - 1
             b == m \div d
             c == m % d
  <2>1. m \in Nat /\ j = m + 1
    OBVIOUS
  <2> HIDE DEF m
  <2>2. m = P(b) + c /\ b \in Nat /\ c \in Nat /\ c < d
    <3>1. /\ m = (m \div d) * d + (m % d)
          /\ m \div d \in Nat /\ m % d \in Nat /\ m % d < d
      BY <1>1, <2>1, DivMod
    <3> QED BY <3>1 DEF P
  <2> HIDE DEF b, c
  <2>3. CASE b + 1 < last
    <3>1. b + 1 \in 1 .. last /\ b + 1 # last /\ (b + 1) - 1 = b
      BY <1>2, <2>2, <2>3
    <3>2. off[b + 1] = P(b) /\ size[b + 1] = d
      BY <1>6, <3>1
    <3>3. c + 1 \in 1 .. size[b + 1] /\ j = off[b + 1] + (c + 1)
      <4>1. P(b) \in Nat
        BY <1>4, <2>2
      <4> QED BY <1>1, <2>1, <2>2, <3>2, <4>1
    <3> QED BY <3>1, <3>3
  <2>4. CASE ~(b + 1 < last)
    <3> DEFINE i == j - off[last]
    <3>1. P(last - 1) <= P(b) /\ P(b) \in Nat
      <4>1. last - 1 \in Nat /\ last - 1 <= b
        BY <1>2, <1>8, <2>2, <2>4
      <4> QED BY <1>3, <1>4, <2>2, <4>1
    <3>2. off[last] \in Nat /\ size[last] \in Nat
      BY <1>1, <1>2, <1>10, <1>11
    <3>3. i \in 1 .. size[last] /\ j = off[last] + i
      BY <1>10, <1>11, <2>1, <2>2, <3>1, <3>2
    <3>4. last \in 1 .. last
      BY <1>2, <1>8
    <3> HIDE DEF i
    <3> QED BY <3>3, <3>4
  <2> QED BY <2>3, <2>4
<1> QED BY <1>2, <1>8, <1>9, <1>13, <1>14, <1>15 DEF IsPartition, off, size

\* The entries of the parent of the s nodes after the first a of a row.
EntryFor(n) == [key |-> MinKey(n), node |-> n]
Piece(ns, a, s) == [i \in 1 .. s |-> EntryFor(ns[a + i])]

IsPiece(N, ns, a, s, p) ==
  /\ p \in Seq(Entry(N)) /\ Len(p) = s /\ Fan(p)
  /\ \A i \in 1 .. s : /\ a + i \in 1 .. Len(ns)
                       /\ p[i].key = MinKey(ns[a + i]) /\ p[i].node = ns[a + i]

LEMMA PieceIs ==
  ASSUME NEW N, Layer(N), NEW ns \in Seq(N), Rises(ns), NEW a \in Nat, NEW s \in Nat, a + s <= Len(ns)
  PROVE  IsPiece(N, ns, a, s, Piece(ns, a, s))
<1> DEFINE p == Piece(ns, a, s)
<1>1. Len(ns) \in Nat /\ Keys \subseteq Nat
  BY LenProperties, TreeAssumption DEF TreeAssumption
<1>2. \A i \in 1 .. s : a + i \in 1 .. Len(ns) /\ p[i] = EntryFor(ns[a + i])
  BY <1>1 DEF Piece
<1>3. \A j \in 1 .. Len(ns) : ns[j] \in N /\ MinKey(ns[j]) \in Keys
  BY ElementOfSeq DEF Layer, Sound
<1>4. p \in [1 .. s -> Entry(N)]
  <2>1. \A i \in 1 .. s : EntryFor(ns[a + i]) \in Entry(N)
    BY <1>2, <1>3 DEF EntryFor, Entry
  <2> QED BY <2>1 DEF Piece
<1> HIDE DEF p
<1>5. p \in Seq(Entry(N)) /\ Len(p) = s
  BY <1>4, RowIs
<1>6. \A i \in 1 .. s : p[i].key = MinKey(ns[a + i]) /\ p[i].node = ns[a + i]
  <2>1. \A x : EntryFor(x).key = MinKey(x) /\ EntryFor(x).node = x
    BY DEF EntryFor
  <2> QED BY <1>2, <2>1
<1>7. \A i \in 1 .. s : p[i].key <= MinKey(p[i].node)
  <2> SUFFICES ASSUME NEW i \in 1 .. s PROVE p[i].key <= MinKey(p[i].node)
    OBVIOUS
  <2>1. MinKey(ns[a + i]) \in Nat
    BY <1>1, <1>2, <1>3
  <2> QED BY <1>6, <2>1
<1>8. ASSUME NEW i \in 1 .. s, NEW j \in 1 .. s, i < j PROVE Before(p[i], p[j])
  <2>1. a + i < a + j
    BY <1>8
  <2>2. Ahead(ns[a + i], ns[a + j])
    BY <1>2, <2>1 DEF Rises
  <2> QED BY <1>6, <2>2 DEF Ahead, Before
<1>9. Fan(p)
  BY <1>5, <1>7, <1>8 DEF Fan
<1>10. IsPiece(N, ns, a, s, p)
  BY <1>2, <1>5, <1>6, <1>9 DEF IsPiece
<1> QED BY <1>10 DEF p

\* The last level has one node, over all.
LEMMA OneParent ==
  ASSUME NEW N, Layer(N), NEW E, NEW ns, IsRow(N, ns, E), Len(ns) < 2 * Degree + 1
  PROVE  LET p == Piece(ns, 0, Len(ns))
         IN /\ Parents(ns) = <<Inner(p)>>
            /\ p \in Seq(Entry(N)) /\ Fan(p) /\ Len(p) = Len(ns) /\ Under(p) = E
<1> DEFINE n == Len(ns)
           p == Piece(ns, 0, n)
           ps == Parents(ns)
<1>1. n \in Nat /\ ns \in Seq(N) /\ Rises(ns) /\ Beneath(ns) = E
  BY LenProperties DEF IsRow
<1>2. /\ p \in Seq(Entry(N)) /\ Len(p) = n /\ Fan(p)
      /\ \A i \in 1 .. n : p[i].node = ns[i]
  <2>1. 0 + n <= Len(ns) /\ 0 \in Nat /\ \A i \in 1 .. n : 0 + i = i
    BY <1>1
  <2>2. IsPiece(N, ns, 0, n, p)
    <3> HIDE DEF n
    <3> QED BY <1>1, <2>1, PieceIs
  <2> QED BY <2>1, <2>2 DEF IsPiece
<1>3. Parents(ns) = <<Inner(p)>>
  <2>1. Groups(n) = 1
    BY DEF Groups
  <2>2. \A i \in 1 .. n : (1 - 1) * Degree + i = 0 + i
    BY DegreeAssumption
  <2>3. n - (1 - 1) * Degree = n
    BY <1>1, DegreeAssumption
  <2>4. Parents(ns) = [g \in 1 .. 1 |-> Inner(p)]
    <3> DEFINE q(g) == [i \in 1 .. (IF g = 1 THEN n - (1 - 1) * Degree ELSE Degree) |->
                          [key |-> MinKey(ns[(g - 1) * Degree + i]), node |-> ns[(g - 1) * Degree + i]]]
    <3>1. Parents(ns) = [g \in 1 .. 1 |-> Inner(q(g))]
      BY <2>1 DEF Parents
    <3>2. q(1) = [i \in 1 .. n |-> [key |-> MinKey(ns[(1 - 1) * Degree + i]), node |-> ns[(1 - 1) * Degree + i]]]
      BY <2>3
    <3>3. q(1) = p
      BY <2>2, <3>2 DEF Piece, EntryFor
    <3> HIDE DEF q, p
    <3> QED BY <3>1, <3>3
  <2> HIDE DEF p
  <2>5. [g \in 1 .. 1 |-> Inner(p)] = <<Inner(p)>>
    OBVIOUS
  <2> QED BY <2>4, <2>5
<1>4. Under(p) = E
  <2> HIDE DEF p
  <2>1. \A i \in 1 .. n : p[i].node = ns[i]
    BY <1>2
  <2>2. \A x : x \in Under(p) <=> \E i \in 1 .. n : x \in Bottom(p[i].node)
    BY <1>2 DEF Under, Elems
  <2>3. \A x : x \in Beneath(ns) <=> \E i \in 1 .. n : x \in Bottom(ns[i])
    BY DEF Beneath, Elems
  <2>4. \A x : x \in Under(p) <=> x \in E
    BY <1>1, <2>1, <2>2, <2>3
  <2> QED BY <2>4
<1> QED BY <1>2, <1>3, <1>4

\* The levels below it have at least two, which a parent of each group is over.
LEMMA ManyParents ==
  ASSUME NEW N, Layer(N), NEW E, NEW ns, IsRow(N, ns, E), Len(ns) >= 2 * Degree + 1
  PROVE  /\ IsRow(Grown(N), Parents(ns), E)
         /\ Len(Parents(ns)) >= 2 /\ Len(Parents(ns)) < Len(ns)
<1> DEFINE n == Len(ns)
           last == (n - 1) \div Degree
           off  == [g \in 1 .. last |-> (g - 1) * Degree]
           size == [g \in 1 .. last |-> IF g = last THEN n - (last - 1) * Degree ELSE Degree]
           p(g) == Piece(ns, off[g], size[g])
           ps == Parents(ns)
<1>1. n \in Nat /\ ns \in Seq(N) /\ Rises(ns) /\ Beneath(ns) = E /\ Len(ns) = n
  BY LenProperties DEF IsRow
<1>2. ps = [g \in 1 .. last |-> Inner(p(g))]
  <2> DEFINE q(g) == [i \in 1 .. (IF g = last THEN n - (last - 1) * Degree ELSE Degree) |->
                        [key |-> MinKey(ns[(g - 1) * Degree + i]), node |-> ns[(g - 1) * Degree + i]]]
  <2>1. Groups(n) = last
    BY <1>1, DegreeAssumption DEF Groups
  <2> HIDE DEF last
  <2>2. ps = [g \in 1 .. last |-> Inner(q(g))]
    BY <2>1 DEF Parents
  <2>3. \A g \in 1 .. last : q(g) = p(g)
    <3> SUFFICES ASSUME NEW g \in 1 .. last PROVE q(g) = p(g)
      OBVIOUS
    <3>1. off[g] = (g - 1) * Degree /\ size[g] = IF g = last THEN n - (last - 1) * Degree ELSE Degree
      OBVIOUS
    <3> HIDE DEF off, size
    <3> QED BY <3>1 DEF Piece, EntryFor
  <2> HIDE DEF p, q, ps
  <2> QED BY <2>2, <2>3
<1>3. IsPartition(n, last, off, size)
  <2>1. n \in Nat /\ n >= 2 * Degree + 1
    BY <1>1
  <2> HIDE DEF n
  <2> QED BY <2>1, GroupsAre
<1> HIDE DEF last, off, size, n, ps
<1>4. /\ last \in Nat /\ last >= 2 /\ last < n
      /\ \A g \in 1 .. last : off[g] \in Nat /\ size[g] \in Degree .. 2 * Degree + 1 /\ off[g] + size[g] <= n
      /\ \A g, h \in 1 .. last : g < h => off[g] + size[g] <= off[h]
      /\ \A j \in 1 .. n : \E g \in 1 .. last : \E i \in 1 .. size[g] : j = off[g] + i
  BY <1>3 DEF IsPartition
<1>5. \A g \in 1 .. last : /\ size[g] \in Nat /\ size[g] >= 1 /\ off[g] \in Nat
                           /\ size[g] >= Degree /\ size[g] <= 2 * Degree + 1
  BY <1>4, DegreeAssumption
<1>6. \A g \in 1 .. last : /\ p(g) \in Seq(Entry(N)) /\ Len(p(g)) = size[g] /\ Fan(p(g))
                           /\ \A i \in 1 .. size[g] : /\ off[g] + i \in 1 .. n
                                                      /\ p(g)[i].key = MinKey(ns[off[g] + i])
                                                      /\ p(g)[i].node = ns[off[g] + i]
  <2> SUFFICES ASSUME NEW g \in 1 .. last
               PROVE  /\ p(g) \in Seq(Entry(N)) /\ Len(p(g)) = size[g] /\ Fan(p(g))
                      /\ \A i \in 1 .. size[g] : /\ off[g] + i \in 1 .. n
                                                 /\ p(g)[i].key = MinKey(ns[off[g] + i])
                                                 /\ p(g)[i].node = ns[off[g] + i]
    OBVIOUS
  <2> DEFINE a == off[g]
             s == size[g]
  <2>1. a \in Nat /\ s \in Nat /\ a + s <= Len(ns)
    BY <1>1, <1>4, <1>5
  <2> HIDE DEF a, s
  <2>2. IsPiece(N, ns, a, s, Piece(ns, a, s))
    BY <1>1, <2>1, PieceIs
  <2>3. IsPiece(N, ns, off[g], size[g], p(g))
    BY <2>2 DEF a, s
  <2> HIDE DEF p
  <2> QED BY <1>1, <2>3 DEF IsPiece
<1> HIDE DEF p
<1>7. ASSUME NEW g \in 1 .. last
      PROVE  /\ Inner(p(g)) \in Grown(N) /\ Bottom(Inner(p(g))) = Under(p(g))
             /\ MinKey(Inner(p(g))) = MinKey(ns[off[g] + 1])
             /\ \A k \in KeysOf(Inner(p(g))) : \E i \in 1 .. size[g] : k \in KeysOf(ns[off[g] + i])
  <2> DEFINE zs == p(g)
  <2>1. /\ zs \in Seq(Entry(N)) /\ Fan(zs) /\ Len(zs) = size[g] /\ 1 \in 1 .. size[g]
        /\ \A i \in 1 .. size[g] : zs[i].key = MinKey(ns[off[g] + i]) /\ zs[i].node = ns[off[g] + i]
    BY <1>5, <1>6
  <2> HIDE DEF zs
  <2>2. zs # <<>>
    BY <1>5, <2>1, EmptySeq
  <2>3. /\ Inner(zs) \in Fans(N) /\ Inner(zs).es = zs /\ ~Inner(zs).leaf
        /\ Bottom(Inner(zs)) = Under(zs) /\ MinKey(Inner(zs)) = zs[1].key
        /\ \A k \in KeysOf(Inner(zs)) : \E z \in Elems(zs) : k \in KeysOf(z.node)
    BY <2>1, <2>2, FansIntro
  <2>4. Sized(zs)
    <3>1. Len(zs) \in Degree .. 2 * Degree + 1
      BY <1>4, <2>1
    <3> QED BY <3>1 DEF Sized
  <2>5. Inner(zs) \in Grown(N)
    BY <2>3, <2>4 DEF Grown
  <2>6. ASSUME NEW k \in KeysOf(Inner(zs)) PROVE \E i \in 1 .. size[g] : k \in KeysOf(ns[off[g] + i])
    <3>1. PICK z \in Elems(zs) : k \in KeysOf(z.node)
      BY <2>3
    <3>2. PICK i \in 1 .. size[g] : z = zs[i]
      BY <2>1 DEF Elems
    <3> QED BY <2>1, <3>1, <3>2
  <2> QED BY <2>1, <2>3, <2>5, <2>6 DEF zs
<1>8. ps \in Seq(Grown(N)) /\ Len(ps) = last /\ \A g \in 1 .. last : ps[g] = Inner(p(g))
  <2>1. ps \in [1 .. last -> Grown(N)] /\ \A g \in 1 .. last : ps[g] = Inner(p(g))
    BY <1>2, <1>7
  <2> QED BY <1>4, <2>1, RowIs
<1>9. ASSUME NEW g \in 1 .. last, NEW h \in 1 .. last, g < h PROVE Ahead(ps[g], ps[h])
  <2> SUFFICES ASSUME NEW k \in KeysOf(Inner(p(g))) PROVE k < MinKey(Inner(p(h)))
    BY <1>8 DEF Ahead
  <2>1. PICK i \in 1 .. size[g] : k \in KeysOf(ns[off[g] + i])
    BY <1>7
  <2>2. off[g] + i \in 1 .. n /\ off[h] + 1 \in 1 .. n /\ 1 \in 1 .. size[h]
    BY <1>5, <1>6
  <2>3. off[g] + size[g] <= off[h] /\ off[g] \in Nat /\ off[h] \in Nat /\ size[g] \in Nat
    BY <1>4, <1>5, <1>9
  <2>4. off[g] + i < off[h] + 1
    BY <2>3
  <2>5. Ahead(ns[off[g] + i], ns[off[h] + 1])
    BY <1>1, <2>2, <2>4 DEF Rises
  <2> QED BY <1>7, <2>1, <2>5 DEF Ahead
<1>10. Rises(ps)
  BY <1>8, <1>9 DEF Rises
<1>11. ASSUME NEW x PROVE x \in Beneath(ps) <=> x \in Beneath(ns)
  <2>1. x \in Beneath(ps) <=> \E g \in 1 .. last : x \in Under(p(g))
    <3>1. x \in Beneath(ps) <=> \E g \in 1 .. last : x \in Bottom(ps[g])
      BY <1>8 DEF Beneath, Elems
    <3> QED BY <1>7, <1>8, <3>1
  <2>2. \A g \in 1 .. last : x \in Under(p(g)) <=> \E i \in 1 .. size[g] : x \in Bottom(ns[off[g] + i])
    <3> SUFFICES ASSUME NEW g \in 1 .. last
                 PROVE  x \in Under(p(g)) <=> \E i \in 1 .. size[g] : x \in Bottom(ns[off[g] + i])
      OBVIOUS
    <3>1. x \in Under(p(g)) <=> \E i \in 1 .. size[g] : x \in Bottom(p(g)[i].node)
      BY <1>6 DEF Under, Elems
    <3> QED BY <1>6, <3>1
  <2>3. x \in Beneath(ns) <=> \E j \in 1 .. n : x \in Bottom(ns[j])
    BY <1>1 DEF Beneath, Elems
  <2>4. ASSUME NEW j \in 1 .. n, x \in Bottom(ns[j])
        PROVE  \E g \in 1 .. last : \E i \in 1 .. size[g] : x \in Bottom(ns[off[g] + i])
    BY <1>4, <2>4
  <2>5. \A g \in 1 .. last : \A i \in 1 .. size[g] : off[g] + i \in 1 .. n
    BY <1>6
  <2> QED BY <2>1, <2>2, <2>3, <2>4, <2>5
<1>12. Beneath(ps) = E
  BY <1>1, <1>11
<1>13. IsRow(Grown(N), ps, E)
  BY <1>8, <1>10, <1>12 DEF IsRow
<1> QED BY <1>1, <1>4, <1>8, <1>13 DEF ps

\* A level bulkLoading has built, and the last one.
Going(x, E) == \E j \in Nat : IsRow(Good[j], x, E) /\ x # <<>> /\ (j # 0 => Len(x) >= 2)
Done(x, E)  == \E t : x = <<t>> /\ IsTree(t) /\ Bottom(t) = E

LEMMA StageIs ==
  ASSUME NEW x, NEW E
  PROVE  /\ Going(x, E) => ~IsSingle(x) /\ Len(x) \in Nat /\ Len(x) >= 1
         /\ Done(x, E) => IsSingle(x) /\ IsTree(x[1]) /\ Bottom(x[1]) = E
<1>1. ASSUME Going(x, E) PROVE ~IsSingle(x) /\ Len(x) \in Nat /\ Len(x) >= 1
  <2>1. PICK j \in Nat : IsRow(Good[j], x, E) /\ x # <<>> /\ (j # 0 => Len(x) >= 2)
    BY <1>1 DEF Going
  <2>2. x \in Seq(Good[j]) /\ Len(x) \in Nat
    BY <2>1, LenProperties DEF IsRow
  <2>3. Len(x) >= 1
    BY <2>1, <2>2, EmptySeq
  <2>4. ASSUME Len(x) = 1 PROVE x[1].leaf
    <3>1. j = 0 /\ 1 \in 1 .. Len(x)
      BY <2>1, <2>4
    <3>2. x[1] \in Good[j]
      BY <2>2, <3>1, ElementOfSeq
    <3> QED BY <3>1, <3>2, GoodNodes
  <2> QED BY <2>2, <2>3, <2>4 DEF IsSingle
<1>2. ASSUME Done(x, E) PROVE IsSingle(x) /\ IsTree(x[1]) /\ Bottom(x[1]) = E
  <2>1. PICK t : x = <<t>> /\ IsTree(t) /\ Bottom(t) = E
    BY <1>2 DEF Done
  <2>2. Len(x) = 1 /\ x[1] = t
    BY <2>1
  <2>3. ~t.leaf
    <3>1. \A zs : ~Inner(zs).leaf
      BY DEF Inner
    <3> QED BY <2>1, <3>1 DEF IsTree
  <2> QED BY <2>1, <2>2, <2>3 DEF IsSingle
<1> QED BY <1>1, <1>2

LEMMA NextStage ==
  ASSUME NEW x, NEW E, Going(x, E)
  PROVE  Done(Parents(x), E) \/ (Going(Parents(x), E) /\ Len(Parents(x)) < Len(x))
<1>1. PICK j \in Nat : IsRow(Good[j], x, E) /\ x # <<>> /\ (j # 0 => Len(x) >= 2)
  BY DEF Going
<1>2. Layer(Good[j]) /\ Good[j + 1] = Grown(Good[j]) /\ j + 1 \in Nat
  BY GoodLayer, GoodIs
<1>3. Len(x) \in Nat /\ Degree \in Nat /\ Degree >= 1
  BY <1>1, LenProperties, DegreeAssumption DEF IsRow
<1>4. CASE Len(x) < 2 * Degree + 1
  <2> DEFINE p == Piece(x, 0, Len(x))
  <2>1. /\ Parents(x) = <<Inner(p)>>
        /\ p \in Seq(Entry(Good[j])) /\ Fan(p) /\ Len(p) = Len(x) /\ Under(p) = E
    BY <1>1, <1>2, <1>4, OneParent
  <2> HIDE DEF p
  <2>2. IsRoot(p, j)
    BY <1>1, <1>3, <1>4, <2>1 DEF IsRoot
  <2>3. Bottom(Inner(p)) = E
    BY <2>1, <2>2, RootHolds
  <2>4. IsTree(Inner(p))
    BY <2>2 DEF IsTree
  <2> QED BY <2>1, <2>3, <2>4 DEF Done
<1>5. CASE Len(x) >= 2 * Degree + 1
  <2> DEFINE ps == Parents(x)
  <2>1. IsRow(Grown(Good[j]), ps, E) /\ Len(ps) >= 2 /\ Len(ps) < Len(x)
    BY <1>1, <1>2, <1>5, ManyParents
  <2> HIDE DEF ps
  <2>2. ps # <<>>
    <3>1. Len(<<>>) = 0 /\ ~(0 >= 2)
      OBVIOUS
    <3> QED BY <2>1, <3>1
  <2>3. Going(ps, E)
    BY <1>2, <2>1, <2>2 DEF Going
  <2> QED BY <2>1, <2>3 DEF ps
<1> QED BY <1>3, <1>4, <1>5

\* The levels are built, and the last of them has one node.
Levelled(x) == IF IsSingle(x) THEN x ELSE Parents(x)

LEMMA LevelsBuilt ==
  ASSUME NEW x, NEW E, Going(x, E)
  PROVE  \E level :
           /\ level = [d \in Nat |-> IF d = 0 THEN x ELSE Levelled(level[d - 1])]
           /\ \A d \in Nat : Done(level[d], E) \/ Going(level[d], E)
           /\ \A d \in Nat : d >= Len(x) => Done(level[d], E)
<1> DEFINE A == UNION {Good[j] : j \in Nat}
           B == UNION {{Inner(es) : es \in Seq(Entry(Good[j]))} : j \in Nat}
           W == Seq(A \cup B)
           V == {y \in W : Done(y, E) \/ Going(y, E)}
           G == [y \in V |-> Levelled(y)]
<1>1. ASSUME NEW y, Done(y, E) \/ Going(y, E) PROVE y \in V
  <2> SUFFICES y \in W
    BY <1>1
  <2>1. CASE Done(y, E)
    <3>1. PICK t : y = <<t>> /\ IsTree(t)
      BY <2>1 DEF Done
    <3>2. t \in B
      BY <3>1 DEF IsTree, IsRoot
    <3> HIDE DEF A, B
    <3> QED BY <3>1, <3>2
  <2>2. CASE Going(y, E)
    <3>1. PICK j \in Nat : y \in Seq(Good[j])
      BY <2>2 DEF Going, IsRow
    <3>2. Elems(y) \subseteq A \cup B
      <4>1. Elems(y) \subseteq Good[j]
        BY <3>1, ElemsOf
      <4> QED BY <4>1
    <3> HIDE DEF A, B
    <3> QED BY <3>1, <3>2, SeqOver
  <2> QED BY <1>1, <2>1, <2>2
<1>2. ASSUME NEW y \in V PROVE Levelled(y) \in V
  <2>1. CASE Done(y, E)
    <3>1. Levelled(y) = y
      BY <2>1, StageIs DEF Levelled
    <3> QED BY <3>1
  <2>2. CASE Going(y, E)
    <3>1. Levelled(y) = Parents(y)
      BY <2>2, StageIs DEF Levelled
    <3>2. Done(Parents(y), E) \/ Going(Parents(y), E)
      BY <2>2, NextStage
    <3> HIDE DEF V
    <3> QED BY <1>1, <3>1, <3>2
  <2> QED BY <2>1, <2>2
<1>3. x \in V
  BY <1>1
<1>4. \A y \in V : Done(y, E) \/ Going(y, E)
  OBVIOUS
<1> HIDE DEF V
<1>5. G \in [V -> V]
  BY <1>2
<1>6. PICK f \in [Nat -> V] : Iterates(f, x, G)
  <2> HIDE DEF G
  <2> QED BY <1>3, <1>5, Iterate
<1>7. \A d \in Nat : f[d] \in V /\ G[f[d]] = Levelled(f[d])
  BY <1>6
<1>8. f = [d \in Nat |-> IF d = 0 THEN x ELSE Levelled(f[d - 1])]
  <2>1. \A d \in Nat : d # 0 => G[f[d - 1]] = Levelled(f[d - 1])
    <3> SUFFICES ASSUME NEW d \in Nat, d # 0 PROVE G[f[d - 1]] = Levelled(f[d - 1])
      OBVIOUS
    <3>1. d - 1 \in Nat
      OBVIOUS
    <3> HIDE DEF G
    <3> QED BY <1>7, <3>1
  <2> HIDE DEF G
  <2> QED BY <1>6, <2>1 DEF Iterates
<1>9. \A d \in Nat : Done(f[d], E) \/ Going(f[d], E)
  BY <1>4, <1>7
<1>10. f[0] = x /\ \A d \in Nat : f[d + 1] = Levelled(f[d])
  <2> HIDE DEF G
  <2>1. Goes(f, x, G)
    BY <1>6, Steps
  <2> QED BY <1>7, <2>1 DEF Goes
<1> DEFINE L == Len(x)
           S == {d \in Nat : Done(f[d], E) \/ (Going(f[d], E) /\ Len(f[d]) + d <= L)}
<1>11. L \in Nat /\ L + 0 <= L
  BY StageIs
<1>12. 0 \in S
  BY <1>10, <1>11
<1>13. ASSUME NEW d \in Nat, d \in S PROVE d + 1 \in S
  <2>1. f[d + 1] = Levelled(f[d])
    BY <1>10
  <2>2. CASE Done(f[d], E)
    <3>1. Levelled(f[d]) = f[d]
      BY <2>2, StageIs DEF Levelled
    <3> QED BY <2>1, <2>2, <3>1
  <2>3. CASE Going(f[d], E) /\ Len(f[d]) + d <= L
    <3>1. Levelled(f[d]) = Parents(f[d]) /\ Len(f[d]) \in Nat
      BY <2>3, StageIs DEF Levelled
    <3>2. Done(f[d + 1], E) \/ (Going(f[d + 1], E) /\ Len(f[d + 1]) < Len(f[d]))
      BY <2>1, <2>3, <3>1, NextStage
    <3>3. Going(f[d + 1], E) => Len(f[d + 1]) \in Nat
      BY StageIs
    <3> DEFINE m == Len(f[d])
               n == Len(f[d + 1])
    <3>4. m \in Nat /\ m + d <= L /\ (Going(f[d + 1], E) => n \in Nat) /\ d + 1 \in Nat
      BY <2>3, <3>1, <3>3
    <3>5. Done(f[d + 1], E) \/ (Going(f[d + 1], E) /\ n < m)
      BY <3>2
    <3> HIDE DEF m, n, L
    <3>6. n \in Nat /\ n < m => n + (d + 1) <= L
      BY <1>11, <3>4
    <3>7. Done(f[d + 1], E) \/ (Going(f[d + 1], E) /\ n + (d + 1) <= L)
      BY <3>4, <3>5, <3>6
    <3> QED BY <3>4, <3>7 DEF n
  <2> QED BY <1>13, <2>2, <2>3
<1> HIDE DEF S
<1>14. \A d \in Nat : d \in S
  BY <1>12, <1>13, Induct
<1>15. ASSUME NEW d \in Nat, d >= L PROVE Done(f[d], E)
  <2> SUFFICES ASSUME Going(f[d], E), Len(f[d]) + d <= L PROVE FALSE
    BY <1>14 DEF S
  <2>1. Len(f[d]) \in Nat /\ Len(f[d]) >= 1
    BY StageIs
  <2> QED BY <1>11, <1>15, <2>1
<1> QED BY <1>8, <1>9, <1>15

LEMMA BuildUpIs ==
  ASSUME NEW x, NEW E, Going(x, E)
  PROVE  IsTree(BuildUp(x)) /\ Bottom(BuildUp(x)) = E
<1> DEFINE level == CHOOSE f : f = [d \in Nat |-> IF d = 0 THEN x ELSE
                                     IF IsSingle(f[d - 1]) THEN f[d - 1] ELSE Parents(f[d - 1])]
           top == CHOOSE g : g = [d \in Nat |-> IF IsSingle(level[d]) THEN level[d][1] ELSE g[d + 1]]
           L == Len(x)
<1>1. BuildUp(x) = top[0]
  BY DEF BuildUp
<1>2. /\ \A d \in Nat : Done(level[d], E) \/ Going(level[d], E)
      /\ \A d \in Nat : d >= L => Done(level[d], E)
      /\ L \in Nat
  <2>0. L \in Nat
    BY StageIs
  <2> DEFINE Is(f) == f = [d \in Nat |-> IF d = 0 THEN x ELSE Levelled(f[d - 1])]
  <2>1. PICK f : /\ Is(f)
                 /\ \A d \in Nat : Done(f[d], E) \/ Going(f[d], E)
                 /\ \A d \in Nat : d >= Len(x) => Done(f[d], E)
    BY LevelsBuilt
  <2>2. level = CHOOSE g : Is(g)
    BY DEF Levelled
  <2>3. Is(level)
    <3> HIDE DEF Is, level
    <3> QED BY <2>1, <2>2
  <2> HIDE DEF level
  <2>4. f[0] = level[0] /\ \A d \in Nat : d # 0 => f[d] = Levelled(f[d - 1]) /\ level[d] = Levelled(level[d - 1])
    BY <2>1, <2>3
  <2> DEFINE S == {d \in Nat : f[d] = level[d]}
  <2>5. 0 \in S
    BY <2>4
  <2>6. ASSUME NEW d \in Nat, d \in S PROVE d + 1 \in S
    <3>1. d + 1 \in Nat /\ d + 1 # 0 /\ (d + 1) - 1 = d
      OBVIOUS
    <3>2. f[d + 1] = Levelled(f[d]) /\ level[d + 1] = Levelled(level[d])
      <4> HIDE DEF Is
      <4> QED BY <2>4, <3>1
    <3> QED BY <2>6, <3>2
  <2> HIDE DEF S, Is
  <2>7. \A d \in Nat : d \in S
    BY <2>5, <2>6, Induct
  <2>8. \A d \in Nat : f[d] = level[d]
    BY <2>7 DEF S
  <2> QED BY <2>0, <2>1, <2>8
<1> HIDE DEF level, L
<1>3. \A d \in Nat : \A y : Turn("top", level, d, y, 0, 0) = IF IsSingle(level[d]) THEN level[d][1] ELSE y
  BY DEF Turn
<1>4. PICK g : Returned("top", level, 0, 0, g)
  <2>1. Ends("top", level, 0, 0, L)
    <3>1. \A d \in Nat : d >= L => IsSingle(level[d])
      BY <1>2, StageIs
    <3> QED BY <1>3, <3>1 DEF Ends
  <2> QED BY <1>2, <2>1, Calls
<1>5. g = [d \in Nat |-> IF IsSingle(level[d]) THEN level[d][1] ELSE g[d + 1]]
  BY <1>3, <1>4 DEF Returned
<1>6. top = [d \in Nat |-> IF IsSingle(level[d]) THEN level[d][1] ELSE top[d + 1]]
  BY <1>5
<1> HIDE DEF top
<1>7. \A d \in Nat : top[d] = IF IsSingle(level[d]) THEN level[d][1] ELSE top[d + 1]
  BY <1>6
<1> DEFINE S == {d \in Nat : IsTree(top[d]) /\ Bottom(top[d]) = E}
<1>8. \A d \in Nat : IsSingle(level[d]) => d \in S
  <2> SUFFICES ASSUME NEW d \in Nat, IsSingle(level[d]) PROVE IsTree(top[d]) /\ Bottom(top[d]) = E
    OBVIOUS
  <2>1. Done(level[d], E)
    BY <1>2, StageIs
  <2>2. IsTree(level[d][1]) /\ Bottom(level[d][1]) = E
    BY <2>1, StageIs
  <2> QED BY <1>7, <2>2
<1>9. L \in S
  <2>1. IsSingle(level[L])
    BY <1>2, StageIs
  <2> QED BY <1>2, <1>8, <2>1
<1>10. ASSUME NEW d \in Nat, d < L, d + 1 \in S PROVE d \in S
  <2>1. CASE IsSingle(level[d])
    BY <1>8, <2>1
  <2>2. CASE ~IsSingle(level[d])
    BY <1>7, <1>10, <2>2
  <2> QED BY <2>1, <2>2
<1> HIDE DEF S
<1>11. 0 \in S
  BY <1>2, <1>9, <1>10, Descend
<1> QED BY <1>1, <1>11 DEF S

\* bulkLoading makes a well-formed tree of the leaves of a chain in order, and has
\* no others below it.
THEOREM BulkLoadIs ==
  ASSUME NEW c, NEW E, IsRow(Filled, c, E)
  PROVE  IsTree(BulkLoad(c)) /\ Bottom(BulkLoad(c)) = E
<1>1. CASE c = <<>>
  <2>1. E = {}
    BY <1>1 DEF IsRow, Beneath, Elems
  <2>2. <<>> \in Seq(Entry(Good[0])) /\ Len(<<>>) = 0 /\ 1 .. 0 = {}
    OBVIOUS
  <2>3. IsRoot(<<>>, 0)
    BY <2>2, DegreeAssumption DEF IsRoot, Fan
  <2>4. BulkLoad(c) = Inner(<<>>)
    BY <1>1 DEF BulkLoad
  <2>5. IsTree(Inner(<<>>))
    BY <2>3 DEF IsTree
  <2> QED BY <2>1, <2>4, <2>5, EmptyRoot
<1>2. CASE c # <<>>
  <2>1. Going(c, E)
    BY <1>2, GoodIs DEF Going
  <2>2. BulkLoad(c) = BuildUp(c)
    BY <1>2 DEF BulkLoad
  <2> QED BY <2>1, <2>2, BuildUpIs
<1> QED BY <1>1, <1>2

\* A chain is such a row.
LEMMA ChainIs ==
  ASSUME NEW c, IsChain(c)
  PROVE  IsRow(Filled, c, Beneath(c))
<1>1. /\ c \in Seq(ToSet(c)) /\ \A l \in ToSet(c) : l = Leaf(l.kv) /\ IsFilled(l.kv)
      /\ \A i, j \in 1 .. Len(c) : i < j => \A x \in DOMAIN c[i].kv, y \in DOMAIN c[j].kv : x < y
  BY DEF IsChain
<1>2. ToSet(c) \subseteq Filled
  <2> SUFFICES ASSUME NEW l \in ToSet(c) PROVE l \in Filled
    OBVIOUS
  <2>1. Leaf(l.kv) \in Filled /\ Leaf(l.kv).kv = l.kv /\ Leaf(l.kv).leaf
    BY <1>1, FilledIs
  <2> QED BY <1>1, <2>1
<1>3. Elems(c) \subseteq Filled
  <2>1. Elems(c) \subseteq ToSet(c)
    BY <1>1, ElemsOf
  <2> QED BY <1>2, <2>1
<1>4. c \in Seq(Filled)
  BY <1>1, <1>3, SeqOver
<1>5. ASSUME NEW n \in Filled PROVE KeysOf(n) = DOMAIN n.kv /\ MinKey(n) \in DOMAIN n.kv
  <2>1. KeysOf(n) = DOMAIN n.kv /\ Sound(n)
    BY LeafHolds
  <2>2. n.leaf /\ DOMAIN n.kv # {} /\ DOMAIN n.kv \subseteq Nat
    <3>1. n \in Good[0]
      BY GoodIs
    <3>2. n.leaf
      BY <3>1, GoodNodes
    <3>3. Keys \subseteq Nat
      BY TreeAssumption DEF TreeAssumption
    <3> QED BY <2>1, <3>2, <3>3 DEF Sound
  <2> DEFINE D == DOMAIN n.kv
  <2>3. \E k \in D : \A j \in D : k <= j
    BY <2>2, MinIsLeast
  <2>4. MinKey(n) = CHOOSE k \in D : \A j \in D : k <= j
    BY <2>2 DEF MinKey
  <2> HIDE DEF D
  <2>5. MinKey(n) \in D
    BY <2>3, <2>4
  <2> QED BY <2>1, <2>5 DEF D
<1>6. ASSUME NEW i \in 1 .. Len(c), NEW j \in 1 .. Len(c), i < j PROVE Ahead(c[i], c[j])
  <2>1. c[i] \in Filled /\ c[j] \in Filled
    BY <1>4, ElementOfSeq
  <2> QED BY <1>1, <1>5, <1>6, <2>1 DEF Ahead
<1> QED BY <1>4, <1>6 DEF IsRow, Rises
-----------------------------------------------------------------------------
\* The nodes of a well-formed tree.
IsInner(n) == \E j \in Nat : n.es \in Seq(Entry(Good[j])) /\ Fan(n.es)

LEMMA NodesOf ==
  ASSUME NEW t, IsTree(t)
  PROVE  /\ ~t.leaf /\ Len(t.es) <= 3 * Degree + 1
         /\ \A n \in InnersOf(t) : IsInner(n) /\ (n # t => Sized(n.es))
         /\ Bottom(t) \subseteq Filled
<1>1. PICK h \in Nat : \E zs : t = Inner(zs) /\ IsRoot(zs, h)
  BY DEF IsTree
<1>2. PICK es : t = Inner(es) /\ IsRoot(es, h)
  BY <1>1
<1>3. t.es = es /\ ~t.leaf
  BY <1>2 DEF Inner
<1>4. IsInner(t) /\ Len(t.es) <= 3 * Degree + 1
  BY <1>2, <1>3 DEF IsInner, IsRoot
<1>5. CASE es = <<>>
  <2>1. Levels(t)[0] = {t} /\ Height(t) = 1 /\ Bottom(t) = {}
    BY <1>2, <1>5, EmptyRoot
  <2>2. InnersOf(t) = {t}
    <3>1. 0 .. 1 - 1 = {0}
      OBVIOUS
    <3> QED BY <2>1, <3>1 DEF InnersOf
  <2> QED BY <1>3, <1>4, <2>1, <2>2
<1>6. CASE es # <<>>
  <2>1. es \in Seq(Entry(Good[h]))
    BY <1>2 DEF IsRoot
  <2>2. Height(t) = h + 1 /\ Tall(t, h + 1)
    BY <1>2, <1>6, <2>1, HoldsOver
  <2>3. /\ Levels(t)[0] = {t}
        /\ \A d \in 1 .. h + 1 : Levels(t)[d] \subseteq Good[(h + 1) - d]
    BY <2>2 DEF Tall
  <2>4. ASSUME NEW d \in 1 .. h, NEW n \in Levels(t)[d] PROVE IsInner(n) /\ Sized(n.es)
    <3> DEFINE j == (h + 1) - d
    <3>1. j \in Nat /\ j # 0 /\ d \in 1 .. h + 1
      BY <2>4
    <3>2. n \in Good[j]
      BY <2>3, <3>1
    <3> HIDE DEF j
    <3>3. /\ j - 1 \in Nat /\ n.es \in Seq(Entry(Good[j - 1])) /\ Fan(n.es) /\ Sized(n.es)
      BY <3>1, <3>2, GoodNodes
    <3> QED BY <3>3 DEF IsInner
  <2>5. ASSUME NEW n \in InnersOf(t) PROVE IsInner(n) /\ (n # t => Sized(n.es))
    <3>1. PICK d \in 0 .. (h + 1) - 1 : n \in Levels(t)[d]
      BY <2>2 DEF InnersOf
    <3>2. CASE d = 0
      BY <1>4, <2>3, <3>1, <3>2
    <3>3. CASE d # 0
      <4>1. d \in 1 .. h
        BY <3>3
      <4> QED BY <2>4, <3>1, <4>1
    <3> QED BY <3>2, <3>3
  <2>6. Bottom(t) \subseteq Filled
    <3>1. h + 1 \in 1 .. h + 1 /\ (h + 1) - (h + 1) = 0
      OBVIOUS
    <3>2. Levels(t)[h + 1] \subseteq Good[(h + 1) - (h + 1)]
      BY <2>3, <3>1
    <3>3. Good[0] = Filled
      BY GoodIs
    <3> QED BY <2>2, <3>1, <3>2, <3>3 DEF Bottom
  <2> QED BY <1>3, <1>4, <2>5, <2>6
<1> QED BY <1>5, <1>6

\* What the invariants of the runs say of one inner node.
LEMMA InnerBounds ==
  ASSUME NEW n, IsInner(n), NEW i \in 1 .. Len(n.es)
  PROVE  /\ n.es[i].key \in Keys
         /\ \A k \in KeysOf(n.es[i].node) : n.es[i].key <= k
         /\ i < Len(n.es) => /\ n.es[i].key < n.es[i + 1].key
                             /\ \A k \in KeysOf(n.es[i].node) : k < n.es[i + 1].key
<1> DEFINE es == n.es
           e == es[i]
           f == es[i + 1]
<1>1. PICK j \in Nat : es \in Seq(Entry(Good[j])) /\ Fan(es)
  BY DEF IsInner
<1>2. Layer(Good[j]) /\ Sounds(Good[j])
  BY GoodLayer DEF Layer, Sounds
<1> HIDE DEF es
<1>3. Len(es) \in Nat /\ i \in 1 .. Len(es)
  BY <1>1, LenProperties DEF es
<1>4. e \in Entry(Good[j]) /\ Own(e)
  BY <1>1, <1>3, ElementOfSeq DEF Fan, Own
<1>5. e.key \in Keys /\ e.key \in Nat /\ Sound(e.node)
  <2>1. e.key \in Keys /\ e.key \in Nat /\ e.node \in Good[j]
    BY <1>4, EntryIs
  <2> QED BY <1>2, <2>1 DEF Sounds
<1>6. ASSUME NEW k \in KeysOf(e.node) PROVE e.key <= k
  <2>1. Keys \subseteq Nat
    BY TreeAssumption DEF TreeAssumption
  <2>2. MinKey(e.node) <= k /\ k \in Nat /\ MinKey(e.node) \in Nat
    BY <1>5, <2>1 DEF Sound
  <2> QED BY <1>4, <1>5, <2>2 DEF Own
<1>7. ASSUME i < Len(es) PROVE e.key < f.key /\ \A k \in KeysOf(e.node) : k < f.key
  <2>1. i + 1 \in 1 .. Len(es) /\ i < i + 1
    BY <1>3, <1>7
  <2>2. f \in Entry(Good[j]) /\ Before(e, f)
    BY <1>1, <1>3, <2>1, ElementOfSeq DEF Fan
  <2>3. e.key < f.key /\ MinKey(e.node) < f.key
    <3> HIDE DEF e, f
    <3> QED BY <1>2, <1>4, <2>2, BeforeLess
  <2> QED BY <2>2, <2>3 DEF Before
<1> QED BY <1>5, <1>6, <1>7 DEF es
-----------------------------------------------------------------------------
\* The inductive invariant: the tree is well-formed, and ret is what an operation
\* returns.
RetTyped ==
  /\ ret.op \in {"open", "insert", "remove", "update", "find"}
  /\ ret.key \in Keys \cup {NoValue}
  /\ \/ ret.op \in {"open", "insert"} /\ ret.out = NoValue
     \/ ret.op \in {"remove", "update"} /\ ret.out \in BOOLEAN
     \/ ret.op = "find" /\ ret.out \in Values \cup {NoValue}

WellFormed == IsTree(root) /\ RetTyped

LEMMA RetIs ==
  ASSUME NEW op, NEW k, NEW out
  PROVE  Ret(op, k, out).op = op /\ Ret(op, k, out).key = k /\ Ret(op, k, out).out = out
BY DEF Ret

\* A tree holds at most one value for a key.
IsMap(E) == E \subseteq Keys \X Values /\ \A x, y \in E : x[1] = y[1] => x = y

LEMMA EntriesOf ==
  ASSUME NEW t, IsTree(t)
  PROVE  IsMap(Entries(t))
<1>1. PICK h \in Nat : \E zs : t = Inner(zs) /\ IsRoot(zs, h)
  BY DEF IsTree
<1>2. PICK es : t = Inner(es) /\ IsRoot(es, h)
  BY <1>1
<1>3. CASE es = <<>>
  <2>1. Entries(t) = {}
    BY <1>2, <1>3, EmptyRoot
  <2> QED BY <2>1 DEF IsMap
<1>4. CASE es # <<>>
  <2>1. es \in Seq(Entry(Good[h])) /\ Fan(es) /\ Layer(Good[h])
    BY <1>2, RootHolds DEF IsRoot
  <2>2. t \in Fans(Good[h])
    BY <1>2, <1>4, <2>1 DEF Fans
  <2>3. Sound(t)
    BY <2>1, <2>2, FansSound
  <2> QED BY <2>3 DEF Sound, IsMap
<1> QED BY <1>3, <1>4

\* What find returns.
LEMMA FoundIs ==
  ASSUME NEW t, IsTree(t), NEW k \in Keys
  PROVE  FindKey(t, k) \in Values \cup {NoValue}
<1> DEFINE x == FindKey(t, k)
           E == Entries(t)
<1>1. Found(E, k, x) /\ IsMap(E)
  BY FindIs, EntriesOf
<1> HIDE DEF x, E
<1>2. CASE \E y \in E : y[1] = k
  <2>1. PICK y \in E : y[1] = k
    BY <1>2
  <2>2. x = y[2] /\ y \in Keys \X Values
    BY <1>1, <2>1 DEF Found, IsMap
  <2> QED BY <2>2 DEF x
<1>3. CASE ~\E y \in E : y[1] = k
  BY <1>1, <1>3 DEF Found, x
<1> QED BY <1>2, <1>3

\* The operations keep the tree well-formed.
THEOREM WellFormedInvariant ==
  ASSUME Degree >= 2
  PROVE  Spec => []WellFormed
<1>1. Init => WellFormed
  <2> SUFFICES ASSUME Init PROVE WellFormed
    OBVIOUS
  <2>1. PICK c \in Chains : root = BulkLoad(c)
    BY DEF Init
  <2>2. IsChain(c)
    BY TreeAssumption DEF TreeAssumption
  <2>3. IsTree(root)
    BY <2>1, <2>2, ChainIs, BulkLoadIs
  <2>4. RetTyped
    <3>1. ret = Ret("open", NoValue, NoValue)
      BY DEF Init
    <3> QED BY <3>1, RetIs DEF RetTyped
  <2> QED BY <2>3, <2>4 DEF WellFormed
<1>2. WellFormed /\ [Next]_treeVars => WellFormed'
  <2> SUFFICES ASSUME WellFormed, [Next]_treeVars PROVE WellFormed'
    OBVIOUS
  <2>1. IsTree(root) /\ RetTyped
    BY DEF WellFormed
  <2>2. OpKeys \subseteq Keys /\ OpValues \subseteq Values
    BY TreeAssumption DEF TreeAssumption
  <2>3. ASSUME NEW k \in OpKeys, NEW v \in OpValues, InsertEntry(k, v) PROVE WellFormed'
    <3>1. root' = InsertKey(root, k, v) /\ ret' = Ret("insert", k, NoValue) /\ k \in Keys /\ v \in Values
      BY <2>2, <2>3 DEF InsertEntry
    <3>2. IsTree(root')
      BY <2>1, <3>1, InsertKeyIs
    <3>3. RetTyped'
      BY <3>1, RetIs DEF RetTyped
    <3> QED BY <3>2, <3>3 DEF WellFormed
  <2>4. ASSUME NEW k \in OpKeys, NEW v \in OpValues, UpdateEntry(k, v) PROVE WellFormed'
    <3> DEFINE r == UpdateKey(root, k, v)
    <3>1. root' = r.node /\ ret' = Ret("update", k, r.found) /\ k \in Keys /\ v \in Values
      BY <2>2, <2>4 DEF UpdateEntry
    <3>2. UpdatedIn(root, k, v, r)
      BY <2>1, <3>1, UpdateIs
    <3> HIDE DEF r
    <3>3. IsTree(root') /\ r.found \in BOOLEAN
      BY <3>1, <3>2 DEF UpdatedIn
    <3>4. RetTyped'
      BY <3>1, <3>3, RetIs DEF RetTyped
    <3> QED BY <3>3, <3>4 DEF WellFormed
  <2>5. ASSUME NEW k \in OpKeys, RemoveEntry(k) PROVE WellFormed'
    <3> DEFINE r == RemoveKey(root, k)
    <3>1. root' = r.t /\ ret' = Ret("remove", k, r.removed) /\ k \in Keys
      BY <2>2, <2>5 DEF RemoveEntry
    <3>2. RemovedFrom(root, k, r)
      BY <2>1, <3>1, RemoveKeyIs
    <3> HIDE DEF r
    <3>3. IsTree(root') /\ r.removed \in BOOLEAN
      BY <3>1, <3>2 DEF RemovedFrom
    <3>4. RetTyped'
      BY <3>1, <3>3, RetIs DEF RetTyped
    <3> QED BY <3>3, <3>4 DEF WellFormed
  <2>6. ASSUME NEW k \in OpKeys, FindEntry(k) PROVE WellFormed'
    <3> DEFINE x == FindKey(root, k)
    <3>1. root' = root /\ ret' = Ret("find", k, x) /\ k \in Keys
      BY <2>2, <2>6 DEF FindEntry
    <3>2. x \in Values \cup {NoValue}
      BY <2>1, <3>1, FoundIs
    <3> HIDE DEF x
    <3>3. RetTyped'
      BY <3>1, <3>2, RetIs DEF RetTyped
    <3> QED BY <2>1, <3>1, <3>3 DEF WellFormed
  <2>7. ASSUME Reopen PROVE WellFormed'
    <3>1. root' = BulkLoad(LeavesOf(root)) /\ ret' = Ret("open", NoValue, NoValue)
      BY <2>7 DEF Reopen
    <3>2. IsTree(root')
      BY <2>1, <3>1, LeavesOfIs, BulkLoadIs
    <3>3. RetTyped'
      BY <3>1, RetIs DEF RetTyped
    <3> QED BY <3>2, <3>3 DEF WellFormed
  <2>8. ASSUME UNCHANGED treeVars PROVE WellFormed'
    BY <2>1, <2>8 DEF WellFormed, treeVars, RetTyped
  <2> QED BY <2>3, <2>4, <2>5, <2>6, <2>7, <2>8 DEF Next
<1> QED BY <1>1, <1>2, PTL DEF Spec

\* The type invariant of the tree: an inner node over nodes of either kind.
THEOREM TreeTypeInvariant ==
  ASSUME Degree >= 2
  PROVE  Spec => []TreeTypeOK
<1>1. WellFormed => TreeTypeOK
  <2> SUFFICES ASSUME WellFormed PROVE TreeTypeOK
    OBVIOUS
  <2>1. /\ ~root.leaf /\ Bottom(root) \subseteq Filled
        /\ \A n \in InnersOf(root) : IsInner(n)
    BY NodesOf DEF WellFormed
  <2>2. ASSUME NEW n \in InnersOf(root), NEW e \in ToSet(n.es) PROVE e.key \in Keys
    <3>1. PICK j \in Nat : n.es \in Seq(Entry(Good[j]))
      BY <2>1 DEF IsInner
    <3>2. PICK i \in 1 .. Len(n.es) : e = n.es[i]
      <4> DEFINE es == n.es
      <4>1. es \in Seq(Entry(Good[j])) /\ e \in ToSet(es)
        BY <3>1
      <4> HIDE DEF es
      <4>2. ToSet(es) = Elems(es)
        BY <4>1, LenProperties DEF ToSet, Elems
      <4> QED BY <4>1, <4>2 DEF Elems, es
    <3> QED BY <2>1, <3>2, InnerBounds
  <2>3. ASSUME NEW l \in Bottom(root) PROVE DOMAIN l.kv \subseteq Keys /\ l.kv \in [DOMAIN l.kv -> Values]
    <3>1. IsFilled(l.kv)
      BY <2>1, LeafIs
    <3> QED BY <3>1 DEF IsFilled
  <2>4. HasType
    BY <2>2, <2>3 DEF HasType
  <2> QED BY <2>1, <2>4 DEF TreeTypeOK, WellFormed, RetTyped
<1> QED BY <1>1, WellFormedInvariant, PTL

\* The separators ascend, and bound the keys below their children, whatever has
\* been split, merged, redistributed or left stale.
THEOREM SeparatorsInvariant ==
  ASSUME Degree >= 2
  PROVE  Spec => []SeparatorsBound
<1>1. WellFormed => SeparatorsBound
  <2> SUFFICES ASSUME WellFormed PROVE SeparatorsBound
    OBVIOUS
  <2>1. \A n \in InnersOf(root) : IsInner(n)
    BY NodesOf DEF WellFormed
  <2> QED BY <2>1, InnerBounds DEF SeparatorsBound
<1> QED BY <1>1, WellFormedInvariant, PTL

\* Every leaf is at the same depth.
THEOREM BalancedInvariant ==
  ASSUME Degree >= 2
  PROVE  Spec => []Balanced
<1>1. WellFormed => Balanced
  <2> SUFFICES ASSUME WellFormed, NEW n \in Bottom(root) PROVE n.leaf
    BY DEF Balanced
  <2>1. n \in Filled
    BY NodesOf DEF WellFormed
  <2> QED BY <2>1, LeafIs
<1> QED BY <1>1, WellFormedInvariant, PTL

\* Leaves, and inner nodes below the root, have as many keys or children as they
\* should, and the root no more than three nodes' worth.
THEOREM OccupancyInvariant ==
  ASSUME Degree >= 2
  PROVE  Spec => []Occupancy
<1>1. WellFormed => Occupancy
  <2> SUFFICES ASSUME WellFormed PROVE Occupancy
    OBVIOUS
  <2>1. /\ ~root.leaf /\ Len(root.es) <= 3 * Degree + 1
        /\ \A n \in InnersOf(root) : IsInner(n) /\ (n # root => Sized(n.es))
        /\ Bottom(root) \subseteq Filled
    BY NodesOf DEF WellFormed
  <2>2. \A l \in Bottom(root) : IsFilled(l.kv)
    BY <2>1, LeafIs
  <2>3. \A l \in Bottom(root) : Cardinality(DOMAIN l.kv) \in 1 .. 2 * LeafDegree - 1
    BY <2>2 DEF IsFilled
  <2>4. \A n \in InnersOf(root) \ {root} : Len(n.es) \in Degree .. 2 * Degree + 1
    BY <2>1 DEF Sized
  <2> QED BY <2>1, <2>3, <2>4 DEF Occupancy
<1> QED BY <1>1, WellFormedInvariant, PTL
-----------------------------------------------------------------------------
\* The tree is the dictionary of KVStore.

LEMMA ContentsIs ==
  \A n : Contents(n) = MapOf(Entries(n))
<1> SUFFICES ASSUME NEW n PROVE Contents(n) = MapOf(Entries(n))
  OBVIOUS
<1> DEFINE S == {MapOf(E) : E \in {Entries(n)}}
<1>1. \A f : f \in S <=> f = MapOf(Entries(n))
  OBVIOUS
<1>2. Contents(n) = CHOOSE f \in S : TRUE
  BY DEF Contents
<1> HIDE DEF S
<1> QED BY <1>1, <1>2

\* The map of a set of pairs of a key and its value.
KeysIn(E) == {e[1] : e \in E}

Maps(f, E) == /\ f = [j \in KeysIn(E) |-> f[j]]
              /\ \A e \in E : f[e[1]] = e[2]

LEMMA MapIs ==
  ASSUME NEW E, IsMap(E)
  PROVE  Maps(MapOf(E), E) /\ MapOf(E) \in [KeysIn(E) -> Values] /\ KeysIn(E) \subseteq Keys
<1> DEFINE f == MapOf(E)
           R == {e[2] : e \in E}
           pick(k) == CHOOSE v \in R : <<k, v>> \in E
<1>1. f = [k \in KeysIn(E) |-> pick(k)]
  BY DEF MapOf, KeysIn
<1>2. E \subseteq Keys \X Values /\ \A x, y \in E : x[1] = y[1] => x = y
  BY DEF IsMap
<1>3. ASSUME NEW e \in E PROVE pick(e[1]) = e[2]
  <2>1. e = <<e[1], e[2]>> /\ e[2] \in R
    BY <1>2
  <2>2. pick(e[1]) \in R /\ <<e[1], pick(e[1])>> \in E
    <3> HIDE DEF R
    <3> QED BY <2>1
  <2> HIDE DEF pick
  <2>3. <<e[1], pick(e[1])>>[1] = e[1]
    OBVIOUS
  <2>4. <<e[1], pick(e[1])>> = e
    BY <1>2, <2>2, <2>3
  <2>5. <<e[1], pick(e[1])>>[2] = pick(e[1])
    OBVIOUS
  <2> QED BY <2>4, <2>5
<1> HIDE DEF f, pick
<1>4. \A e \in E : e[1] \in KeysIn(E) /\ f[e[1]] = e[2] /\ e[2] \in Values /\ e[1] \in Keys
  BY <1>1, <1>2, <1>3 DEF KeysIn
<1>5. f = [j \in KeysIn(E) |-> f[j]]
  BY <1>1
<1>6. ASSUME NEW j \in KeysIn(E) PROVE f[j] \in Values /\ j \in Keys
  <2>1. PICK e \in E : j = e[1]
    BY DEF KeysIn
  <2> QED BY <1>4, <2>1
<1>7. f \in [KeysIn(E) -> Values] /\ KeysIn(E) \subseteq Keys
  BY <1>5, <1>6
<1>8. Maps(f, E)
  BY <1>4, <1>5 DEF Maps
<1> QED BY <1>7, <1>8 DEF f

LEMMA MapsOnce ==
  ASSUME NEW E, NEW f, NEW g, Maps(f, E), Maps(g, E)
  PROVE  f = g
<1>1. \A j \in KeysIn(E) : f[j] = g[j]
  BY DEF Maps, KeysIn
<1>2. f = [j \in KeysIn(E) |-> f[j]] /\ g = [j \in KeysIn(E) |-> g[j]]
  BY DEF Maps
<1> QED BY <1>1, <1>2

LEMMA PutIs ==
  ASSUME NEW E, IsMap(E), NEW k \in Keys, NEW v \in Values
  PROVE  /\ IsMap(Put(E, k, v))
         /\ MapOf(Put(E, k, v)) = [j \in KeysIn(E) \cup {k} |-> IF j = k THEN v ELSE MapOf(E)[j]]
<1> DEFINE P == Put(E, k, v)
           f == MapOf(E)
           g == [j \in KeysIn(E) \cup {k} |-> IF j = k THEN v ELSE f[j]]
<1>1. E \subseteq Keys \X Values /\ \A x, y \in E : x[1] = y[1] => x = y
  BY DEF IsMap
<1>2. \A x : x \in P <=> (x \in E /\ x[1] # k) \/ x = <<k, v>>
  BY DEF Put
<1>3. <<k, v>>[1] = k /\ <<k, v>>[2] = v /\ <<k, v>> \in Keys \X Values
  OBVIOUS
<1> HIDE DEF P
<1>4. IsMap(P)
  <2>1. P \subseteq Keys \X Values
    BY <1>1, <1>2, <1>3
  <2>2. ASSUME NEW x \in P, NEW y \in P, x[1] = y[1] PROVE x = y
    <3>1. CASE x = <<k, v>>
      BY <1>2, <1>3, <2>2, <3>1
    <3>2. CASE x \in E /\ x[1] # k
      BY <1>1, <1>2, <1>3, <2>2, <3>2
    <3> QED BY <1>2, <3>1, <3>2
  <2> QED BY <2>1, <2>2 DEF IsMap
<1>5. Maps(f, E)
  BY MapIs
<1> HIDE DEF f
<1>6. \A j : j \in KeysIn(P) <=> j \in KeysIn(E) \cup {k}
  <2> SUFFICES ASSUME NEW j PROVE j \in KeysIn(P) <=> j \in KeysIn(E) \cup {k}
    OBVIOUS
  <2>1. CASE j = k
    <3>1. <<k, v>> \in P
      BY <1>2
    <3> QED BY <1>3, <2>1, <3>1 DEF KeysIn
  <2>2. CASE j # k
    <3>1. j \in KeysIn(P) <=> \E e \in P : j = e[1]
      BY DEF KeysIn
    <3>2. j \in KeysIn(E) <=> \E e \in E : j = e[1]
      BY DEF KeysIn
    <3> QED BY <1>2, <1>3, <2>2, <3>1, <3>2
  <2> QED BY <2>1, <2>2
<1>7. KeysIn(P) = KeysIn(E) \cup {k}
  BY <1>6
<1>8. ASSUME NEW e \in P PROVE g[e[1]] = e[2]
  <2>1. e[1] \in KeysIn(E) \cup {k}
    BY <1>7 DEF KeysIn
  <2>2. CASE e = <<k, v>>
    BY <1>3, <2>1, <2>2
  <2>3. CASE e \in E /\ e[1] # k
    <3>1. f[e[1]] = e[2]
      BY <1>5, <2>3 DEF Maps
    <3> QED BY <2>1, <2>3, <3>1
  <2> QED BY <1>2, <2>2, <2>3
<1>9. g = [j \in KeysIn(E) \cup {k} |-> g[j]]
  OBVIOUS
<1> HIDE DEF g
<1>10. Maps(g, P)
  BY <1>7, <1>8, <1>9 DEF Maps
<1>11. MapOf(P) = g
  BY <1>4, <1>10, MapIs, MapsOnce
<1> QED BY <1>4, <1>11 DEF P, g, f

LEMMA WithoutIs ==
  ASSUME NEW E, IsMap(E), NEW k
  PROVE  MapOf(Without(E, k)) = [j \in KeysIn(E) \ {k} |-> MapOf(E)[j]]
<1> DEFINE P == Without(E, k)
           f == MapOf(E)
           g == [j \in KeysIn(E) \ {k} |-> f[j]]
<1>1. \A x : x \in P <=> x \in E /\ x[1] # k
  BY DEF Without
<1> HIDE DEF P
<1>2. IsMap(P)
  BY <1>1 DEF IsMap
<1>3. Maps(f, E)
  BY MapIs
<1> HIDE DEF f
<1>4. KeysIn(P) = KeysIn(E) \ {k}
  BY <1>1 DEF KeysIn
<1>5. ASSUME NEW e \in P PROVE g[e[1]] = e[2]
  <2>1. e \in E /\ e[1] \in KeysIn(E) \ {k}
    BY <1>1, <1>4 DEF KeysIn
  <2>2. f[e[1]] = e[2]
    BY <1>3, <2>1 DEF Maps
  <2> QED BY <2>1, <2>2
<1>6. g = [j \in KeysIn(E) \ {k} |-> g[j]]
  OBVIOUS
<1> HIDE DEF g
<1>7. Maps(g, P)
  BY <1>4, <1>5, <1>6 DEF Maps
<1>8. MapOf(P) = g
  BY <1>2, <1>7, MapIs, MapsOnce
<1> QED BY <1>8 DEF P, g, f

\* Whether the key is there, and its value.
LEMMA KeyIn ==
  ASSUME NEW E, IsMap(E), NEW k
  PROVE  /\ DOMAIN MapOf(E) = KeysIn(E)
         /\ (\E y \in E : y[1] = k) <=> k \in KeysIn(E)
         /\ \A x : Found(E, k, x) => x = IF k \in KeysIn(E) THEN MapOf(E)[k] ELSE NoValue
<1> DEFINE f == MapOf(E)
<1>1. Maps(f, E)
  BY MapIs
<1> HIDE DEF f
<1>2. DOMAIN f = KeysIn(E)
  BY <1>1 DEF Maps
<1>3. (\E y \in E : y[1] = k) <=> k \in KeysIn(E)
  BY DEF KeysIn
<1>4. ASSUME NEW x, Found(E, k, x) PROVE x = IF k \in KeysIn(E) THEN f[k] ELSE NoValue
  <2>1. CASE k \in KeysIn(E)
    <3>1. PICK y \in E : y[1] = k
      BY <1>3, <2>1
    <3>2. x = y[2] /\ f[k] = y[2]
      <4>1. f[y[1]] = y[2]
        BY <1>1 DEF Maps
      <4>2. x = y[2]
        BY <1>4, <3>1 DEF Found
      <4> QED BY <3>1, <4>1, <4>2
    <3> QED BY <2>1, <3>2
  <2>2. CASE k \notin KeysIn(E)
    BY <1>3, <1>4, <2>2 DEF Found
  <2> QED BY <2>1, <2>2
<1> QED BY <1>2, <1>3, <1>4 DEF f

\* In a well-formed state every step does to the contents what KVStore says.
LEMMA TreeStepImplements ==
  ASSUME Degree >= 2, WellFormed, [Next]_treeVars
  PROVE  [KV!Next]_<<Contents(root), ret>>
<1> DEFINE E == Entries(root)
           f == Contents(root)
<1>1. /\ IsTree(root) /\ IsMap(E) /\ f = MapOf(E)
      /\ OpKeys \subseteq Keys /\ OpValues \subseteq Values
      /\ f' = MapOf(Entries(root'))
  <2>1. f = MapOf(E) /\ f' = MapOf(Entries(root'))
    BY ContentsIs
  <2> QED BY <2>1, EntriesOf, TreeAssumption DEF WellFormed, TreeAssumption
<1>2. \A k : /\ DOMAIN f = KeysIn(E) /\ ((\E y \in E : y[1] = k) <=> k \in DOMAIN f)
             /\ \A x : Found(E, k, x) => x = IF k \in DOMAIN f THEN f[k] ELSE NoValue
  <2> SUFFICES ASSUME NEW k
               PROVE  /\ DOMAIN f = KeysIn(E) /\ ((\E y \in E : y[1] = k) <=> k \in DOMAIN f)
                      /\ \A x : Found(E, k, x) => x = IF k \in DOMAIN f THEN f[k] ELSE NoValue
    OBVIOUS
  <2> HIDE DEF E, f
  <2>1. /\ DOMAIN MapOf(E) = KeysIn(E)
        /\ (\E y \in E : y[1] = k) <=> k \in KeysIn(E)
        /\ \A x : Found(E, k, x) => x = IF k \in KeysIn(E) THEN MapOf(E)[k] ELSE NoValue
    BY <1>1, KeyIn
  <2> QED BY <1>1, <2>1
<1>3. f = [j \in DOMAIN f |-> f[j]]
  <2> HIDE DEF E, f
  <2>1. Maps(f, E)
    BY <1>1, MapIs
  <2> QED BY <2>1 DEF Maps
\* What putting in a pair does.
<1>4. ASSUME NEW k \in Keys, NEW v \in Values, Entries(root') = Put(E, k, v)
      PROVE  f' = [j \in DOMAIN f \cup {k} |-> IF j = k THEN v ELSE f[j]]
  <2> HIDE DEF E
  <2>1. /\ IsMap(Put(E, k, v))
        /\ MapOf(Put(E, k, v)) = [j \in KeysIn(E) \cup {k} |-> IF j = k THEN v ELSE MapOf(E)[j]]
    BY <1>1, PutIs
  <2> HIDE DEF f
  <2> QED BY <1>1, <1>2, <1>4, <2>1
<1>5. ASSUME NEW k \in OpKeys, NEW v \in OpValues, InsertEntry(k, v) PROVE KV!Next
  <2>1. root' = InsertKey(root, k, v) /\ ret' = Ret("insert", k, NoValue) /\ k \in Keys /\ v \in Values
    BY <1>1, <1>5 DEF InsertEntry
  <2>2. Entries(root') = Put(E, k, v)
    BY <1>1, <2>1, InsertKeyIs
  <2>3. f' = KV!WithEntry(f, k, v)
    BY <1>4, <2>1, <2>2 DEF KV!WithEntry
  <2>4. KV!Insert(k, v)
    BY <2>1, <2>3 DEF KV!Insert, KV!Returns, Ret
  <2> QED BY <2>1, <2>4 DEF KV!Next
<1>6. ASSUME NEW k \in OpKeys, NEW v \in OpValues, UpdateEntry(k, v) PROVE KV!Next
  <2> DEFINE r == UpdateKey(root, k, v)
  <2>1. root' = r.node /\ ret' = Ret("update", k, r.found) /\ k \in Keys /\ v \in Values
    BY <1>1, <1>6 DEF UpdateEntry
  <2>2. UpdatedIn(root, k, v, r)
    BY <1>1, <2>1, UpdateIs
  <2> HIDE DEF r
  <2>3. /\ r.found \in BOOLEAN /\ (r.found <=> k \in DOMAIN f)
        /\ Entries(root') = IF r.found THEN Put(E, k, v) ELSE E
    BY <1>2, <2>1, <2>2 DEF UpdatedIn
  <2>4. r.found => f' = [f EXCEPT ![k] = v]
    <3> SUFFICES ASSUME r.found PROVE f' = [f EXCEPT ![k] = v]
      OBVIOUS
    <3>1. f' = [j \in DOMAIN f \cup {k} |-> IF j = k THEN v ELSE f[j]]
      BY <1>4, <2>1, <2>3
    <3>2. DOMAIN f \cup {k} = DOMAIN f
      BY <2>3
    <3> HIDE DEF f
    <3> QED BY <1>3, <3>1, <3>2
  <2>5. ~r.found => f' = f
    BY <1>1, <2>3
  <2>6. r.found = (k \in DOMAIN f)
    BY <2>3
  <2>7. KV!Returns("update", k, r.found)
    BY <2>1 DEF KV!Returns, Ret
  <2>8. f' = IF r.found THEN [f EXCEPT ![k] = v] ELSE f
    BY <2>3, <2>4, <2>5
  <2>9. KV!Update(k, v)
    BY <2>3, <2>6, <2>7, <2>8 DEF KV!Update
  <2> QED BY <2>1, <2>9 DEF KV!Next
<1>7. ASSUME NEW k \in OpKeys, RemoveEntry(k) PROVE KV!Next
  <2> DEFINE r == RemoveKey(root, k)
  <2>1. root' = r.t /\ ret' = Ret("remove", k, r.removed) /\ k \in Keys
    BY <1>1, <1>7 DEF RemoveEntry
  <2>2. RemovedFrom(root, k, r)
    BY <1>1, <2>1, RemoveKeyIs
  <2> HIDE DEF r
  <2>3. /\ r.removed \in BOOLEAN /\ (r.removed <=> k \in DOMAIN f)
        /\ Entries(root') = Without(E, k)
    BY <1>2, <2>1, <2>2 DEF RemovedFrom
  <2>4. f' = [j \in DOMAIN f \ {k} |-> f[j]]
    <3> HIDE DEF E
    <3>1. MapOf(Without(E, k)) = [j \in KeysIn(E) \ {k} |-> MapOf(E)[j]]
      BY <1>1, WithoutIs
    <3> HIDE DEF f
    <3> QED BY <1>1, <1>2, <2>3, <3>1
  <2>5. r.removed = (k \in DOMAIN f)
    BY <2>3
  <2>6. KV!Returns("remove", k, r.removed)
    BY <2>1 DEF KV!Returns, Ret
  <2>7. KV!Remove(k)
    BY <2>3, <2>4, <2>5, <2>6 DEF KV!Remove
  <2> QED BY <2>1, <2>7 DEF KV!Next
<1>8. ASSUME NEW k \in OpKeys, FindEntry(k) PROVE KV!Next
  <2> DEFINE x == FindKey(root, k)
  <2>1. root' = root /\ ret' = Ret("find", k, x) /\ k \in Keys
    BY <1>1, <1>8 DEF FindEntry
  <2>2. Found(E, k, x) /\ x \in Values \cup {NoValue}
    BY <1>1, <2>1, FindIs, FoundIs
  <2> HIDE DEF x
  <2>3. x = IF k \in DOMAIN f THEN f[k] ELSE NoValue
    BY <1>2, <2>2
  <2>4. KV!Returns("find", k, x)
    BY <2>1 DEF KV!Returns, Ret
  <2>5. f' = f
    BY <1>1, <2>1
  <2>6. KV!Find(k)
    BY <2>2, <2>3, <2>4, <2>5 DEF KV!Find
  <2> QED BY <2>1, <2>6 DEF KV!Next
<1>9. ASSUME Reopen PROVE KV!Next
  <2>1. root' = BulkLoad(LeavesOf(root)) /\ ret' = Ret("open", NoValue, NoValue)
    BY <1>9 DEF Reopen
  <2>2. Entries(root') = E
    <3>1. Bottom(root') = Bottom(root)
      BY <1>1, <2>1, LeavesOfIs, BulkLoadIs
    <3> QED BY <3>1 DEF Entries
  <2>3. f' = f
    BY <1>1, <2>2
  <2>4. KV!Reopen
    BY <2>1, <2>3 DEF KV!Reopen, KV!Returns, Ret
  <2> QED BY <2>4 DEF KV!Next
<1>10. ASSUME UNCHANGED treeVars PROVE UNCHANGED <<Contents(root), ret>>
  BY <1>10 DEF treeVars
<1> QED BY <1>5, <1>6, <1>7, <1>8, <1>9, <1>10 DEF Next

\* FPTree is the dictionary it promises its callers: insert, remove, update and
\* find do to the contents of the leaves, and return, what KVStore says, and
\* opening the tree again loses nothing, at any degree of at least MIN_DEGREE and
\* however high the tree is.
THEOREM TreeImplementsKVStore ==
  ASSUME Degree >= 2
  PROVE  Spec => ImplementsKVStore
<1>1. Init => KV!Init
  <2> SUFFICES ASSUME Init PROVE KV!Init
    OBVIOUS
  <2> DEFINE E == Entries(root)
  <2>1. PICK c \in Chains : root = BulkLoad(c)
    BY DEF Init
  <2>2. IsChain(c)
    BY TreeAssumption DEF TreeAssumption
  <2>3. IsTree(root)
    BY <2>1, <2>2, ChainIs, BulkLoadIs
  <2>4. IsMap(E) /\ Contents(root) = MapOf(E)
    BY <2>3, EntriesOf, ContentsIs
  <2> HIDE DEF E
  <2>5. MapOf(E) \in [KeysIn(E) -> Values] /\ KeysIn(E) \in SUBSET Keys
    BY <2>4, MapIs
  <2>6. ret = [op |-> "open", key |-> NoValue, out |-> NoValue]
    BY DEF Init, Ret
  <2> QED BY <2>4, <2>5, <2>6 DEF KV!Init
<1>2. WellFormed /\ [Next]_treeVars => [KV!Next]_<<Contents(root), ret>>
  BY TreeStepImplements
<1> QED BY <1>1, <1>2, WellFormedInvariant, PTL DEF Spec, ImplementsKVStore, KV!Spec
-----------------------------------------------------------------------------
\* The leaves of a tree from left to right, before and after an operation.

\* A leaf ahead of another in terms of their keys.
LEMMA AheadMeans ==
  ASSUME NEW m \in Filled, NEW n \in Filled
  PROVE  /\ DOMAIN m.kv # {} /\ DOMAIN m.kv \subseteq Nat
         /\ Ahead(m, n) <=> \A k \in DOMAIN m.kv, j \in DOMAIN n.kv : k < j
<1>1. \A l \in Filled : /\ KeysOf(l) = DOMAIN l.kv /\ DOMAIN l.kv # {} /\ DOMAIN l.kv \subseteq Nat
                        /\ MinKey(l) \in DOMAIN l.kv /\ \A k \in DOMAIN l.kv : MinKey(l) <= k
  <2> SUFFICES ASSUME NEW l \in Filled
               PROVE  /\ KeysOf(l) = DOMAIN l.kv /\ DOMAIN l.kv # {} /\ DOMAIN l.kv \subseteq Nat
                      /\ MinKey(l) \in DOMAIN l.kv /\ \A k \in DOMAIN l.kv : MinKey(l) <= k
    OBVIOUS
  <2>1. KeysOf(l) = DOMAIN l.kv /\ Sound(l)
    BY LeafHolds
  <2>2. Keys \subseteq Nat
    BY TreeAssumption DEF TreeAssumption
  <2>3. l = Leaf(l.kv) /\ IsPart(l.kv) /\ Cardinality(DOMAIN l.kv) \in 1 .. 2 * LeafDegree - 1
    BY LeafPart
  <2> DEFINE f == l.kv
  <2>4. MinKey(Leaf(f)) \in DOMAIN f
    <3>1. IsPart(f) /\ Cardinality(DOMAIN f) \in 1 .. 2 * LeafDegree - 1
      BY <2>3
    <3> HIDE DEF f
    <3> QED BY <3>1, PartLeaf
  <2>5. MinKey(l) \in DOMAIN l.kv
    BY <2>3, <2>4
  <2> QED BY <2>1, <2>2, <2>5 DEF Sound
<1>2. ASSUME Ahead(m, n), NEW k \in DOMAIN m.kv, NEW j \in DOMAIN n.kv PROVE k < j
  <2>1. k < MinKey(n) /\ MinKey(n) <= j /\ k \in Nat /\ j \in Nat /\ MinKey(n) \in Nat
    BY <1>1, <1>2 DEF Ahead
  <2> QED BY <2>1
<1>3. ASSUME \A k \in DOMAIN m.kv, j \in DOMAIN n.kv : k < j PROVE Ahead(m, n)
  BY <1>1, <1>3 DEF Ahead
<1> QED BY <1>1, <1>2, <1>3

\* Leaves that share a key are not ahead of each other, nor is one between them.
LEMMA AheadOnce ==
  ASSUME NEW m \in Filled, NEW n \in Filled, Ahead(m, n)
  PROVE  ~Ahead(n, m) /\ m # n /\ ~Shares(m, n) /\ ~Shares(n, m)
<1>1. /\ DOMAIN m.kv # {} /\ DOMAIN n.kv # {} /\ DOMAIN m.kv \subseteq Nat /\ DOMAIN n.kv \subseteq Nat
      /\ \A k \in DOMAIN m.kv, j \in DOMAIN n.kv : k < j
  BY AheadMeans
<1>2. ~Shares(m, n) /\ ~Shares(n, m)
  <2>1. ASSUME NEW k \in DOMAIN m.kv, k \in DOMAIN n.kv PROVE FALSE
    <3>1. k < k /\ k \in Nat
      BY <1>1, <2>1
    <3> QED BY <3>1
  <2> QED BY <2>1 DEF Shares
<1>3. ~Ahead(n, m)
  <2> SUFFICES ASSUME Ahead(n, m) PROVE FALSE
    OBVIOUS
  <2>1. PICK k \in DOMAIN m.kv : TRUE
    BY <1>1
  <2>2. PICK j \in DOMAIN n.kv : TRUE
    BY <1>1
  <2>3. j < k /\ k < j /\ j \in Nat /\ k \in Nat
    BY <1>1, AheadMeans
  <2> QED BY <2>3
<1> QED BY <1>2, <1>3

LEMMA NotBetween ==
  ASSUME NEW m \in Filled, NEW n \in Filled, NEW l \in Filled, Ahead(m, n), Ahead(n, l)
  PROVE  ~Shares(m, l) /\ ~Shares(l, m)
<1>1. PICK j \in DOMAIN n.kv : TRUE
  BY AheadMeans
<1>2. /\ \A k \in DOMAIN m.kv : k < j /\ k \in Nat
      /\ \A k \in DOMAIN l.kv : j < k /\ k \in Nat
      /\ j \in Nat
  BY AheadMeans
<1>3. ASSUME NEW k \in DOMAIN m.kv, k \in DOMAIN l.kv PROVE FALSE
  <2>1. k < j /\ j < k /\ k \in Nat /\ j \in Nat
    BY <1>2, <1>3
  <2> QED BY <2>1
<1> QED BY <1>3 DEF Shares

\* A row of leaves is in one order only.
LEMMA RowStep ==
  ASSUME NEW s \in Seq(Filled), NEW t \in Seq(Filled), Rises(s), Rises(t), Elems(s) = Elems(t),
         NEW i \in 1 .. Len(s),
         \A j \in 1 .. i - 1 : j <= Len(t) /\ s[j] = t[j]
  PROVE  i <= Len(t) /\ s[i] = t[i]
<1>1. Len(s) \in Nat /\ Len(t) \in Nat /\ i \in Nat
  BY LenProperties
<1>2. /\ \A a \in 1 .. Len(s) : s[a] \in Filled /\ s[a] \in Elems(s)
      /\ \A a \in 1 .. Len(t) : t[a] \in Filled /\ t[a] \in Elems(t)
  BY ElementOfSeq DEF Elems
<1>3. PICK b \in 1 .. Len(t) : s[i] = t[b]
  BY <1>2 DEF Elems
<1>4. ~(b < i)
  <2> SUFFICES ASSUME b < i PROVE FALSE
    OBVIOUS
  <2>1. b \in 1 .. i - 1 /\ b \in 1 .. Len(s)
    BY <1>1
  <2>2. s[b] = s[i]
    BY <1>3, <2>1
  <2>3. Ahead(s[b], s[i])
    BY <2>1 DEF Rises
  <2> QED BY <1>2, <2>1, <2>2, <2>3, AheadOnce
<1>5. i \in 1 .. Len(t) /\ (b = i \/ i < b)
  BY <1>1, <1>4
<1>6. ASSUME i < b PROVE FALSE
  <2>1. PICK a \in 1 .. Len(s) : t[i] = s[a]
    BY <1>2, <1>5 DEF Elems
  <2>2. Ahead(t[i], t[b])
    BY <1>5, <1>6 DEF Rises
  <2>3. CASE a < i
    <3>1. a \in 1 .. i - 1 /\ a \in 1 .. Len(t)
      BY <1>1, <1>5, <2>3
    <3>2. t[a] = t[i]
      BY <2>1, <3>1
    <3>3. Ahead(t[a], t[i])
      BY <1>5, <2>3, <3>1 DEF Rises
    <3> QED BY <1>2, <1>5, <3>1, <3>2, <3>3, AheadOnce
  <2>4. CASE a = i
    BY <1>2, <1>3, <1>5, <2>1, <2>2, <2>4, AheadOnce
  <2>5. CASE i < a
    <3>1. Ahead(s[i], s[a])
      BY <2>5 DEF Rises
    <3>2. Ahead(t[b], t[i])
      BY <1>3, <2>1, <3>1
    <3> QED BY <1>2, <1>5, <2>2, <3>2, AheadOnce
  <2> QED BY <1>1, <2>3, <2>4, <2>5
<1> QED BY <1>1, <1>3, <1>5, <1>6

LEMMA RowsOnce ==
  ASSUME NEW s \in Seq(Filled), NEW t \in Seq(Filled), Rises(s), Rises(t), Elems(s) = Elems(t)
  PROVE  s = t
<1>1. Len(s) \in Nat /\ Len(t) \in Nat
  BY LenProperties
<1> DEFINE Same(j) == /\ j <= Len(s) => j <= Len(t) /\ s[j] = t[j]
                      /\ j <= Len(t) => j <= Len(s) /\ s[j] = t[j]
           T == {i \in Nat : \A j \in 1 .. i : Same(j)}
<1>2. 0 \in T
  OBVIOUS
<1>3. ASSUME NEW i \in Nat, i \in T PROVE i + 1 \in T
  <2>1. \A j \in 1 .. i : Same(j)
    BY <1>3
  <2>2. Same(i + 1)
    <3> DEFINE m == i + 1
    <3>1. m \in Nat /\ m >= 1 /\ \A j \in 1 .. m - 1 : j \in 1 .. i /\ j <= m
      OBVIOUS
    <3> HIDE DEF m
    <3>2. ASSUME m <= Len(s) PROVE m <= Len(t) /\ s[m] = t[m]
      <4>1. m \in 1 .. Len(s) /\ \A j \in 1 .. m - 1 : j <= Len(t) /\ s[j] = t[j]
        BY <1>1, <2>1, <3>1, <3>2
      <4> QED BY <4>1, RowStep
    <3>3. ASSUME m <= Len(t) PROVE m <= Len(s) /\ s[m] = t[m]
      <4>1. m \in 1 .. Len(t) /\ \A j \in 1 .. m - 1 : j <= Len(s) /\ t[j] = s[j]
        BY <1>1, <2>1, <3>1, <3>3
      <4> QED BY <4>1, RowStep
    <3> QED BY <3>2, <3>3 DEF m
  <2>3. \A j \in 1 .. i + 1 : j \in 1 .. i \/ j = i + 1
    OBVIOUS
  <2> HIDE DEF Same
  <2>4. \A j \in 1 .. i + 1 : Same(j)
    BY <2>1, <2>2, <2>3
  <2> QED BY <2>4
<1> HIDE DEF T
<1>4. \A i \in Nat : i \in T
  BY <1>2, <1>3, Induct
<1>5. \A i \in Nat : \A j \in 1 .. i : Same(j)
  BY <1>4 DEF T
<1>6. \A j \in Nat : j >= 1 => Same(j)
  <2>1. \A j \in Nat : j >= 1 => j \in 1 .. j
    OBVIOUS
  <2> HIDE DEF Same
  <2> QED BY <1>5, <2>1
<1>7. Len(s) = Len(t)
  <2> DEFINE a == Len(s)
             b == Len(t)
  <2>1. a \in Nat /\ b \in Nat /\ (a >= 1 => a <= b) /\ (b >= 1 => b <= a)
    <3>1. a <= a /\ b <= b
      BY <1>1
    <3> QED BY <1>1, <1>6, <3>1
  <2> HIDE DEF a, b
  <2>2. a = b
    BY <2>1
  <2> QED BY <2>2 DEF a, b
<1>8. \A j \in 1 .. Len(s) : s[j] = t[j]
  BY <1>1, <1>6
<1> QED BY <1>7, <1>8, SeqEqual

\* The parts of three sequences in a row.
Parts3(t, a, b, c) ==
  /\ Len(t) = Len(a) + Len(b) + Len(c)
  /\ SubSeq(t, 1, Len(a)) = a
  /\ SubSeq(t, Len(a) + 1, Len(a) + Len(b)) = b
  /\ SubSeq(t, Len(a) + Len(b) + 1, Len(t)) = c

LEMMA PartsAre ==
  ASSUME NEW S, NEW a \in Seq(S), NEW b \in Seq(S), NEW c \in Seq(S)
  PROVE  Parts3(a \o b \o c, a, b, c)
<1> DEFINE t == a \o b \o c
<1>1. IsRow3(S, t, a, b, c)
  BY Concat3
<1> HIDE DEF t
<1>2. Len(a) \in Nat /\ Len(b) \in Nat /\ Len(c) \in Nat
  BY LenProperties
<1>3. /\ t \in Seq(S) /\ Len(t) = Len(a) + Len(b) + Len(c) /\ Len(t) \in Nat
      /\ \A i \in 1 .. Len(t) : t[i] \in S
  BY <1>1, LenProperties, ElementOfSeq DEF IsRow3
<1>4. ASSUME NEW z \in Seq(S), NEW m \in Nat, m + Len(z) <= Len(t),
             \A i \in 1 .. Len(z) : t[m + i] = z[i]
      PROVE  SubSeq(t, m + 1, m + Len(z)) = z
  <2> DEFINE n == Len(z)
             u == SubSeq(t, m + 1, m + n)
  <2>0. n \in Nat
    BY LenProperties
  <2>1. \A i \in m + 1 .. m + n : t[i] \in S
    <3>1. m + n <= Len(t)
      BY <1>4
    <3> HIDE DEF n
    <3> QED BY <1>3, <2>0, <3>1
  <2>2. /\ u \in Seq(S)
        /\ Len(u) = IF m + 1 <= m + n THEN (m + n) - (m + 1) + 1 ELSE 0
        /\ \A i \in 1 .. (m + n) - (m + 1) + 1 : u[i] = t[(m + 1) + i - 1]
    <3>1. m + 1 \in Int /\ m + n \in Int
      BY <2>0
    <3> HIDE DEF n
    <3> QED BY <2>1, <3>1, SubSeqProperties
  <2> HIDE DEF u
  <2>3. Len(u) = Len(z)
    BY <2>0, <2>2
  <2>4. \A i \in 1 .. Len(u) : u[i] = z[i]
    <3>1. \A i \in 1 .. n : i \in 1 .. (m + n) - (m + 1) + 1 /\ (m + 1) + i - 1 = m + i
      BY <2>0
    <3> QED BY <1>4, <2>2, <2>3, <3>1
  <2>5. u = z
    BY <2>2, <2>3, <2>4, SeqEqual
  <2> QED BY <2>5 DEF u
<1>5. /\ \A i \in 1 .. Len(a) : t[0 + i] = a[i]
      /\ \A i \in 1 .. Len(b) : t[Len(a) + i] = b[i]
      /\ \A i \in 1 .. Len(c) : t[(Len(a) + Len(b)) + i] = c[i]
  BY <1>1, <1>2 DEF IsRow3
<1>6. SubSeq(t, 0 + 1, 0 + Len(a)) = a
  <2>1. 0 + Len(a) <= Len(t) /\ 0 \in Nat
    BY <1>2, <1>3
  <2> QED BY <1>4, <1>5, <2>1
<1>7. SubSeq(t, Len(a) + 1, Len(a) + Len(b)) = b
  <2>1. Len(a) + Len(b) <= Len(t)
    BY <1>2, <1>3
  <2> QED BY <1>2, <1>4, <1>5, <2>1
<1>8. SubSeq(t, (Len(a) + Len(b)) + 1, (Len(a) + Len(b)) + Len(c)) = c
  <2>1. (Len(a) + Len(b)) + Len(c) <= Len(t) /\ Len(a) + Len(b) \in Nat
    BY <1>2, <1>3
  <2> QED BY <1>4, <1>5, <2>1
<1>9. 0 + 1 = 1 /\ 0 + Len(a) = Len(a)
  BY <1>2
<1>10. Parts3(t, a, b, c)
  BY <1>3, <1>6, <1>7, <1>8, <1>9 DEF Parts3
<1> QED BY <1>10 DEF t

LEMMA Differs ==
  ASSUME NEW S, NEW a \in Seq(S), NEW b \in Seq(S), NEW c \in Seq(S), NEW d \in Seq(S),
         Len(b) \in 0 .. 1, Len(d) \in 0 .. 2
  PROVE  OneLeafDiffers(a \o b \o c, a \o d \o c)
<1> DEFINE s == a \o b \o c
           t == a \o d \o c
<1>0. Parts3(s, a, b, c) /\ Parts3(t, a, d, c)
  BY PartsAre
<1>3. t = a \o d \o c
  OBVIOUS
<1> HIDE DEF s, t
<1>1. /\ Len(s) = Len(a) + Len(b) + Len(c) /\ SubSeq(s, 1, Len(a)) = a
      /\ SubSeq(s, Len(a) + Len(b) + 1, Len(s)) = c
  BY <1>0 DEF Parts3
<1>2. Len(t) = Len(a) + Len(d) + Len(c) /\ SubSeq(t, Len(a) + 1, Len(a) + Len(d)) = d
  BY <1>0 DEF Parts3
<1>4. Len(a) \in Nat /\ Len(b) \in Nat /\ Len(c) \in Nat /\ Len(d) \in Nat
  BY LenProperties
<1>5. Len(t) = Len(s) - Len(b) + Len(d) /\ Len(a) \in 0 .. Len(s) - Len(b)
  BY <1>1, <1>2, <1>4
<1>6. t = SubSeq(s, 1, Len(a)) \o SubSeq(t, Len(a) + 1, Len(a) + Len(d))
          \o SubSeq(s, Len(a) + Len(b) + 1, Len(s))
  BY <1>1, <1>2, <1>3
<1>7. OneLeafDiffers(s, t)
  BY <1>5, <1>6 DEF OneLeafDiffers
<1> QED BY <1>7 DEF s, t

\* What is ordered in a row of three, and what makes one.
Ordered3(a, b, c, R) ==
  /\ Ordered(a, R) /\ Ordered(b, R) /\ Ordered(c, R)
  /\ AllBefore(a, b, R) /\ AllBefore(b, c, R) /\ AllBefore(a, c, R)

LEMMA OrderedParts ==
  ASSUME NEW S, NEW a \in Seq(S), NEW b \in Seq(S), NEW c \in Seq(S), NEW R
  PROVE  Ordered(a \o b \o c, R) <=> Ordered3(a, b, c, R)
<1> DEFINE t == a \o b \o c
<1>1. Len(a) \in Nat /\ Len(b) \in Nat /\ Len(c) \in Nat
  BY LenProperties
<1>2. ASSUME Ordered(t, R) PROVE Ordered3(a, b, c, R)
  <2>1. IsRow3(S, t, a, b, c)
    BY Concat3
  <2> HIDE DEF t
  <2>2. /\ Len(t) = Len(a) + Len(b) + Len(c)
        /\ \A i \in 1 .. Len(a) : t[i] = a[i]
        /\ \A i \in 1 .. Len(b) : t[Len(a) + i] = b[i]
        /\ \A i \in 1 .. Len(c) : t[Len(a) + Len(b) + i] = c[i]
    BY <2>1 DEF IsRow3
  <2>3. \A i, j \in 1 .. Len(t) : i < j => <<t[i], t[j]>> \in R
    BY <1>2 DEF Ordered
  <2>4. Ordered(a, R) /\ AllBefore(a, b, R) /\ AllBefore(a, c, R)
    <3>1. ASSUME NEW i \in 1 .. Len(a), NEW j \in 1 .. Len(a), i < j PROVE <<a[i], a[j]>> \in R
      <4>1. i \in 1 .. Len(t) /\ j \in 1 .. Len(t)
        BY <1>1, <2>2
      <4> QED BY <2>2, <2>3, <3>1, <4>1
    <3>2. ASSUME NEW i \in 1 .. Len(a), NEW j \in 1 .. Len(b) PROVE <<a[i], b[j]>> \in R
      <4>1. i \in 1 .. Len(t) /\ Len(a) + j \in 1 .. Len(t) /\ i < Len(a) + j
        BY <1>1, <2>2
      <4>2. <<t[i], t[Len(a) + j]>> \in R
        BY <2>3, <4>1
      <4> QED BY <2>2, <4>2
    <3>3. ASSUME NEW i \in 1 .. Len(a), NEW j \in 1 .. Len(c) PROVE <<a[i], c[j]>> \in R
      <4>1. i \in 1 .. Len(t) /\ Len(a) + Len(b) + j \in 1 .. Len(t) /\ i < Len(a) + Len(b) + j
        BY <1>1, <2>2
      <4>2. <<t[i], t[Len(a) + Len(b) + j]>> \in R
        BY <2>3, <4>1
      <4> QED BY <2>2, <4>2
    <3> QED BY <3>1, <3>2, <3>3 DEF Ordered, AllBefore, Elems
  <2>5. Ordered(b, R) /\ AllBefore(b, c, R)
    <3>1. ASSUME NEW i \in 1 .. Len(b), NEW j \in 1 .. Len(b), i < j PROVE <<b[i], b[j]>> \in R
      <4>1. Len(a) + i \in 1 .. Len(t) /\ Len(a) + j \in 1 .. Len(t) /\ Len(a) + i < Len(a) + j
        BY <1>1, <2>2, <3>1
      <4>2. <<t[Len(a) + i], t[Len(a) + j]>> \in R
        BY <2>3, <4>1
      <4> QED BY <2>2, <4>2
    <3>2. ASSUME NEW i \in 1 .. Len(b), NEW j \in 1 .. Len(c) PROVE <<b[i], c[j]>> \in R
      <4>1. /\ Len(a) + i \in 1 .. Len(t) /\ Len(a) + Len(b) + j \in 1 .. Len(t)
            /\ Len(a) + i < Len(a) + Len(b) + j
        BY <1>1, <2>2
      <4>2. <<t[Len(a) + i], t[Len(a) + Len(b) + j]>> \in R
        BY <2>3, <4>1
      <4> QED BY <2>2, <4>2
    <3> QED BY <3>1, <3>2 DEF Ordered, AllBefore, Elems
  <2>6. Ordered(c, R)
    <3>1. ASSUME NEW i \in 1 .. Len(c), NEW j \in 1 .. Len(c), i < j PROVE <<c[i], c[j]>> \in R
      <4>1. /\ Len(a) + Len(b) + i \in 1 .. Len(t) /\ Len(a) + Len(b) + j \in 1 .. Len(t)
            /\ Len(a) + Len(b) + i < Len(a) + Len(b) + j
        BY <1>1, <2>2, <3>1
      <4>2. <<t[Len(a) + Len(b) + i], t[Len(a) + Len(b) + j]>> \in R
        BY <2>3, <4>1
      <4> QED BY <2>2, <4>2
    <3> QED BY <3>1 DEF Ordered
  <2> QED BY <2>4, <2>5, <2>6 DEF Ordered3
<1>3. ASSUME Ordered3(a, b, c, R) PROVE Ordered(t, R)
  <2> DEFINE ab == a \o b
  <2>1. ab \in Seq(S) /\ Elems(ab) = Elems(a) \cup Elems(b) /\ Ordered(ab, R)
    BY <1>3, ConcatProperties, ElemsConcat, OrderedConcat DEF Ordered3
  <2> HIDE DEF ab
  <2>2. AllBefore(ab, c, R) /\ Ordered(c, R)
    BY <1>3, <2>1 DEF Ordered3, AllBefore
  <2>3. Ordered(ab \o c, R)
    BY <2>1, <2>2, OrderedConcat
  <2> QED BY <2>3 DEF ab
<1> QED BY <1>2, <1>3

\* Leaves that rise are ordered.
LEMMA RisesOrdered ==
  ASSUME NEW s \in Seq(Filled)
  PROVE  Rises(s) <=> Ordered(s, AheadIn(Filled))
<1>1. \A i \in 1 .. Len(s) : s[i] \in Filled
  BY ElementOfSeq
<1> QED BY <1>1 DEF Rises, Ordered, AheadIn

\* Two of them in one row are the same or one is ahead of the other.
LEMMA RowTotal ==
  ASSUME NEW s \in Seq(Filled), Rises(s), NEW m \in Elems(s), NEW n \in Elems(s)
  PROVE  /\ m \in Filled /\ n \in Filled
         /\ m = n \/ Ahead(m, n) \/ Ahead(n, m)
<1>1. m \in Filled /\ n \in Filled
  BY ElemsOf
<1>2. PICK i \in 1 .. Len(s) : m = s[i]
  BY DEF Elems
<1>3. PICK j \in 1 .. Len(s) : n = s[j]
  BY DEF Elems
<1>4. i = j \/ i < j \/ j < i
  OBVIOUS
<1> QED BY <1>1, <1>2, <1>3, <1>4 DEF Rises

\* One leaf of a row that gives way to those of d.
LEMMA GivesWay ==
  ASSUME NEW a \in Seq(Filled), NEW c \in Seq(Filled), NEW d \in Seq(Filled), NEW l \in Filled,
         NEW t \in Seq(Filled), Rises(a \o <<l>> \o c), Rises(d), Rises(t), Len(d) \in 0 .. 2,
         \A y \in Elems(d) : Shares(y, l),
         Elems(t) = Elems(a) \cup Elems(d) \cup Elems(c)
  PROVE  OneLeafDiffers(a \o <<l>> \o c, t)
<1> DEFINE R == AheadIn(Filled)
           b == <<l>>
           u == a \o d \o c
<1>1. b \in Seq(Filled) /\ Len(b) = 1 /\ Elems(b) = {l}
  BY FanOne
<1>2. a \o b \o c \in Seq(Filled) /\ u \in Seq(Filled)
  BY <1>1, Concat3 DEF IsRow3
<1>3. Ordered3(a, b, c, R)
  <2>1. Ordered(a \o b \o c, R)
    BY <1>2, RisesOrdered
  <2> HIDE DEF R, b
  <2> QED BY <1>1, <2>1, OrderedParts
<1>4. Ordered(a, R) /\ Ordered(c, R) /\ AllBefore(a, c, R)
  BY <1>3 DEF Ordered3
<1>5. /\ \A x \in Elems(a) : x \in Filled /\ Ahead(x, l)
      /\ \A x \in Elems(c) : x \in Filled /\ Ahead(l, x)
  <2>1. /\ \A x \in Elems(a) : <<x, l>> \in R
        /\ \A x \in Elems(c) : <<l, x>> \in R
    BY <1>1, <1>3 DEF Ordered3, AllBefore
  <2> QED BY <2>1 DEF AheadIn
<1> HIDE DEF b
<1>6. AllBefore(a, d, R)
  <2> SUFFICES ASSUME NEW x \in Elems(a), NEW y \in Elems(d) PROVE <<x, y>> \in R
    BY DEF AllBefore
  <2>1. x \in Filled /\ y \in Filled /\ (x = y \/ Ahead(x, y) \/ Ahead(y, x))
    <3>1. x \in Elems(t) /\ y \in Elems(t)
      OBVIOUS
    <3> QED BY <3>1, RowTotal
  <2>2. Ahead(x, l) /\ Shares(y, l)
    BY <1>5
  <2>3. x # y
    BY <2>1, <2>2, AheadOnce
  <2>4. ~Ahead(y, x)
    BY <2>1, <2>2, NotBetween
  <2> QED BY <2>1, <2>3, <2>4 DEF AheadIn
<1>7. AllBefore(d, c, R)
  <2> SUFFICES ASSUME NEW x \in Elems(c), NEW y \in Elems(d) PROVE <<y, x>> \in R
    BY DEF AllBefore
  <2>1. x \in Filled /\ y \in Filled /\ (x = y \/ Ahead(x, y) \/ Ahead(y, x))
    <3>1. x \in Elems(t) /\ y \in Elems(t)
      OBVIOUS
    <3> QED BY <3>1, RowTotal
  <2>2. Ahead(l, x) /\ Shares(y, l)
    BY <1>5
  <2>3. x # y
    BY <2>1, <2>2, AheadOnce
  <2>4. ~Ahead(x, y)
    BY <2>1, <2>2, NotBetween
  <2> QED BY <2>1, <2>3, <2>4 DEF AheadIn
<1>8. Ordered(d, R)
  BY RisesOrdered
<1>9. Ordered(u, R)
  <2>1. Ordered3(a, d, c, R)
    BY <1>4, <1>6, <1>7, <1>8 DEF Ordered3
  <2> HIDE DEF R
  <2> QED BY <2>1, OrderedParts
<1>10. Elems(u) = Elems(a) \cup Elems(d) \cup Elems(c)
  <2> DEFINE ad == a \o d
  <2>1. ad \in Seq(Filled) /\ Elems(ad) = Elems(a) \cup Elems(d)
    BY ConcatProperties, ElemsConcat
  <2> HIDE DEF ad
  <2>2. Elems(ad \o c) = Elems(ad) \cup Elems(c)
    BY <2>1, ElemsConcat
  <2> QED BY <2>1, <2>2 DEF ad
<1>11. OneLeafDiffers(a \o b \o c, u)
  <2>1. Len(b) \in 0 .. 1
    BY <1>1
  <2> QED BY <1>1, <2>1, Differs
<1> HIDE DEF u, R
<1>12. t = u
  <2>1. Rises(u)
    BY <1>2, <1>9, RisesOrdered DEF R
  <2> QED BY <1>2, <1>10, <2>1, RowsOnce
<1> QED BY <1>11, <1>12 DEF b

\* One or two leaves of a row, in their order.
LEMMA FewOrdered ==
  ASSUME NEW t \in Seq(Filled), Rises(t), NEW m \in Elems(t), NEW n \in Elems(t)
  PROVE  \E d \in Seq(Filled) : Rises(d) /\ Len(d) \in 0 .. 2 /\ Elems(d) = {m, n}
<1>1. m \in Filled /\ n \in Filled /\ (m = n \/ Ahead(m, n) \/ Ahead(n, m))
  BY RowTotal
<1>2. ASSUME NEW x \in Filled, NEW y \in Filled, Ahead(x, y)
      PROVE  <<x, y>> \in Seq(Filled) /\ Rises(<<x, y>>) /\ Len(<<x, y>>) = 2 /\ Elems(<<x, y>>) = {x, y}
  <2> DEFINE d == <<x, y>>
  <2>1. d \in Seq(Filled) /\ Len(d) = 2 /\ d[1] = x /\ d[2] = y
    OBVIOUS
  <2>2. Elems(d) = {x, y}
    BY FanTwo
  <2> HIDE DEF d
  <2>3. \A i, j \in 1 .. Len(d) : i < j => i = 1 /\ j = 2
    BY <2>1
  <2>4. Rises(d)
    BY <1>2, <2>1, <2>3 DEF Rises
  <2> QED BY <2>1, <2>2, <2>4 DEF d
<1>3. CASE m = n
  <2> DEFINE d == <<m>>
  <2>1. d \in Seq(Filled) /\ Len(d) = 1
    BY <1>1
  <2>2. Elems(d) = {m, n}
    BY <1>3, FanOne
  <2> HIDE DEF d
  <2>3. Rises(d)
    BY <2>1 DEF Rises
  <2>4. Len(d) \in 0 .. 2
    BY <2>1
  <2> QED BY <2>1, <2>2, <2>3, <2>4
<1>4. 2 \in 0 .. 2
  OBVIOUS
<1>5. CASE Ahead(m, n)
  BY <1>1, <1>2, <1>4, <1>5
<1>6. CASE Ahead(n, m)
  <2>1. {n, m} = {m, n}
    OBVIOUS
  <2> QED BY <1>1, <1>2, <1>4, <1>6, <2>1
<1> QED BY <1>1, <1>3, <1>5, <1>6

\* Rows of the leaves before and after an operation.
LEMMA TouchedRows ==
  ASSUME NEW s \in Seq(Filled), NEW t \in Seq(Filled), Rises(s), Rises(t),
         Touched(Elems(s), Elems(t))
  PROVE  OneLeafDiffers(s, t)
<1> DEFINE B == Elems(s)
           C == Elems(t)
<1>1. ASSUME NEW z \in Seq(Filled) PROVE OneLeafDiffers(z, z)
  <2>1. <<>> \in Seq(Filled) /\ <<>> \o <<>> \o z = z /\ Len(<<>>) \in 0 .. 1 /\ Len(<<>>) \in 0 .. 2
    BY ConcatEmptySeq
  <2>2. OneLeafDiffers(<<>> \o <<>> \o z, <<>> \o <<>> \o z)
    BY <2>1, Differs
  <2> QED BY <2>1, <2>2
<1>2. CASE C = B
  BY <1>1, <1>2, RowsOnce
<1>3. ASSUME B = {}, NEW l, C = {l} PROVE OneLeafDiffers(s, t)
  <2> DEFINE d == <<l>>
  <2>1. s = <<>> /\ l \in Filled
    BY <1>3, ElemsOf
  <2>2. d \in Seq(Filled) /\ Len(d) = 1
    BY <2>1
  <2>3. Elems(d) = {l}
    BY FanOne
  <2> HIDE DEF d
  <2>4. Rises(d)
    BY <2>2 DEF Rises
  <2>5. t = d
    BY <1>3, <2>2, <2>3, <2>4, RowsOnce
  <2>6. /\ <<>> \in Seq(Filled) /\ <<>> \o <<>> \o <<>> = <<>> /\ <<>> \o d \o <<>> = d
        /\ Len(<<>>) \in 0 .. 1 /\ Len(d) \in 0 .. 2
    BY <2>2, ConcatEmptySeq
  <2>7. OneLeafDiffers(<<>> \o <<>> \o <<>>, <<>> \o d \o <<>>)
    BY <2>2, <2>6, Differs
  <2> QED BY <2>1, <2>5, <2>6, <2>7
<1>4. ASSUME NEW X, NEW l, NEW m, NEW n, Shares(m, l), Shares(n, l),
             B = X \cup {l}, C = X \/ C = X \cup {m, n}
      PROVE  OneLeafDiffers(s, t)
  <2>1. CASE l \in X
    <3>1. B = X
      BY <1>4, <2>1
    <3>2. ASSUME NEW y \in C, Shares(y, l) PROVE y = l
      <4>1. l \in C
        BY <1>4, <2>1
      <4>2. y \in Filled /\ l \in Filled /\ (y = l \/ Ahead(y, l) \/ Ahead(l, y))
        BY <4>1, RowTotal
      <4> QED BY <3>2, <4>2, AheadOnce
    <3>3. C = X
      BY <1>4, <2>1, <3>2
    <3> QED BY <1>2, <3>1, <3>3
  <2>2. CASE l \notin X
    <3>1. PICK p \in 1 .. Len(s) : l = s[p]
      BY <1>4 DEF Elems
    <3>2. PICK a, c \in Seq(Filled) : IsCut(Filled, s, p, a, c)
      BY Cut
    <3>3. s = a \o <<l>> \o c /\ l \in Filled
      BY <3>1, <3>2, ElementOfSeq DEF IsCut
    <3>4. B = Elems(a) \cup {l} \cup Elems(c)
      <4> DEFINE b == <<l>>
                 ab == a \o b
      <4>1. b \in Seq(Filled) /\ Elems(b) = {l}
        BY <3>3, FanOne
      <4> HIDE DEF b
      <4>2. ab \in Seq(Filled) /\ Elems(ab) = Elems(a) \cup Elems(b)
        BY <4>1, ConcatProperties, ElemsConcat
      <4>3. s = ab \o c
        BY <3>3 DEF b
      <4> HIDE DEF ab
      <4>4. Elems(s) = Elems(ab) \cup Elems(c)
        BY <4>2, <4>3, ElemsConcat
      <4> QED BY <4>1, <4>2, <4>4
    <3>5. l \notin Elems(a) /\ l \notin Elems(c)
      <4> DEFINE b == <<l>>
                 R == AheadIn(Filled)
      <4>1. b \in Seq(Filled) /\ Elems(b) = {l}
        BY <3>3, FanOne
      <4>2. Ordered(a \o b \o c, R)
        BY <3>3, RisesOrdered
      <4> HIDE DEF b, R
      <4>3. AllBefore(a, b, R) /\ AllBefore(b, c, R)
        BY <4>1, <4>2, OrderedParts DEF Ordered3
      <4>4. <<l, l>> \notin R
        BY AheadOnce DEF R, AheadIn
      <4> QED BY <4>1, <4>3, <4>4 DEF AllBefore
    <3>6. X = Elems(a) \cup Elems(c)
      BY <1>4, <2>2, <3>4, <3>5
    <3>7. \E d \in Seq(Filled) : /\ Rises(d) /\ Len(d) \in 0 .. 2 /\ C = X \cup Elems(d)
                                 /\ \A y \in Elems(d) : Shares(y, l)
      <4>1. CASE C = X
        <5>1. <<>> \in Seq(Filled) /\ Len(<<>>) \in 0 .. 2 /\ Elems(<<>>) = {} /\ Rises(<<>>)
          BY DEF Elems, Rises
        <5> QED BY <4>1, <5>1
      <4>2. CASE C = X \cup {m, n}
        <5>1. m \in C /\ n \in C
          BY <4>2
        <5>2. PICK d \in Seq(Filled) : Rises(d) /\ Len(d) \in 0 .. 2 /\ Elems(d) = {m, n}
          BY <5>1, FewOrdered
        <5> QED BY <1>4, <4>2, <5>2
      <4> QED BY <1>4, <4>1, <4>2
    <3>8. PICK d \in Seq(Filled) : /\ Rises(d) /\ Len(d) \in 0 .. 2 /\ C = X \cup Elems(d)
                                   /\ \A y \in Elems(d) : Shares(y, l)
      BY <3>7
    <3>9. Elems(t) = Elems(a) \cup Elems(d) \cup Elems(c)
      BY <3>6, <3>8
    <3>10. Rises(a \o <<l>> \o c)
      BY <3>3
    <3>11. OneLeafDiffers(a \o <<l>> \o c, t)
      BY <3>3, <3>8, <3>9, <3>10, GivesWay
    <3> QED BY <3>3, <3>11
  <2> QED BY <2>1, <2>2
<1>5. \/ C = B \/ (B = {} /\ \E l : C = {l})
      \/ \E X, l, m, n : /\ Shares(m, l) /\ Shares(n, l)
                         /\ B = X \cup {l} /\ (C = X \/ C = X \cup {m, n})
  BY DEF Touched, Edited
<1> QED BY <1>2, <1>3, <1>4, <1>5

LEMMA LeavesTouched ==
  ASSUME NEW t, IsTree(t), NEW u, IsTree(u), Touched(Bottom(t), Bottom(u))
  PROVE  OneLeafDiffers(LeavesOf(t), LeavesOf(u))
<1>1. ASSUME NEW x, IsTree(x)
      PROVE  LeavesOf(x) \in Seq(Filled) /\ Rises(LeavesOf(x)) /\ Elems(LeavesOf(x)) = Bottom(x)
  <2> DEFINE s == LeavesOf(x)
  <2>1. s \in Seq(Filled) /\ Rises(s) /\ Beneath(s) = Bottom(x)
    BY <1>1, LeavesOfIs DEF IsRow
  <2> HIDE DEF s
  <2>2. \A n \in Elems(s) : Bottom(n) = {n}
    BY <2>1, ElemsOf, LeafHolds
  <2>3. Beneath(s) = Elems(s)
    BY <2>2 DEF Beneath
  <2> QED BY <2>1, <2>3 DEF s
<1> DEFINE a == LeavesOf(t)
           b == LeavesOf(u)
<1>2. /\ a \in Seq(Filled) /\ Rises(a) /\ Elems(a) = Bottom(t)
      /\ b \in Seq(Filled) /\ Rises(b) /\ Elems(b) = Bottom(u)
  BY <1>1
<1> HIDE DEF a, b
<1>3. OneLeafDiffers(a, b)
  BY <1>2, TouchedRows
<1> QED BY <1>3 DEF a, b

\* An operation touches at most one leaf of the tree, and adds or frees at most
\* one; the others stay where they were from left to right, however high the tree
\* is and whatever nodes above them were split, merged or evened out.
THEOREM LeavesAlwaysStay ==
  ASSUME Degree >= 2
  PROVE  Spec => LeavesStayInPlace
<1> DEFINE Differ == \E old \in {LeavesOf(root)}, new \in {LeavesOf(root')} : OneLeafDiffers(old, new)
<1>1. ASSUME WellFormed, [Next]_treeVars PROVE [Differ]_treeVars
  <2>1. IsTree(root) /\ OpKeys \subseteq Keys /\ OpValues \subseteq Values
    BY <1>1, TreeAssumption DEF WellFormed, TreeAssumption
  <2>2. ASSUME IsTree(root'), Touched(Bottom(root), Bottom(root')) PROVE Differ
    BY <2>1, <2>2, LeavesTouched
  <2>3. ASSUME NEW k \in OpKeys, NEW v \in OpValues, InsertEntry(k, v) PROVE Differ
    <3>1. root' = InsertKey(root, k, v) /\ k \in Keys /\ v \in Values
      BY <2>1, <2>3 DEF InsertEntry
    <3>2. IsTree(root') /\ Touched(Bottom(root), Bottom(root'))
      BY <2>1, <3>1, InsertKeyIs
    <3> QED BY <2>2, <3>2
  <2>4. ASSUME NEW k \in OpKeys, NEW v \in OpValues, UpdateEntry(k, v) PROVE Differ
    <3> DEFINE r == UpdateKey(root, k, v)
    <3>1. root' = r.node /\ k \in Keys /\ v \in Values
      BY <2>1, <2>4 DEF UpdateEntry
    <3>2. UpdatedIn(root, k, v, r)
      BY <2>1, <3>1, UpdateIs
    <3> HIDE DEF r
    <3>3. IsTree(root') /\ Touched(Bottom(root), Bottom(root'))
      BY <3>1, <3>2 DEF UpdatedIn
    <3> QED BY <2>2, <3>3
  <2>5. ASSUME NEW k \in OpKeys, RemoveEntry(k) PROVE Differ
    <3> DEFINE r == RemoveKey(root, k)
    <3>1. root' = r.t /\ k \in Keys
      BY <2>1, <2>5 DEF RemoveEntry
    <3>2. RemovedFrom(root, k, r)
      BY <2>1, <3>1, RemoveKeyIs
    <3> HIDE DEF r
    <3>3. IsTree(root') /\ Touched(Bottom(root), Bottom(root'))
      BY <3>1, <3>2 DEF RemovedFrom
    <3> QED BY <2>2, <3>3
  <2>6. ASSUME root' = root PROVE Differ
    <3>1. Touched(Bottom(root), Bottom(root))
      BY DEF Touched, Edited
    <3> QED BY <2>1, <2>2, <2>6, <3>1
  <2>7. ASSUME NEW k \in OpKeys, FindEntry(k) PROVE Differ
    <3>1. root' = root
      BY <2>7 DEF FindEntry
    <3> QED BY <2>6, <3>1
  <2>8. ASSUME Reopen PROVE Differ
    <3>1. root' = BulkLoad(LeavesOf(root))
      BY <2>8 DEF Reopen
    <3>2. IsTree(root') /\ Bottom(root') = Bottom(root)
      BY <2>1, <3>1, LeavesOfIs, BulkLoadIs
    <3> QED BY <2>2, <3>2 DEF Touched, Edited
  <2>9. Next \/ UNCHANGED treeVars
    BY <1>1
  <2> HIDE DEF Differ
  <2> QED BY <2>3, <2>4, <2>5, <2>7, <2>8, <2>9 DEF Next
<1>2. WellFormed /\ [Next]_treeVars => [Differ]_treeVars
  BY <1>1
<1> QED BY <1>2, WellFormedInvariant, PTL DEF Spec, LeavesStayInPlace
==============================================================================
