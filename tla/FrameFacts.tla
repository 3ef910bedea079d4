---------------------------- MODULE FrameFacts ----------------------------
(***************************************************************************)
(* What the proofs about frames rest on: induction over the natural        *)
(* numbers, for sets instead of predicates; what FlattenSeq of the         *)
(* community modules computes; where the parts of an MC4E frame are.       *)
(***************************************************************************)
EXTENDS McFrame, SequenceTheorems, WellFoundedInduction, TLAPS

(***************************************************************************)
(* Induction.                                                              *)
(***************************************************************************)

\* Every set of natural numbers that is not empty has a least element.
LEMMA LeastNumber ==
    ASSUME NEW T, T \subseteq Nat, T # {}
    PROVE  \E x \in T : \A y \in T : x <= y
<1> DEFINE R == {ss \in Nat \X Nat : ss[1] < ss[2]}
<1>1. OpToRel(<, Nat) = R
  BY Zenon DEF OpToRel
<1>2. IsWellFoundedOn(OpToRel(<, Nat), Nat)
  BY Zenon, NatLessThanWellFounded
<1>3. IsWellFoundedOn(R, Nat)
  BY Zenon, <1>1, <1>2
<1>4. PICK x \in T : \A y \in T : <<y, x>> \notin R
  <2> HIDE DEF R
  <2> QED BY Zenon, <1>3, WFMin
<1>5. ASSUME NEW y \in T PROVE x <= y
  <2>1. y \in Nat /\ x \in Nat /\ <<y, x>> \in Nat \X Nat
    OBVIOUS
  <2>2. ~(y < x)
    BY <1>4, <2>1
  <2> QED BY <2>1, <2>2
<1> QED BY <1>5

\* A set with 0, and with the successor of each of its elements, has all
\* natural numbers.
LEMMA Induction ==
    ASSUME NEW S, 0 \in S, \A n \in Nat : n \in S => n + 1 \in S
    PROVE  Nat \subseteq S
<1> SUFFICES ASSUME Nat \ S # {} PROVE FALSE
  OBVIOUS
<1>1. PICK x \in Nat \ S : \A y \in Nat \ S : x <= y
  BY LeastNumber
<1>2. x - 1 \in Nat /\ x - 1 \notin Nat \ S
  BY <1>1
<1>3. (x - 1) + 1 \in S
  BY <1>2
<1> QED BY <1>1, <1>3

(***************************************************************************)
(* FlattenSeq.                                                             *)
(***************************************************************************)

\* The first i sequences of s, joined.
Joined(s, i) == FlattenSeq([j \in 1..i |-> s[j]])

\* The equation of the function inside FlattenSeq, for the first i sequences.
Joins(g, s, i) ==
    g = [k \in 1..i |-> IF k = 1 THEN s[k] ELSE g[k - 1] \o s[k]]

LEMMA JoinsExists ==
    ASSUME NEW s
    PROVE  \A i \in Nat : \E g : Joins(g, s, i)
<1> DEFINE N == {i \in Nat : \E g : Joins(g, s, i)}
<1>1. 0 \in N
  <2> DEFINE g == [k \in 1..0 |-> k]
  <2>1. Joins(g, s, 0)
    BY DEF Joins
  <2> QED BY <2>1
<1>2. ASSUME NEW i \in N PROVE i + 1 \in N
  <2>1. PICK g : Joins(g, s, i)
    OBVIOUS
  <2> DEFINE next(k) == IF k = 1 THEN s[k] ELSE g[k - 1] \o s[k]
             h == [k \in 1..(i + 1) |-> next(k)]
  <2> HIDE DEF N
  <2>2. i \in Nat
    BY DEF N
  <2>3. ASSUME NEW k \in 1..i PROVE h[k] = g[k]
    <3>1. k \in 1..(i + 1)
      BY <2>2
    <3> QED BY <2>1, <3>1 DEF Joins
  <2>4. ASSUME NEW k \in 1..(i + 1), k # 1 PROVE h[k - 1] = g[k - 1]
    <3>1. k - 1 \in 1..i
      BY <2>2, <2>4
    <3> QED BY <2>3, <3>1
  <2>5. Joins(h, s, i + 1)
    BY <2>4 DEF Joins
  <2> QED BY <2>2, <2>5 DEF N
<1> HIDE DEF N
<1>3. Nat \subseteq N
  BY <1>1, <1>2, Induction
<1> QED BY <1>3 DEF N

\* However many sequences follow, the first ones are joined in the same way.
LEMMA JoinsAgree ==
    ASSUME NEW s, NEW i \in Nat, NEW g, NEW h,
           Joins(g, s, i), Joins(h, s, i + 1)
    PROVE  \A k \in 1..i : g[k] = h[k]
<1> DEFINE N == {k \in Nat : k \in 1..i => g[k] = h[k]}
<1>1. 0 \in N
  OBVIOUS
<1>2. ASSUME NEW k \in Nat, k \in N PROVE k + 1 \in N
  <2> SUFFICES ASSUME k + 1 \in 1..i PROVE g[k + 1] = h[k + 1]
    OBVIOUS
  <2>1. /\ g[k + 1] = IF k + 1 = 1 THEN s[k + 1] ELSE g[k] \o s[k + 1]
        /\ h[k + 1] = IF k + 1 = 1 THEN s[k + 1] ELSE h[k] \o s[k + 1]
    <3>1. k + 1 \in 1..(i + 1) /\ (k + 1) - 1 = k
      OBVIOUS
    <3> QED BY <3>1 DEF Joins
  <2>2. k + 1 # 1 => g[k] = h[k]
    BY <1>2
  <2> QED BY <2>1, <2>2
<1> HIDE DEF N
<1>3. Nat \subseteq N
  BY <1>1, <1>2, Induction
<1> QED BY <1>3 DEF N

LEMMA JoinedByJoins ==
    ASSUME NEW s, NEW i \in Nat \ {0}
    PROVE  \E g : Joins(g, s, i) /\ Joined(s, i) = g[i]
<1> DEFINE t == [j \in 1..i |-> s[j]]
           eq(g) == [k \in 1..i |-> IF k = 1 THEN t[k] ELSE g[k - 1] \o t[k]]
           f == CHOOSE g : g = [k \in 1..Len(t) |-> IF k = 1 THEN t[k] ELSE g[k - 1] \o t[k]]
<1>1. Len(t) = i
  OBVIOUS
<1>2. FlattenSeq(t) = f[Len(t)]
  BY <1>1 DEF FlattenSeq
<1>3. \A g : eq(g) = [k \in 1..i |-> IF k = 1 THEN s[k] ELSE g[k - 1] \o s[k]]
  OBVIOUS
<1>4. \E g : g = eq(g)
  BY <1>3, JoinsExists DEF Joins
<1>5. f = eq(f)
  BY <1>1, <1>4
<1> QED BY <1>1, <1>2, <1>3, <1>5 DEF Joined, Joins

\* Nothing joined is the empty sequence.
LEMMA JoinedNone ==
    ASSUME NEW s
    PROVE  Joined(s, 0) = <<>>
<1>1. [j \in 1..0 |-> s[j]] = <<>>
  OBVIOUS
<1>2. FlattenSeq(<<>>) = <<>>
  BY DEF FlattenSeq
<1> QED BY <1>1, <1>2 DEF Joined

\* One more sequence goes to the end of those before it.
LEMMA JoinedMore ==
    ASSUME NEW s, NEW i \in Nat, NEW S, s[i + 1] \in Seq(S)
    PROVE  Joined(s, i + 1) = Joined(s, i) \o s[i + 1]
<1>1. PICK h : Joins(h, s, i + 1) /\ Joined(s, i + 1) = h[i + 1]
  BY JoinedByJoins
<1>2. h[i + 1] = IF i + 1 = 1 THEN s[i + 1] ELSE h[(i + 1) - 1] \o s[i + 1]
  <2>1. i + 1 \in 1..(i + 1)
    OBVIOUS
  <2> QED BY <1>1, <2>1 DEF Joins
<1>3. CASE i = 0
  <2>1. <<>> \o s[i + 1] = s[i + 1]
    BY EmptySeq, ConcatEmptySeq
  <2> QED BY <1>1, <1>2, <1>3, <2>1, JoinedNone
<1>4. CASE i # 0
  <2>1. PICK g : Joins(g, s, i) /\ Joined(s, i) = g[i]
    BY <1>4, JoinedByJoins
  <2>2. g[i] = h[i]
    BY <1>1, <1>4, <2>1, JoinsAgree
  <2>3. i + 1 # 1 /\ (i + 1) - 1 = i
    BY <1>4
  <2>4. h[i + 1] = h[i] \o s[i + 1]
    BY <1>2, <2>3
  <2> QED BY <1>1, <2>1, <2>2, <2>4
<1> QED BY <1>3, <1>4

\* Sequences over a set, joined, are a sequence over it.
LEMMA JoinedType ==
    ASSUME NEW S, NEW n \in Nat, NEW s, \A j \in 1..n : s[j] \in Seq(S)
    PROVE  \A i \in 0..n : Joined(s, i) \in Seq(S)
<1> DEFINE N == {i \in Nat : i \in 0..n => Joined(s, i) \in Seq(S)}
<1>1. 0 \in N
  <2>1. Joined(s, 0) \in Seq(S)
    BY JoinedNone, EmptySeq
  <2> QED BY <2>1
<1>2. ASSUME NEW i \in Nat, i \in N PROVE i + 1 \in N
  <2> SUFFICES ASSUME i + 1 \in 0..n PROVE Joined(s, i + 1) \in Seq(S)
    OBVIOUS
  <2>1. i \in 0..n /\ i + 1 \in 1..n
    OBVIOUS
  <2>2. Joined(s, i) \in Seq(S) /\ s[i + 1] \in Seq(S)
    BY <1>2, <2>1
  <2> QED BY <2>2, JoinedMore, ConcatProperties
<1> HIDE DEF N
<1>3. Nat \subseteq N
  BY <1>1, <1>2, Induction
<1> QED BY <1>3 DEF N

\* c begins with a.
Begins(c, a) == Len(a) <= Len(c) /\ \A p \in 1..Len(a) : c[p] = a[p]

\* However many sequences are joined to them, the first k are found where they
\* were.
LEMMA JoinedPlaces ==
    ASSUME NEW S, NEW n \in Nat, NEW s, \A j \in 1..n : s[j] \in Seq(S),
           NEW k \in 0..n
    PROVE  \A i \in k..n : Begins(Joined(s, i), Joined(s, k))
<1> DEFINE within(i) == Begins(Joined(s, i), Joined(s, k))
           N == {d \in Nat : k + d <= n => within(k + d)}
<1>1. 0 \in N
  BY JoinedType DEF Begins
<1>2. ASSUME NEW d \in Nat, d \in N PROVE d + 1 \in N
  <2> SUFFICES ASSUME k + (d + 1) <= n PROVE within(k + (d + 1))
    OBVIOUS
  <2> DEFINE a == Joined(s, k)
             b == Joined(s, k + d)
             c == s[(k + d) + 1]
  <2>1. within(k + d)
    BY <1>2
  <2>2. a \in Seq(S) /\ b \in Seq(S) /\ c \in Seq(S)
    <3>1. k + d \in 0..n /\ (k + d) + 1 \in 1..n /\ k \in 0..n
      OBVIOUS
    <3> QED BY <3>1, JoinedType
  <2>3. Joined(s, k + (d + 1)) = b \o c
    <3>1. k + (d + 1) = (k + d) + 1 /\ k + d \in Nat
      OBVIOUS
    <3> QED BY <2>2, <3>1, JoinedMore
  <2>4. Len(b \o c) = Len(b) + Len(c) /\ \A p \in 1..Len(b) : (b \o c)[p] = b[p]
    BY <2>2, ConcatProperties
  <2> HIDE DEF a, b, c
  <2>5. Len(a) \in Nat /\ Len(b) \in Nat /\ Len(c) \in Nat
    BY <2>2
  <2>6. Len(a) <= Len(b) /\ \A p \in 1..Len(a) : b[p] = a[p]
    BY <2>1 DEF a, b, Begins
  <2>7. Len(a) <= Len(b \o c) /\ \A p \in 1..Len(a) : (b \o c)[p] = a[p]
    BY <2>4, <2>5, <2>6
  <2> QED BY <2>3, <2>7 DEF a, Begins
<1> HIDE DEF N
<1>3. Nat \subseteq N
  BY <1>1, <1>2, Induction
<1> HIDE DEF within
<1>4. ASSUME NEW i \in k..n PROVE within(i)
  <2>1. i - k \in Nat /\ k + (i - k) = i /\ k + (i - k) <= n
    OBVIOUS
  <2> QED BY <1>3, <2>1 DEF N
<1> QED BY <1>4 DEF within

\* c is a with b behind it: where the elements of a and b are.
IsJoin(c, a, b) ==
    /\ Len(c) = Len(a) + Len(b)
    /\ \A i \in 1..Len(a) : c[i] = a[i]
    /\ \A i \in 1..Len(b) : c[Len(a) + i] = b[i]

LEMMA Appended ==
    ASSUME NEW S, NEW a \in Seq(S), NEW b \in Seq(S)
    PROVE  a \o b \in Seq(S) /\ IsJoin(a \o b, a, b)
<1>1. a \o b \in Seq(S) /\ Len(a \o b) = Len(a) + Len(b)
  BY ConcatProperties
<1>2. Len(a) \in Nat /\ Len(b) \in Nat
  OBVIOUS
<1>3. \A i \in 1..(Len(a) + Len(b)) :
         (a \o b)[i] = IF i <= Len(a) THEN a[i] ELSE b[i - Len(a)]
  BY ConcatProperties
<1>4. \A i \in 1..Len(a) : (a \o b)[i] = a[i]
  BY <1>2, <1>3
<1>5. ASSUME NEW i \in 1..Len(b) PROVE (a \o b)[Len(a) + i] = b[i]
  <2>1. /\ Len(a) + i \in 1..(Len(a) + Len(b)) /\ ~(Len(a) + i <= Len(a))
        /\ (Len(a) + i) - Len(a) = i
    BY <1>2
  <2> QED BY <1>3, <2>1
<1> QED BY <1>1, <1>4, <1>5 DEF IsJoin

(***************************************************************************)
(* The parts of an MC4E frame: 15 bytes and the data.                      *)
(***************************************************************************)
LEMMA RouteIsBytes ==
    DefaultRoute \in Seq(Byte) /\ Len(DefaultRoute) = 5 /\ DefaultRoute[1] = 0
<1>1. 0 \in Byte /\ 255 \in Byte /\ 3 \in Byte
  BY DEF Byte
<1>2. <<0, 255, 255, 3, 0>> \in Seq(Byte)
  BY <1>1
<1> QED BY <1>2 DEF DefaultRoute

LEMMA WordAtMost == MaxWord \in Nat /\ \A v : v \in Word16 <=> v \in Nat /\ v <= MaxWord
<1>1. MaxWord \in Nat
  BY DEF MaxWord
<1> QED BY <1>1 DEF Word16

LEMMA Word16Is == \A v : v \in Word16 <=> v \in Nat /\ v <= 65535
BY WordAtMost DEF MaxWord

\* A word survives its two bytes.
LEMMA WordBytesOf ==
    ASSUME NEW v \in Word16
    PROVE  /\ LowHigh(v) \in Seq(Byte) /\ Len(LowHigh(v)) = 2
           /\ HighLow(v) \in Seq(Byte) /\ Len(HighLow(v)) = 2
           /\ LowHigh(v)[1] + 256 * LowHigh(v)[2] = v
<1>1. v \in Nat /\ v <= 65535
  BY Word16Is
<1>2. v % 256 \in Byte /\ v \div 256 \in Byte
  BY <1>1 DEF Byte
<1>3. (v % 256) + 256 * (v \div 256) = v
  BY <1>1
<1> QED BY <1>2, <1>3 DEF LowHigh, HighLow

Header(sub, serial, len, last) ==
    sub \o LowHigh(serial) \o <<0, 0>> \o DefaultRoute \o LowHigh(len) \o last

IsHeader(h, sub, serial, len, last) ==
    /\ h[1] = sub[1] /\ h[2] = sub[2] /\ h[6] = 0
    /\ \A i \in 1..5 : h[6 + i] = DefaultRoute[i]
    /\ Word(h, 2) = serial /\ Word(h, 11) = len
    /\ Word(h, 13) = last[1] + 256 * last[2]

LEMMA HeaderParts ==
    ASSUME NEW sub \in Seq(Byte), Len(sub) = 2,
           NEW v \in Word16, NEW n \in Word16,
           NEW last \in Seq(Byte), Len(last) = 2
    PROVE  /\ Header(sub, v, n, last) \in Seq(Byte)
           /\ Len(Header(sub, v, n, last)) = 15
           /\ IsHeader(Header(sub, v, n, last), sub, v, n, last)
<1>1. PICK h1 : h1 = sub \o LowHigh(v)
  OBVIOUS
<1>2. PICK h2 : h2 = h1 \o <<0, 0>>
  OBVIOUS
<1>3. PICK h3 : h3 = h2 \o DefaultRoute
  OBVIOUS
<1>4. PICK h4 : h4 = h3 \o LowHigh(n)
  OBVIOUS
<1>5. PICK h5 : h5 = h4 \o last
  OBVIOUS
<1>6. h5 = Header(sub, v, n, last)
  BY <1>1, <1>2, <1>3, <1>4, <1>5 DEF Header
<1>11. h1 \in Seq(Byte) /\ IsJoin(h1, sub, LowHigh(v))
  BY <1>1, WordBytesOf, Appended
<1>12. h2 \in Seq(Byte) /\ IsJoin(h2, h1, <<0, 0>>)
  <2>1. <<0, 0>> \in Seq(Byte)
    BY DEF Byte
  <2> QED BY <1>2, <1>11, <2>1, Appended
<1>13. h3 \in Seq(Byte) /\ IsJoin(h3, h2, DefaultRoute)
  BY <1>3, <1>12, RouteIsBytes, Appended
<1>14. h4 \in Seq(Byte) /\ IsJoin(h4, h3, LowHigh(n))
  BY <1>4, <1>13, WordBytesOf, Appended
<1>15. h5 \in Seq(Byte) /\ IsJoin(h5, h4, last)
  BY <1>5, <1>14, Appended
<1>21. /\ Len(h1) = 4 /\ h1[1] = sub[1] /\ h1[2] = sub[2]
       /\ h1[3] = LowHigh(v)[1] /\ h1[4] = LowHigh(v)[2]
  <2>1. /\ Len(h1) = 4 /\ \A i \in 1..2 : h1[i] = sub[i]
        /\ \A i \in 1..2 : h1[2 + i] = LowHigh(v)[i]
    <3>1. Len(LowHigh(v)) = 2
      BY WordBytesOf
    <3> QED BY <1>11, <3>1 DEF IsJoin
  <2>2. 1 \in 1..2 /\ 2 \in 1..2
    OBVIOUS
  <2> QED BY <2>1, <2>2
<1>22. Len(h2) = 6 /\ h2[6] = 0 /\ \A i \in 1..4 : h2[i] = h1[i]
  <2>1. Len(<<0, 0>>) = 2 /\ <<0, 0>>[2] = 0
    OBVIOUS
  <2>2. /\ Len(h2) = 6 /\ \A i \in 1..4 : h2[i] = h1[i]
        /\ \A i \in 1..2 : h2[4 + i] = <<0, 0>>[i]
    BY <1>12, <1>21, <2>1 DEF IsJoin
  <2>3. 2 \in 1..2
    OBVIOUS
  <2> QED BY <2>1, <2>2, <2>3
<1>23. /\ Len(h3) = 11 /\ \A i \in 1..6 : h3[i] = h2[i]
       /\ \A i \in 1..5 : h3[6 + i] = DefaultRoute[i]
  BY <1>13, <1>22, RouteIsBytes DEF IsJoin
<1>24. /\ Len(h4) = 13 /\ \A i \in 1..11 : h4[i] = h3[i]
       /\ h4[12] = LowHigh(n)[1] /\ h4[13] = LowHigh(n)[2]
  <2>1. /\ Len(h4) = 13 /\ \A i \in 1..11 : h4[i] = h3[i]
        /\ \A i \in 1..2 : h4[11 + i] = LowHigh(n)[i]
    <3>1. Len(LowHigh(n)) = 2
      BY WordBytesOf
    <3> QED BY <1>14, <1>23, <3>1 DEF IsJoin
  <2>2. 1 \in 1..2 /\ 2 \in 1..2
    OBVIOUS
  <2> QED BY <2>1, <2>2
<1>25. /\ Len(h5) = 15 /\ \A i \in 1..13 : h5[i] = h4[i]
       /\ h5[14] = last[1] /\ h5[15] = last[2]
  <2>1. /\ Len(h5) = 15 /\ \A i \in 1..13 : h5[i] = h4[i]
        /\ \A i \in 1..2 : h5[13 + i] = last[i]
    BY <1>15, <1>24 DEF IsJoin
  <2>2. 1 \in 1..2 /\ 2 \in 1..2
    OBVIOUS
  <2> QED BY <2>1, <2>2
<1>31. /\ h5[1] = sub[1] /\ h5[2] = sub[2] /\ h5[6] = 0
       /\ h5[3] = LowHigh(v)[1] /\ h5[4] = LowHigh(v)[2]
       /\ h5[12] = LowHigh(n)[1] /\ h5[13] = LowHigh(n)[2]
  BY <1>21, <1>22, <1>23, <1>24, <1>25
<1>32. \A i \in 1..5 : h5[6 + i] = DefaultRoute[i]
  <2> SUFFICES ASSUME NEW i \in 1..5 PROVE h5[6 + i] = DefaultRoute[i]
    OBVIOUS
  <2>1. 6 + i \in 1..11 /\ 6 + i \in 1..13
    OBVIOUS
  <2> QED BY <1>23, <1>24, <1>25, <2>1
<1>33. /\ Word(h5, 2) = v /\ Word(h5, 11) = n
       /\ Word(h5, 13) = last[1] + 256 * last[2]
  <2>1. /\ Word(h5, 2) = h5[3] + 256 * h5[4]
        /\ Word(h5, 11) = h5[12] + 256 * h5[13]
        /\ Word(h5, 13) = h5[14] + 256 * h5[15]
    BY DEF Word
  <2> QED BY <1>25, <1>31, <2>1, WordBytesOf
<1> QED BY <1>6, <1>15, <1>25, <1>31, <1>32, <1>33 DEF IsHeader

\* A piece of a sequence that has the elements of another one is that one.
LEMMA PieceIs ==
    ASSUME NEW S, NEW f \in Seq(S), NEW p \in Seq(S), NEW m \in Nat \ {0},
           NEW n \in Nat, n <= Len(f), n = Len(p) + (m - 1),
           \A i \in 1..Len(p) : f[(m - 1) + i] = p[i]
    PROVE  SubSeq(f, m, n) = p
<1>1. \A i \in m..n : f[i] \in S
  BY ElementOfSeq
<1>2. /\ SubSeq(f, m, n) \in Seq(S)
      /\ Len(SubSeq(f, m, n)) = IF m <= n THEN n - m + 1 ELSE 0
      /\ \A i \in 1..(n - m + 1) : SubSeq(f, m, n)[i] = f[m + i - 1]
  BY SMTT(20), <1>1, SubSeqProperties
<1>3. Len(p) \in Nat
  OBVIOUS
<1>4. Len(SubSeq(f, m, n)) = Len(p)
  BY <1>2, <1>3
<1>5. ASSUME NEW i \in 1..Len(p) PROVE SubSeq(f, m, n)[i] = p[i]
  <2>1. i \in 1..(n - m + 1) /\ m + i - 1 = (m - 1) + i
    BY <1>3
  <2> QED BY <1>2, <2>1
<1> QED BY <1>2, <1>4, <1>5, SeqEqual

\* The data may be any sequence, so that this holds of a frame before its data
\* are known to be bytes.
LEMMA FrameParts ==
    ASSUME NEW sub \in Seq(Byte), Len(sub) = 2,
           NEW v \in Word16, NEW n \in Word16,
           NEW last \in Seq(Byte), Len(last) = 2,
           NEW f, NEW data, Len(data) \in Nat,
           IsJoin(f, Header(sub, v, n, last), data)
    PROVE  /\ Len(f) = 15 + Len(data)
           /\ IsHeader(f, sub, v, n, last)
           /\ \A i \in 1..Len(data) : f[15 + i] = data[i]
<1> DEFINE h == Header(sub, v, n, last)
<1>1. h \in Seq(Byte) /\ Len(h) = 15 /\ IsHeader(h, sub, v, n, last)
  BY HeaderParts
<1>2. IsJoin(f, h, data)
  OBVIOUS
<1> HIDE DEF h
<1>3. /\ Len(f) = 15 + Len(data)
      /\ \A i \in 1..15 : f[i] = h[i]
      /\ \A i \in 1..Len(data) : f[15 + i] = data[i]
  BY <1>1, <1>2 DEF IsJoin
<1>4. IsHeader(f, sub, v, n, last)
  <2>1. \A i \in 1..5 : f[6 + i] = h[6 + i]
    <3> SUFFICES ASSUME NEW i \in 1..5 PROVE f[6 + i] = h[6 + i]
      OBVIOUS
    <3>1. 6 + i \in 1..15
      OBVIOUS
    <3> QED BY <1>3, <3>1
  <2>2. /\ f[1] = h[1] /\ f[2] = h[2] /\ f[6] = h[6]
        /\ f[3] = h[3] /\ f[4] = h[4] /\ f[12] = h[12] /\ f[13] = h[13]
        /\ f[14] = h[14] /\ f[15] = h[15]
    BY <1>3
  <2>3. Word(f, 2) = Word(h, 2) /\ Word(f, 11) = Word(h, 11)
        /\ Word(f, 13) = Word(h, 13)
    BY <2>2 DEF Word
  <2> QED BY <1>1, <2>1, <2>2, <2>3 DEF IsHeader
<1> QED BY <1>3, <1>4

\* The transports read from a frame the serial that was put in it.
LEMMA FrameSerial ==
    ASSUME NEW sub \in Seq(Byte), Len(sub) = 2,
           NEW v \in Word16, NEW n \in Word16,
           NEW last \in Seq(Byte), Len(last) = 2, NEW data \in Seq(Byte)
    PROVE  ExpectedSerial(Header(sub, v, n, last) \o data) = v
<1>1. PICK f : f = Header(sub, v, n, last) \o data
  OBVIOUS
<1>2. Header(sub, v, n, last) \in Seq(Byte)
  BY HeaderParts
<1>3. IsJoin(f, Header(sub, v, n, last), data) /\ Len(data) \in Nat
  BY <1>1, <1>2, Appended
<1>4. Len(f) = 15 + Len(data) /\ IsHeader(f, sub, v, n, last)
  BY <1>3, FrameParts
<1>5. ExpectedSerial(f) = v
  BY <1>3, <1>4 DEF ExpectedSerial, IsHeader
<1> QED BY <1>1, <1>5

\* The subheader and the route, cut out of a frame.
LEMMA HeaderSlices ==
    ASSUME NEW S, NEW f \in Seq(S), Len(f) >= 15,
           NEW sub \in Seq(S), Len(sub) = 2, DefaultRoute \in Seq(S),
           NEW v, NEW n, NEW last, IsHeader(f, sub, v, n, last)
    PROVE  SubSeq(f, 1, 2) = sub /\ SubSeq(f, 7, 11) = DefaultRoute
<1>1. SubSeq(f, 1, 2) = sub
  <2>1. ASSUME NEW i \in 1..2 PROVE f[(1 - 1) + i] = sub[i]
    <3>1. (1 - 1) + i = i /\ i \in {1, 2}
      OBVIOUS
    <3> QED BY <3>1 DEF IsHeader
  <2>2. 2 = Len(sub) + (1 - 1) /\ 2 <= Len(f)
    OBVIOUS
  <2> QED BY <2>1, <2>2, PieceIs
<1>2. SubSeq(f, 7, 11) = DefaultRoute
  <2>1. ASSUME NEW i \in 1..5 PROVE f[(7 - 1) + i] = DefaultRoute[i]
    <3>1. (7 - 1) + i = 6 + i
      OBVIOUS
    <3> QED BY <3>1 DEF IsHeader
  <2>2. Len(DefaultRoute) = 5
    BY RouteIsBytes
  <2>3. 11 = Len(DefaultRoute) + (7 - 1) /\ 11 <= Len(f)
    BY <2>2
  <2> QED BY <2>1, <2>2, <2>3, PieceIs
<1> QED BY <1>1, <1>2

\* The data, cut out of a frame.
LEMMA DataSlice ==
    ASSUME NEW S, NEW f \in Seq(S), NEW data \in Seq(S),
           Len(f) = 15 + Len(data),
           \A i \in 1..Len(data) : f[15 + i] = data[i]
    PROVE  SubSeq(f, 16, Len(f)) = data
<1>1. ASSUME NEW i \in 1..Len(data) PROVE f[(16 - 1) + i] = data[i]
  <2>1. (16 - 1) + i = 15 + i
    OBVIOUS
  <2> QED BY <2>1
<1>2. Len(f) = Len(data) + (16 - 1) /\ Len(f) \in Nat
  OBVIOUS
<1> QED BY <1>1, <1>2, PieceIs
====
