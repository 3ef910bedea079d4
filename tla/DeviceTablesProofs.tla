------------------------- MODULE DeviceTablesProofs -------------------------
(***************************************************************************)
(* What a device text means: the two tables are made from one list, the    *)
(* device that is checked is the one that was named, every task reads a    *)
(* text alike, and the reading is the only one the text has.               *)
(***************************************************************************)
EXTENDS DeviceTables, SequenceTheorems, TLAPS, WellFoundedInduction,
        NaturalsInduction

(***************************************************************************)
(* Numbers.                                                                *)
(***************************************************************************)
\* Among some numbers there is a least one.
LEMMA LeastNumber ==
    ASSUME NEW T, T \subseteq Nat, T # {}
    PROVE  \E x \in T : \A y \in T : x <= y
<1> DEFINE R == {ss \in Nat \X Nat : ss[1] < ss[2]}
<1>1. OpToRel(<, Nat) = R
  BY Zenon DEF OpToRel
<1>2. IsWellFoundedOn(OpToRel(<, Nat), Nat)
  BY Zenon, NatLessThanWellFounded
<1>3. IsWellFoundedOn(R, Nat)
  BY Zenon, <1>1, <1>2
<1>4. PICK x \in T : \A y \in T : <<y, x>> \notin R
  <2> HIDE DEF R
  <2> QED BY Zenon, <1>3, WFMin
<1>5. ASSUME NEW y \in T PROVE x <= y
  <2>1. y \in Nat /\ x \in Nat /\ <<y, x>> \in Nat \X Nat
    OBVIOUS
  <2>2. ~(y < x)
    BY <1>4, <2>1
  <2> QED BY <2>1, <2>2
<1> QED BY <1>5

\* What is true of 0 and passed on is true of every number.
LEMMA Induction ==
    ASSUME NEW S, 0 \in S, \A n \in Nat : n \in S => n + 1 \in S
    PROVE  Nat \subseteq S
<1> SUFFICES ASSUME Nat \ S # {} PROVE FALSE
  OBVIOUS
<1>1. PICK x \in Nat \ S : \A y \in Nat \ S : x <= y
  BY LeastNumber
<1>2. x - 1 \in Nat /\ x - 1 \notin Nat \ S
  BY <1>1
<1>3. (x - 1) + 1 \in S
  BY <1>2
<1> QED BY <1>1, <1>3

\* A place from 1 on has a place before it.
LEMMA OneBefore == \A n \in Nat : \A k \in 1..n : k - 1 \in 0..n
OBVIOUS

\* Steps from one number to the next can be taken one after the other.
Iterates(g, first, step, n) ==
    /\ g \in [0..n -> Nat]
    /\ g[0] = first
    /\ \A k \in 1..n : g[k] = step[k][g[k - 1]]

\* For any steps there is such a function.
LEMMA IteratesExists ==
    ASSUME NEW n \in Nat, NEW first \in Nat, NEW step \in [1..n -> [Nat -> Nat]]
    PROVE  \E g : Iterates(g, first, step, n)
<1> DEFINE N == {i \in Nat : i <= n => \E g : Iterates(g, first, step, i)}
<1>1. 0 \in N
  <2> DEFINE g == [k \in 0..0 |-> first]
  <2>1. Iterates(g, first, step, 0)
    BY DEF Iterates
  <2> QED BY <2>1
<1>2. ASSUME NEW i \in Nat, i \in N PROVE i + 1 \in N
  <2> SUFFICES ASSUME i + 1 <= n
               PROVE  \E g : Iterates(g, first, step, i + 1)
    OBVIOUS
  <2>0. i <= n /\ i + 1 \in 1..n
    OBVIOUS
  <2>1. PICK g : Iterates(g, first, step, i)
    BY <1>2, <2>0
  <2> DEFINE h == [k \in 0..(i + 1) |-> IF k <= i THEN g[k] ELSE step[i + 1][g[i]]]
  <2>2. step[i + 1] \in [Nat -> Nat]
    BY <2>0
  <2>3. g \in [0..i -> Nat] /\ g[0] = first
        /\ \A k \in 1..i : g[k] = step[k][g[k - 1]]
    BY <2>1 DEF Iterates
  <2>4. g[i] \in Nat
    BY <2>3
  <2>5. h \in [0..(i + 1) -> Nat] /\ h[0] = first
    <3>1. ASSUME NEW k \in 0..(i + 1) PROVE h[k] \in Nat
      <4>1. CASE k <= i
        <5>1. k \in 0..i
          BY <4>1
        <5> QED BY <2>3, <4>1, <5>1
      <4>2. CASE ~(k <= i)
        BY <2>2, <2>4, <4>2
      <4> QED BY <4>1, <4>2
    <3>2. h[0] = first
      BY <2>3
    <3>3. h = [k \in 0..(i + 1) |-> h[k]]
      OBVIOUS
    <3> HIDE DEF h
    <3> QED BY <3>1, <3>2, <3>3
  <2>6. ASSUME NEW k \in 1..(i + 1) PROVE h[k] = step[k][h[k - 1]]
    <3>1. k - 1 \in 0..i /\ k - 1 \in 0..(i + 1) /\ k \in 0..(i + 1)
      OBVIOUS
    <3>2. h[k - 1] = g[k - 1]
      BY <3>1
    <3>3. CASE k <= i
      <4>1. k \in 1..i
        BY <3>3
      <4> QED BY <2>3, <3>1, <3>2, <3>3, <4>1
    <3>4. CASE ~(k <= i)
      <4>1. k = i + 1 /\ k - 1 = i
        BY <3>4
      <4> QED BY <3>1, <3>2, <3>4, <4>1
    <3> QED BY <3>3, <3>4
  <2> HIDE DEF h
  <2> QED BY <2>5, <2>6 DEF Iterates
<1> HIDE DEF N
<1>3. Nat \subseteq N
  BY <1>1, <1>2, Induction
<1>4. n \in N
  BY <1>3
<1> QED BY <1>4 DEF N

\* Numbers that are each the step from the one before are those of the steps.
\* What is defined by recursion over the steps is that function.
LEMMA IteratesIs ==
    ASSUME NEW n \in Nat, NEW first \in Nat, NEW step \in [1..n -> [Nat -> Nat]],
           NEW f, f = [k \in 0..n |-> f[k]], f[0] = first,
           \A k \in 1..n : f[k - 1] \in Nat => f[k] = step[k][f[k - 1]]
    PROVE  Iterates(f, first, step, n)
<1> DEFINE N == {i \in Nat : i <= n => f[i] \in Nat}
<1>5. 0 \in N
  OBVIOUS
<1>6. ASSUME NEW i \in Nat, i \in N PROVE i + 1 \in N
  <2> SUFFICES ASSUME i + 1 <= n PROVE f[i + 1] \in Nat
    OBVIOUS
  <2>1. f[i] \in Nat /\ i + 1 \in 1..n /\ (i + 1) - 1 = i
    BY SMTT(20), <1>6
  <2>2. f[i + 1] = step[i + 1][f[i]]
    BY <2>1
  <2>3. step[i + 1] \in [Nat -> Nat]
    BY <2>1
  <2> QED BY <2>1, <2>2, <2>3
<1> HIDE DEF N
<1>7. Nat \subseteq N
  BY <1>5, <1>6, Induction
<1>8. \A k \in 0..n : f[k] \in Nat
  <2> TAKE k \in 0..n
  <2>1. k \in N
    BY <1>7
  <2> QED BY <2>1 DEF N
<1>9. f \in [0..n -> Nat]
  BY <1>8
<1>10. ASSUME NEW k \in 1..n PROVE f[k] = step[k][f[k - 1]]
  <2>1. k - 1 \in 0..n
    BY OneBefore
  <2> QED BY <1>8, <2>1
<1> QED BY <1>9, <1>10 DEF Iterates

\* Of a bounded set of numbers there is a last one, and it is the maximum.
LEMMA MaxIs ==
    ASSUME NEW n \in Nat, NEW S \in SUBSET (0..n), S # {}
    PROVE  Max(S) \in S /\ \A j \in S : j <= Max(S)
<1> DEFINE T == {n - i : i \in S}
<1>1. T \in SUBSET Nat /\ T # {}
  <2>1. \A i \in S : n - i \in Nat
    OBVIOUS
  <2>2. PICK i \in S : TRUE
    OBVIOUS
  <2>3. n - i \in T
    OBVIOUS
  <2> QED BY <2>1, <2>3
<1>2. PICK x \in T : \A y \in T : x <= y
  <2> HIDE DEF T
  <2> QED BY <1>1, LeastNumber
<1>3. PICK i \in S : x = n - i
  OBVIOUS
<1>4. \A j \in S : i >= j
  <2> TAKE j \in S
  <2>1. n - j \in T
    OBVIOUS
  <2>2. n - i <= n - j
    BY <1>2, <1>3, <2>1
  <2> QED BY <2>2
<1>5. \E y \in S : \A j \in S : y >= j
  BY <1>4
<1>6. Max(S) \in S /\ \A j \in S : Max(S) >= j
  <2> HIDE DEF T
  <2> QED BY <1>5 DEF Max
<1> QED BY <1>6

\* The minimum of some numbers.
LEMMA MinIs ==
    ASSUME NEW S \in SUBSET Nat, S # {}
    PROVE  Min(S) \in S /\ \A j \in S : Min(S) <= j
<1>1. \E x \in S : \A y \in S : x <= y
  BY LeastNumber
<1> QED BY <1>1 DEF Min

(***************************************************************************)
(* Names and codes.                                                        *)
(***************************************************************************)
\* Whatever order the hash map has, the name of a code has that code.
LEMMA NameHasCode ==
    ASSUME NEW nm \in NamesByCode, NEW c \in EmbeddedCodes
    PROVE  nm[c] \in EmbeddedSymbols /\ CodeByName[nm[c]] = c
<1>1. PICK kept \in SUBSET EmbeddedSymbols :
          /\ \A d \in EmbeddedCodes :
                 \E s \in kept : {r \in kept : CodeByName[r] = d} = {s}
          /\ nm = [d \in EmbeddedCodes |->
                       CHOOSE s \in kept : CodeByName[s] = d]
  BY Zenon DEF NamesByCode
<1>2. nm[c] = CHOOSE s \in kept : CodeByName[s] = c
  BY <1>1
<1>3. \E s \in kept : CodeByName[s] = c
  BY <1>1
<1> QED BY <1>1, <1>2, <1>3

\* A list of devices, as parse_devices_toml returns it.
IsList(list) ==
    \E n \in Nat :
        /\ DOMAIN list = 1..n
        /\ \A i \in 1..n : list[i].code \in EmbeddedCodes

\* What parse_devices_toml returns is a list of devices with known codes.
LEMMA ParsedIsList ==
    ASSUME NEW entries, NEW n \in Nat, DOMAIN entries = 1..n,
           ParseDevices(entries) # Failed
    PROVE  IsList(ParseDevices(entries))
<1>1. /\ \A i \in 1..n : Acceptable(entries[i])
      /\ ParseDevices(entries) = [i \in 1..n |-> DeviceOfEntry(entries[i])]
  BY DEF ParseDevices
<1>2. \A i \in 1..n : ParseDevices(entries)[i].code \in EmbeddedCodes
  BY SMTT(20), <1>1 DEF DeviceOfEntry, Acceptable
<1> QED BY <1>1, <1>2 DEF IsList

\* The device found by its symbol is found again by its code: both tables keep
\* the last device of the list with that code.
LEMMA FoundByCode ==
    ASSUME NEW nm \in NamesByCode, NEW list, IsList(list), NEW sym,
           BySymbol(list, nm, sym) # Failed
    PROVE  ByCode(list, BySymbol(list, nm, sym).code) = BySymbol(list, nm, sym)
<1> DEFINE S == {i \in DOMAIN list : nm[list[i].code] = sym}
           d == BySymbol(list, nm, sym)
           C == {i \in DOMAIN list : list[i].code = d.code}
<1>1. PICK n \in Nat : DOMAIN list = 1..n
                       /\ \A i \in 1..n : list[i].code \in EmbeddedCodes
  BY DEF IsList
<1>2. sym \in SymbolsOf(list, nm) /\ d = list[Max(S)]
  BY DEF BySymbol
<1>3. S # {}
  BY <1>2 DEF SymbolsOf
<1>4. Max(S) \in S
  <2>1. S \in SUBSET (0..n)
    BY <1>1
  <2> HIDE DEF S
  <2> QED BY <1>3, <2>1, MaxIs
<1>5. S = C
  <2>1. d.code \in EmbeddedCodes /\ nm[d.code] = sym
    BY <1>1, <1>2, <1>4
  <2>2. ASSUME NEW i \in 1..n, nm[list[i].code] = sym
        PROVE  list[i].code = d.code
    BY <1>1, <2>1, <2>2, NameHasCode
  <2> QED BY <1>1, <2>1, <2>2
<1>6. \E i \in DOMAIN list : list[i].code = d.code
  BY <1>4, <1>5
<1>7. ByCode(list, d.code) = list[Max(C)]
  BY <1>6 DEF ByCode
<1> QED BY <1>2, <1>5, <1>7

\* The names of the lists are no two alike.
LEMMA DistinctNames ==
    /\ None \notin Good /\ None # "compiled" /\ "absent" \notin Good
    /\ "compiled" \notin Good
BY DeviceAssumption DEF Good

\* Every list that a table is made from is a list of devices with known codes.
LEMMA ListsAreLists ==
    ASSUME NEW l \in Lists
    PROVE  IsList(DevicesOf(l))
<1>1. CASE l \in Good
  <2>1. DevicesOf(l) = ParseDevices(Files[l])
    BY <1>1, DistinctNames DEF DevicesOf
  <2>2. /\ l \in DOMAIN Files /\ ParseDevices(Files[l]) # Failed
        /\ Len(Files[l]) \in Nat /\ DOMAIN Files[l] = 1..Len(Files[l])
    BY <1>1, DeviceAssumption DEF Good
  <2> QED BY <2>1, <2>2, ParsedIsList
<1>2. CASE l = "compiled" /\ ParseDevices(Embedded) # Failed
  <2>1. DevicesOf(l) = ParseDevices(Embedded)
    BY <1>2 DEF DevicesOf, CompiledDevices
  <2>2. Len(Embedded) \in Nat /\ DOMAIN Embedded = 1..Len(Embedded)
    BY DeviceAssumption
  <2> QED BY <1>2, <2>1, <2>2, ParsedIsList
<1>3. CASE l = "compiled" /\ ParseDevices(Embedded) = Failed
  <2>1. DevicesOf(l) = << >>
    BY <1>3 DEF DevicesOf, CompiledDevices
  <2> QED BY <2>1 DEF IsList
<1> QED BY <1>1, <1>2, <1>3 DEF Lists

(***************************************************************************)
(* Characters.                                                             *)
(***************************************************************************)
\* Both alphabets have 26 letters.
LEMMA Alphabets == DOMAIN Capitals = 1..26 /\ DOMAIN Smalls = 1..26
BY SMT DEF Capitals, Smalls

\* No letter is a blank or a plus.
LEMMA BlankIsNoLetter == \A c : IsLetter(c) => c # Blank /\ c # Plus
<1> DEFINE Set == {"A", "B", "C", "D", "E", "F", "G", "H", "I", "J", "K", "L", "M",
              "N", "O", "P", "Q", "R", "S", "T", "U", "V", "W", "X", "Y", "Z",
              "a", "b", "c", "d", "e", "f", "g", "h", "i", "j", "k", "l", "m",
            "n", "o", "p", "q", "r", "s", "t", "u", "v", "w", "x", "y", "z"}
<1>1. \A i \in 1..26 : Capitals[i] \in Set
  BY SMT DEF Capitals
<1>2. \A i \in 1..26 : Smalls[i] \in Set
  BY SMT DEF Smalls
<1>3. \A c : IsLetter(c) => c \in Set
  <2> HIDE DEF Set
  <2> QED BY <1>1, <1>2, Alphabets DEF IsLetter, ToSet
<1>4. Blank \notin Set /\ Plus \notin Set
  BY ZenonT(50) DEF Blank, Plus
<1> HIDE DEF Set
<1> QED BY <1>3, <1>4, Zenon

\* The capital of a letter is a capital, and only letters have one.
LEMMA CapitalOfLetter ==
    \A c : IsLetter(c) <=> Capital(c) \in ToSet(Capitals)
<1> TAKE c
<1>1. CASE c \in ToSet(Smalls)
  <2>1. PICK i \in 1..26 : Smalls[i] = c
    BY <1>1, Alphabets DEF ToSet
  <2>2. (CHOOSE j \in 1..26 : Smalls[j] = c) \in 1..26
    BY <2>1
  <2> QED BY <1>1, <2>2, Alphabets DEF IsLetter, Capital, ToSet
<1>2. CASE c \notin ToSet(Smalls)
  BY <1>2 DEF IsLetter, Capital
<1> QED BY <1>1, <1>2

\* A capital is a digit in the base sixteen only.
LEMMA LetterDigits ==
    \A base : \A c \in ToSet(Capitals) \cap DigitsOf(base) :
        base = "Hexadecimal" /\ c \in HexLetters
<1>1. \A i \in 1..10 : \A j \in 1..26 : HexDigits[i] # Capitals[j]
  <2>1. \A i \in 1..10 : HexDigits[i] \in {"0", "1", "2", "3", "4", "5", "6", "7", "8", "9"}
    BY SMT DEF HexDigits
  <2>2. \A j \in 1..26 : Capitals[j] \notin {"0", "1", "2", "3", "4", "5", "6", "7", "8", "9"}
    BY SMT DEF Capitals
  <2> QED BY <2>1, <2>2
<1> TAKE base
<1> TAKE c \in ToSet(Capitals) \cap DigitsOf(base)
<1>2. PICK j \in 1..26 : c = Capitals[j]
  BY Alphabets DEF ToSet
<1>3. PICK i \in 1..Radix(base) : c = HexDigits[i]
  BY DEF DigitsOf
<1>4. i \notin 1..10
  BY <1>1, <1>2, <1>3
<1> QED BY <1>3, <1>4 DEF Radix, HexLetters

\* Digits have values.
LEMMA DigitValues ==
    \A base : Radix(base) \in Nat /\ \A c : Capital(c) \in DigitsOf(base) => DigitValue(c) \in Nat
<1> TAKE base
<1>1. Radix(base) \in 1..16
  BY DEF Radix
<1>2. ASSUME NEW c, Capital(c) \in DigitsOf(base) PROVE DigitValue(c) \in Nat
  <2>1. PICK i \in 1..16 : HexDigits[i] = Capital(c)
    BY <1>1, <1>2 DEF DigitsOf
  <2>2. (CHOOSE j \in 1..16 : HexDigits[j] = Capital(c)) \in 1..16
    BY <2>1
  <2>3. PICK v : v = CHOOSE j \in 1..16 : HexDigits[j] = Capital(c)
    OBVIOUS
  <2>4. v \in 1..16 /\ DigitValue(c) = v - 1
    BY <2>2, <2>3 DEF DigitValue
  <2> QED BY <2>4
<1> QED BY <1>1, <1>2

(***************************************************************************)
(* Texts.                                                                  *)
(***************************************************************************)
\* A part of a text.
LEMMA PartOf ==
    ASSUME NEW x \in Seq(STRING), NEW a \in 1..(Len(x) + 1), NEW b \in 0..Len(x)
    PROVE  /\ SubSeq(x, a, b) \in Seq(STRING)
           /\ a <= b + 1 => Len(SubSeq(x, a, b)) = b - a + 1
           /\ \A i \in 1..(b - a + 1) : SubSeq(x, a, b)[i] = x[a + i - 1]
           /\ b < a => SubSeq(x, a, b) = << >>
<1>1. \A i \in a..b : x[i] \in STRING
  OBVIOUS
<1>2. a \in Int /\ b \in Int
  OBVIOUS
<1>3. /\ SubSeq(x, a, b) \in Seq(STRING)
      /\ Len(SubSeq(x, a, b)) = IF a <= b THEN b - a + 1 ELSE 0
      /\ \A i \in 1..(b - a + 1) : SubSeq(x, a, b)[i] = x[a + i - 1]
  BY SMTT(20), <1>1, <1>2, SubSeqProperties
<1>4. b < a => SubSeq(x, a, b) = << >>
  BY <1>2, SubSeqEmpty
<1> QED BY <1>2, <1>3, <1>4

\* What is left of a text without the blanks at its ends.
LEMMA TrimIs ==
    ASSUME NEW x \in Seq(STRING)
    PROVE  /\ Trim(x) \in Seq(STRING)
           /\ \A i \in 1..Len(Trim(x)) : \E j \in 1..Len(x) : Trim(x)[i] = x[j]
           /\ \A m \in 1..Len(x) : (\A i \in 1..m : x[i] # Blank) =>
                  m <= Len(Trim(x)) /\ \A i \in 1..m : Trim(x)[i] = x[i]
<1> DEFINE inked == {i \in DOMAIN x : x[i] # Blank}
<1>1. DOMAIN x = 1..Len(x) /\ Len(x) \in Nat
  OBVIOUS
<1>2. CASE inked = {}
  <2>1. Trim(x) = << >>
    BY <1>2 DEF Trim
  <2>2. \A m \in 1..Len(x) : ~ \A i \in 1..m : x[i] # Blank
    BY <1>1, <1>2
  <2> QED BY <2>1, <2>2
<1>3. CASE inked # {}
  <2> DEFINE a == Min(inked)
             b == Max(inked)
  <2>1. inked \in SUBSET (0..Len(x)) /\ inked \in SUBSET Nat
    BY <1>1
  <2>2. /\ a \in inked /\ \A j \in inked : a <= j
        /\ b \in inked /\ \A j \in inked : j <= b
    <3> HIDE DEF inked
    <3> QED BY <1>1, <1>3, <2>1, MaxIs, MinIs
  <2>3. Trim(x) = SubSeq(x, a, b)
    BY <1>3 DEF Trim
  <2>4. a \in 1..Len(x) /\ b \in 1..Len(x) /\ a <= b
    BY <1>1, <2>2
  <2> HIDE DEF a, b
  <2>5. /\ Trim(x) \in Seq(STRING) /\ Len(Trim(x)) = b - a + 1
        /\ \A i \in 1..(b - a + 1) : Trim(x)[i] = x[a + i - 1]
    <3>1. a \in 1..(Len(x) + 1) /\ b \in 0..Len(x) /\ a <= b + 1
      BY <1>1, <2>4
    <3> HIDE DEF inked
    <3> QED BY <2>3, <3>1, PartOf
  <2>6. ASSUME NEW i \in 1..Len(Trim(x))
        PROVE  \E j \in 1..Len(x) : Trim(x)[i] = x[j]
    <3>1. a + i - 1 \in 1..Len(x) /\ i \in 1..(b - a + 1)
      BY <1>1, <2>4, <2>5
    <3> QED BY <2>5, <3>1
  <2>7. ASSUME NEW m \in 1..Len(x), \A i \in 1..m : x[i] # Blank
        PROVE  m <= Len(Trim(x)) /\ \A i \in 1..m : Trim(x)[i] = x[i]
    <3>1. 1 \in inked /\ m \in inked
      BY <1>1, <2>7
    <3>2. a = 1 /\ m <= b
      BY <2>2, <2>4, <3>1
    <3>3. \A i \in 1..m : a + i - 1 = i /\ i \in 1..(b - a + 1)
      BY <2>4, <3>2
    <3> QED BY <2>4, <2>5, <3>2, <3>3
  <2> QED BY <2>5, <2>6, <2>7
<1> QED BY <1>2, <1>3

\* The symbol is all letters at the beginning.
LEMMA SymbolLenIs ==
    ASSUME NEW s \in Seq(STRING)
    PROVE  /\ SymbolLen(s) \in 0..Len(s)
           /\ \A i \in 1..SymbolLen(s) : IsLetter(s[i])
           /\ SymbolLen(s) < Len(s) => ~IsLetter(s[SymbolLen(s) + 1])
<1> DEFINE S == {n \in 0..Len(s) : \A i \in 1..n : IsLetter(s[i])}
<1>1. S \in SUBSET (0..Len(s)) /\ 0 \in S /\ Len(s) \in Nat
  OBVIOUS
<1>2. SymbolLen(s) = Max(S)
  BY DEF SymbolLen
<1>3. SymbolLen(s) \in S /\ \A j \in S : j <= SymbolLen(s)
  <2> HIDE DEF S
  <2> QED BY <1>1, <1>2, MaxIs
<1>4. ASSUME SymbolLen(s) < Len(s), IsLetter(s[SymbolLen(s) + 1]) PROVE FALSE
  <2>1. SymbolLen(s) \in 0..Len(s) /\ SymbolLen(s) + 1 \in 0..Len(s)
    BY <1>3, <1>4
  <2>2. SymbolLen(s) + 1 \in S
    BY <1>3, <1>4, <2>1
  <2> QED BY <1>3, <2>1, <2>2
<1> QED BY <1>3, <1>4

(***************************************************************************)
(* Addresses.                                                              *)
(***************************************************************************)
Radixes == {10, 16}
\* A base is ten or sixteen.
LEMMA RadixIs == \A base : Radix(base) \in Radixes
BY DEF Radix, Radixes

\* The last address is a number.
LEMMA AddressMaxIs == AddressMax \in Nat
BY SMT DEF AddressMax

\* The lesser of two numbers.
LEMMA MinOfTwo ==
    ASSUME NEW a \in Nat, NEW b \in Nat
    PROVE  Min({a, b}) = IF a <= b THEN a ELSE b
<1>1. \A S : Min(S) = CHOOSE x \in S : \A y \in S : x <= y
  BY DEF Min
<1>2. CASE a <= b
  <2>1. a \in {a, b} /\ \A y \in {a, b} : a <= y
    BY <1>2
  <2>2. \A x \in {a, b} : (\A y \in {a, b} : x <= y) => x = a
    BY <1>2
  <2> QED BY <1>1, <1>2, <2>1, <2>2
<1>3. CASE ~(a <= b)
  <2>1. b \in {a, b} /\ \A y \in {a, b} : b <= y
    BY <1>3
  <2>2. \A x \in {a, b} : (\A y \in {a, b} : x <= y) => x = b
    BY <1>3
  <2> QED BY <1>1, <1>3, <2>1, <2>2
<1> QED BY <1>2, <1>3

\* A cut at each step cuts no less than one at the end.
LEMMA CutAgain ==
    ASSUME NEW R \in Radixes, NEW x \in Nat, NEW d \in Nat, NEW M \in Nat
    PROVE  Min({R * Min({x, M}) + d, M}) = Min({R * x + d, M})
<1> USE DEF Radixes
<1>1. R * x + d \in Nat /\ R * M + d \in Nat
  OBVIOUS
<1>2. CASE x <= M
  BY <1>2, MinOfTwo
<1>3. CASE ~(x <= M)
  <2>1. R * x + d >= M /\ R * M + d >= M
    BY <1>3
  <2>2. Min({x, M}) = M
    BY <1>3, MinOfTwo
  <2>3. Min({R * M + d, M}) = M /\ Min({R * x + d, M}) = M
    BY <1>1, <2>1, MinOfTwo
  <2> QED BY <2>2, <2>3
<1> QED BY <1>2, <1>3

\* A product of a sum that is one of the radix.
LEMMA PlaceMoves ==
    ASSUME NEW R \in Radixes, NEW a \in Nat, NEW b \in Nat, NEW c \in Nat
    PROVE  (R * a + b) * c = a * (R * c) + c * b
BY DEF Radixes

\* Another place makes a number of a number.
LEMMA StepIsNat ==
    ASSUME NEW R \in Radixes, NEW x \in Nat, NEW d \in Nat
    PROVE  R * x + d \in Nat /\ R * x \in Nat
BY DEF Radixes

\* A product of numbers.
LEMMA ProductIsNat == ASSUME NEW a \in Nat, NEW b \in Nat PROVE a * b \in Nat
OBVIOUS

\* Reading digits from the left, with or without a cut at M after each.
FromLeft(h, R, d, n) ==
    /\ h \in [0..n -> Nat] /\ h[0] = 0
    /\ \A k \in 1..n : h[k] = R * h[k - 1] + d[k]
FromLeftCut(f, R, M, d, n) ==
    /\ f \in [0..n -> Nat] /\ f[0] = 0
    /\ \A k \in 1..n : f[k] = Min({R * f[k - 1] + d[k], M})

\* Reading them from the right, by the weights of the places.
Weights(w, R, n) ==
    /\ w \in [0..n -> Nat] /\ w[0] = 1
    /\ \A k \in 1..n : w[k] = R * w[k - 1]
FromRight(v, w, d, n) ==
    /\ v \in [0..n -> Nat] /\ v[0] = 0
    /\ \A k \in 1..n : v[k] = v[k - 1] + w[k - 1] * d[n - k + 1]

\* Any digits can be read from the left.
LEMMA FromLeftExists ==
    ASSUME NEW R \in Radixes, NEW n \in Nat, NEW d \in [1..n -> Nat]
    PROVE  \E h : FromLeft(h, R, d, n)
<1> DEFINE step == [k \in 1..n |-> [x \in Nat |-> R * x + d[k]]]
<1>1. step \in [1..n -> [Nat -> Nat]]
  <2>1. ASSUME NEW k \in 1..n, NEW x \in Nat PROVE R * x + d[k] \in Nat
    <3>1. d[k] \in Nat
      OBVIOUS
    <3> QED BY <3>1, StepIsNat
  <2> QED BY <2>1
<1>2. PICK h : Iterates(h, 0, step, n)
  <2> HIDE DEF step
  <2> QED BY <1>1, IteratesExists
<1>3. h \in [0..n -> Nat] /\ h[0] = 0 /\ \A k \in 1..n : h[k] = step[k][h[k - 1]]
  BY <1>2 DEF Iterates
<1>4. ASSUME NEW k \in 1..n PROVE h[k] = R * h[k - 1] + d[k]
  <2>1. k - 1 \in 0..n
    OBVIOUS
  <2>2. h[k - 1] \in Nat /\ h[k] = step[k][h[k - 1]]
    BY <1>3, <2>1
  <2> QED BY <2>2
<1> QED BY <1>3, <1>4 DEF FromLeft

\* Cutting at each step is cutting at the end.
LEMMA CutsAgree ==
    ASSUME NEW R \in Radixes, NEW M \in Nat, NEW n \in Nat,
           NEW d \in [1..n -> Nat], NEW h, FromLeft(h, R, d, n),
           NEW f, FromLeftCut(f, R, M, d, n)
    PROVE  f[n] = Min({h[n], M})
<1> DEFINE N == {k \in Nat : k <= n => f[k] = Min({h[k], M})}
<1>1. 0 \in N
  <2>1. Min({0, M}) = 0
    BY MinOfTwo
  <2>2. f[0] = 0 /\ h[0] = 0
    BY DEF FromLeft, FromLeftCut
  <2> QED BY <2>1, <2>2
<1>2. ASSUME NEW k \in Nat, k \in N PROVE k + 1 \in N
  <2> SUFFICES ASSUME k + 1 <= n PROVE f[k + 1] = Min({h[k + 1], M})
    OBVIOUS
  <2>1. k + 1 \in 1..n /\ (k + 1) - 1 = k /\ k <= n /\ k \in 0..n
    OBVIOUS
  <2>2. f[k] = Min({h[k], M})
    BY <1>2, <2>1
  <2>3. f[k + 1] = Min({R * f[k] + d[k + 1], M})
    BY <2>1 DEF FromLeftCut
  <2>4. h[k + 1] = R * h[k] + d[k + 1] /\ h[k] \in Nat
    BY <2>1 DEF FromLeft
  <2>5. d[k + 1] \in Nat
    BY <2>1
  <2>6. Min({R * Min({h[k], M}) + d[k + 1], M}) = Min({R * h[k] + d[k + 1], M})
    <3>1. \A x, y \in Nat : Min({R * Min({x, M}) + y, M}) = Min({R * x + y, M})
      BY CutAgain
    <3> QED BY <2>4, <2>5, <3>1, Zenon
  <2> QED BY <2>2, <2>3, <2>4, <2>6, Zenon
<1> HIDE DEF N
<1>3. n \in N
  BY <1>1, <1>2, Induction
<1> QED BY <1>3 DEF N

\* Read from the left or from the right, digits make the same number.
LEMMA SidesAgree ==
    ASSUME NEW R \in Radixes, NEW n \in Nat, NEW d \in [1..n -> Nat],
           NEW h, FromLeft(h, R, d, n),
           NEW w, Weights(w, R, n), NEW v, FromRight(v, w, d, n)
    PROVE  h[n] = v[n]
<1> DEFINE N == {k \in Nat : k <= n => h[n] = h[n - k] * w[k] + v[k]}
<1>1. 0 \in N
  <2>1. w[0] = 1 /\ v[0] = 0 /\ n - 0 = n /\ h[n] \in Nat
    BY DEF FromLeft, Weights, FromRight
  <2> QED BY <2>1
<1>2. ASSUME NEW k \in Nat, k \in N PROVE k + 1 \in N
  <2> SUFFICES ASSUME k + 1 <= n PROVE h[n] = h[n - (k + 1)] * w[k + 1] + v[k + 1]
    OBVIOUS
  <2>1. /\ k + 1 \in 1..n /\ (k + 1) - 1 = k /\ n - (k + 1) + 1 = n - k
        /\ n - k \in 1..n /\ (n - k) - 1 = n - (k + 1) /\ k \in 0..n
        /\ n - (k + 1) \in 0..n
    OBVIOUS
  <2>2. h[n] = h[n - k] * w[k] + v[k]
    BY <1>2, <2>1
  <2>3. h[n - k] = R * h[n - (k + 1)] + d[n - k] /\ h[n - (k + 1)] \in Nat
    BY <2>1 DEF FromLeft
  <2>4. w[k + 1] = R * w[k] /\ w[k] \in Nat
    BY <2>1 DEF Weights
  <2>5. v[k + 1] = v[k] + w[k] * d[n - k] /\ v[k] \in Nat
    BY <2>1 DEF FromRight
  <2>6. d[n - k] \in Nat
    BY <2>1
  <2>7. h[n - k] * w[k] = h[n - (k + 1)] * (R * w[k]) + w[k] * d[n - k]
    <3>1. PICK a \in Nat, b \in Nat, c \in Nat :
              a = h[n - (k + 1)] /\ b = d[n - k] /\ c = w[k]
      BY <2>3, <2>4, <2>6
    <3>2. (R * a + b) * c = a * (R * c) + c * b
      BY PlaceMoves
    <3> QED BY <2>3, <3>1, <3>2, Zenon
  <2>8. R * w[k] \in Nat
    BY <2>4, StepIsNat
  <2>9. PICK p \in Nat : p = h[n - (k + 1)] * (R * w[k])
    BY <2>3, <2>8, ProductIsNat
  <2>10. PICK q \in Nat : q = w[k] * d[n - k]
    BY <2>4, <2>6, ProductIsNat
  <2>11. h[n] = (p + q) + v[k] /\ v[k + 1] = v[k] + q
    BY <2>2, <2>5, <2>7, <2>9, <2>10, Zenon
  <2>12. h[n] = p + v[k + 1]
    BY <2>5, <2>11
  <2> QED BY <2>4, <2>9, <2>12, Zenon
<1> HIDE DEF N
<1>3. n \in N
  BY <1>1, <1>2, Induction
<1>4. h[n] = h[n - n] * w[n] + v[n]
  BY <1>3 DEF N
<1>5. n - n = 0 /\ h[0] = 0 /\ w[n] \in Nat /\ v[n] \in Nat
  BY DEF FromLeft, Weights, FromRight
<1> QED BY <1>4, <1>5

\* What reading from the left makes of digits, cut at M after each, is what
\* the places make of them, cut at M once.
LEMMA LeftIsRight ==
    ASSUME NEW R \in Radixes, NEW M \in Nat, NEW n \in Nat,
           NEW d \in [1..n -> Nat],
           NEW f, FromLeftCut(f, R, M, d, n),
           NEW w, Weights(w, R, n), NEW v, FromRight(v, w, d, n)
    PROVE  f[n] = Min({v[n], M})
<1>1. PICK h : FromLeft(h, R, d, n)
  BY FromLeftExists
<1>2. f[n] = Min({h[n], M})
  BY <1>1, CutsAgree
<1>3. h[n] = v[n]
  BY <1>1, SidesAgree
<1> QED BY <1>2, <1>3

\* The digits of a text.
DigitsIn(body) == [k \in 1..Len(body) |-> DigitValue(body[k])]

\* They are numbers.
LEMMA DigitsAre ==
    ASSUME NEW body \in Seq(STRING), NEW base, IsNumber(body, base)
    PROVE  DigitsIn(body) \in [1..Len(body) -> Nat]
BY DigitValues DEF DigitsIn, IsNumber

\* The function inside Numeral reads from the left.
LEMMA NumeralReads ==
    ASSUME NEW body \in Seq(STRING), NEW base, IsNumber(body, base)
    PROVE  FromLeftCut(CHOOSE g : g = [i \in 0..Len(body) |->
               IF i = 0 THEN 0
               ELSE Min({Radix(base) * g[i - 1] + DigitValue(body[i]),
                         AddressMax + 1})],
               Radix(base), AddressMax + 1, DigitsIn(body), Len(body))
<1> DEFINE n == Len(body)
           R == Radix(base)
           M == AddressMax + 1
           d == DigitsIn(body)
           next(x, k) == Min({R * x + DigitValue(body[k]), M})
           eq(g) == [i \in 0..n |-> IF i = 0 THEN 0 ELSE next(g[i - 1], i)]
           step == [k \in 1..n |-> [x \in Nat |-> next(x, k)]]
           f == CHOOSE g : g = [i \in 0..n |->
                    IF i = 0 THEN 0 ELSE Min({R * g[i - 1] + DigitValue(body[i]), M})]
<1>0. f = CHOOSE g : g = eq(g)
  OBVIOUS
<1> HIDE DEF f
<1>1. n \in Nat /\ R \in Radixes /\ M \in Nat /\ d \in [1..n -> Nat]
  BY RadixIs, AddressMaxIs, DigitsAre
<1>2. ASSUME NEW k \in 1..n, NEW x \in Nat
      PROVE  next(x, k) \in Nat /\ d[k] = DigitValue(body[k])
  <2>1. d[k] \in Nat /\ d[k] = DigitValue(body[k])
    BY <1>1 DEF DigitsIn
  <2> HIDE DEF d, R, M, n
  <2>2. PICK y \in Nat : y = R * x + d[k]
    BY <1>1, <2>1, StepIsNat
  <2>3. Min({y, M}) \in Nat
    BY <1>1, MinOfTwo
  <2> QED BY <2>1, <2>2, <2>3
<1> HIDE DEF next
<1>3. step \in [1..n -> [Nat -> Nat]]
  BY <1>2
<1>4. PICK e : Iterates(e, 0, step, n)
  <2> HIDE DEF step
  <2> QED BY <1>1, <1>3, IteratesExists
<1>5. e = eq(e)
  <2>1. /\ e \in [0..n -> Nat] /\ e[0] = 0
        /\ \A k \in 1..n : e[k] = step[k][e[k - 1]]
    BY <1>4 DEF Iterates
  <2>2. ASSUME NEW i \in 0..n PROVE e[i] = IF i = 0 THEN 0 ELSE next(e[i - 1], i)
    <3>1. CASE i = 0
      BY <2>1, <3>1
    <3>2. CASE i # 0
      <4>1. i \in 1..n /\ i - 1 \in 0..n
        BY <1>1, <3>2
      <4>2. e[i - 1] \in Nat /\ e[i] = step[i][e[i - 1]]
        BY <2>1, <4>1
      <4> QED BY <3>2, <4>1, <4>2
    <3> QED BY <3>1, <3>2
  <2> QED BY <2>1, <2>2
<1>6. f = eq(f)
  <2> HIDE DEF eq
  <2> QED BY <1>0, <1>5, Zenon
<1>7. ASSUME NEW k \in 1..n, f[k - 1] \in Nat PROVE f[k] = step[k][f[k - 1]]
  <2>1. k \in 0..n /\ k # 0
    BY <1>1
  <2>2. f[k] = next(f[k - 1], k)
    BY <1>6, <2>1
  <2> QED BY <1>7, <2>2
<1>8. f = [k \in 0..n |-> f[k]] /\ f[0] = 0
  <2>1. f[0] = 0
    <3>1. 0 \in 0..n
      BY <1>1
    <3>2. f[0] = eq(f)[0]
      BY <1>6
    <3> QED BY <3>1, <3>2
  <2> QED BY <1>6, <2>1, Zenon
<1>9. Iterates(f, 0, step, n)
  <2> HIDE DEF step
  <2> QED BY <1>1, <1>3, <1>7, <1>8, IteratesIs
<1>10. ASSUME NEW k \in 1..n PROVE f[k] = Min({R * f[k - 1] + d[k], M})
  <2>1. k - 1 \in 0..n
    BY <1>1
  <2>2. f[k - 1] \in Nat /\ f[k] = step[k][f[k - 1]]
    BY <1>9, <2>1 DEF Iterates
  <2> QED BY <1>2, <2>2 DEF next
<1>11. f \in [0..n -> Nat]
  BY <1>9 DEF Iterates
<1>12. FromLeftCut(f, R, M, d, n)
  <2> HIDE DEF d, n, R, M
  <2> QED BY <1>8, <1>10, <1>11 DEF FromLeftCut
<1> QED BY <1>12 DEF f

\* The functions inside ValueOf are the weights ...
LEMMA WeightsAre ==
    ASSUME NEW n \in Nat, NEW base
    PROVE  Weights(CHOOSE g : g = [k \in 0..n |->
                       IF k = 0 THEN 1 ELSE Radix(base) * g[k - 1]],
                   Radix(base), n)
<1> DEFINE R == Radix(base)
           w == CHOOSE g : g = [k \in 0..n |-> IF k = 0 THEN 1 ELSE R * g[k - 1]]
           next(x) == R * x
           eq(g) == [k \in 0..n |-> IF k = 0 THEN 1 ELSE next(g[k - 1])]
           step == [k \in 1..n |-> [x \in Nat |-> next(x)]]
<1>1. w = CHOOSE g : g = eq(g)
  OBVIOUS
<1> HIDE DEF w
<1>2. ASSUME NEW x \in Nat PROVE next(x) \in Nat
  BY RadixIs, StepIsNat
<1> HIDE DEF next
<1>3. step \in [1..n -> [Nat -> Nat]]
  BY <1>2
<1>4. PICK e : Iterates(e, 1, step, n)
  <2> HIDE DEF step
  <2> QED BY <1>3, IteratesExists
<1>5. e = eq(e)
  <2>1. /\ e \in [0..n -> Nat] /\ e[0] = 1
        /\ \A k \in 1..n : e[k] = step[k][e[k - 1]]
    BY <1>4 DEF Iterates
  <2>2. ASSUME NEW k \in 0..n PROVE e[k] = IF k = 0 THEN 1 ELSE next(e[k - 1])
    <3>1. CASE k = 0
      BY <2>1, <3>1
    <3>2. CASE k # 0
      <4>1. k \in 1..n /\ k - 1 \in 0..n
        BY <3>2
      <4>2. e[k - 1] \in Nat /\ e[k] = step[k][e[k - 1]]
        BY <2>1, <4>1
      <4> QED BY <3>2, <4>1, <4>2
    <3> QED BY <3>1, <3>2
  <2> QED BY <2>1, <2>2
<1>6. w = eq(w)
  <2> HIDE DEF eq
  <2> QED BY <1>1, <1>5, Zenon
<1>7. w[0] = 1 /\ \A k \in 1..n : w[k] = next(w[k - 1])
  <2>1. 0 \in 0..n /\ \A k \in 1..n : k \in 0..n /\ k # 0
    OBVIOUS
  <2> QED BY <1>6, <2>1
<1>8. w = [k \in 0..n |-> w[k]]
  BY <1>6, Zenon
<1>9. \A k \in 1..n : w[k - 1] \in Nat => w[k] = step[k][w[k - 1]]
  BY <1>7
<1>10. Iterates(w, 1, step, n)
  <2> HIDE DEF step
  <2> QED BY <1>3, <1>7, <1>8, <1>9, IteratesIs
<1>11. w \in [0..n -> Nat]
  BY <1>10 DEF Iterates
<1>12. Weights(w, R, n)
  BY <1>7, <1>11 DEF Weights, next
<1> QED BY <1>12 DEF w

\* ... and the sums of the places.
LEMMA PlacesAre ==
    ASSUME NEW body \in Seq(STRING), NEW base, IsNumber(body, base),
           NEW w, Weights(w, Radix(base), Len(body))
    PROVE  FromRight(CHOOSE g : g = [k \in 0..Len(body) |->
               IF k = 0 THEN 0
               ELSE g[k - 1] + w[k - 1] * DigitValue(body[Len(body) - k + 1])],
               w, DigitsIn(body), Len(body))
<1> DEFINE n == Len(body)
           v == CHOOSE g : g = [k \in 0..n |->
                    IF k = 0 THEN 0
                    ELSE g[k - 1] + w[k - 1] * DigitValue(body[n - k + 1])]
           d == DigitsIn(body)
           next(x, k) == x + w[k - 1] * DigitValue(body[n - k + 1])
           eq(g) == [k \in 0..n |-> IF k = 0 THEN 0 ELSE next(g[k - 1], k)]
           step == [k \in 1..n |-> [x \in Nat |-> next(x, k)]]
<1>0. v = CHOOSE g : g = eq(g)
  OBVIOUS
<1> HIDE DEF v
<1>1. n \in Nat /\ d \in [1..n -> Nat]
  BY DigitsAre
<1>2. ASSUME NEW k \in 1..n, NEW x \in Nat
      PROVE  next(x, k) \in Nat /\ next(x, k) = x + w[k - 1] * d[n - k + 1]
  <2>1. n - k + 1 \in 1..n /\ k - 1 \in 0..n
    BY <1>1
  <2>2. w[k - 1] \in Nat
    BY <2>1 DEF Weights
  <2>3. d[n - k + 1] \in Nat /\ d[n - k + 1] = DigitValue(body[n - k + 1])
    BY <1>1, <2>1 DEF DigitsIn
  <2> HIDE DEF d, n
  <2>4. w[k - 1] * d[n - k + 1] \in Nat
    BY <2>2, <2>3, ProductIsNat
  <2> QED BY <2>3, <2>4
<1> HIDE DEF next
<1>3. step \in [1..n -> [Nat -> Nat]]
  BY <1>2
<1>4. PICK e : Iterates(e, 0, step, n)
  <2> HIDE DEF step
  <2> QED BY <1>1, <1>3, IteratesExists
<1>5. e = eq(e)
  <2>1. /\ e \in [0..n -> Nat] /\ e[0] = 0
        /\ \A k \in 1..n : e[k] = step[k][e[k - 1]]
    BY <1>4 DEF Iterates
  <2>2. ASSUME NEW k \in 0..n PROVE e[k] = IF k = 0 THEN 0 ELSE next(e[k - 1], k)
    <3>1. CASE k = 0
      BY <2>1, <3>1
    <3>2. CASE k # 0
      <4>1. k \in 1..n /\ k - 1 \in 0..n
        BY <1>1, <3>2
      <4>2. e[k - 1] \in Nat /\ e[k] = step[k][e[k - 1]]
        BY <2>1, <4>1
      <4> QED BY <3>2, <4>1, <4>2
    <3> QED BY <3>1, <3>2
  <2> QED BY <2>1, <2>2
<1>6. v = eq(v)
  <2> HIDE DEF eq
  <2> QED BY <1>0, <1>5, Zenon
<1>7. v[0] = 0 /\ \A k \in 1..n : v[k] = next(v[k - 1], k)
  <2>1. 0 \in 0..n /\ \A k \in 1..n : k \in 0..n /\ k # 0
    BY <1>1
  <2> HIDE DEF n
  <2> QED BY <1>6, <2>1
<1>8. v = [k \in 0..n |-> v[k]]
  BY <1>6, Zenon
<1>9. \A k \in 1..n : v[k - 1] \in Nat => v[k] = step[k][v[k - 1]]
  BY <1>7
<1>10. Iterates(v, 0, step, n)
  <2> HIDE DEF step
  <2> QED BY <1>1, <1>3, <1>7, <1>8, <1>9, IteratesIs
<1>11. ASSUME NEW k \in 1..n
       PROVE  v[k] = v[k - 1] + w[k - 1] * d[n - k + 1]
  <2>1. k - 1 \in 0..n
    BY <1>1, OneBefore
  <2>2. v \in [0..n -> Nat]
    BY <1>10 DEF Iterates
  <2>3. v[k - 1] \in Nat
    BY <2>1, <2>2
  <2> QED BY <1>2, <1>7, <2>3
<1>12. v \in [0..n -> Nat]
  BY <1>10 DEF Iterates
<1>13. FromRight(v, w, d, n)
  <2> HIDE DEF d, n
  <2> QED BY <1>7, <1>11, <1>12 DEF FromRight
<1> QED BY <1>13 DEF v

\* A text is read as the number that its places make, if there is one.
LEMMA NumeralIsValue ==
    ASSUME NEW part, NEW base, Unsigned(part) \in Seq(STRING)
    PROVE  LET body == Unsigned(part) IN
           /\ Numeral(part, base) =
                  IF IsNumber(body, base) /\ ValueOf(body, base) <= AddressMax
                  THEN ValueOf(body, base) ELSE Failed
           /\ IsNumber(body, base) => ValueOf(body, base) \in Nat
<1> DEFINE body == Unsigned(part)
           n == Len(body)
           R == Radix(base)
           M == AddressMax + 1
           f == CHOOSE g : g = [i \in 0..n |->
                    IF i = 0 THEN 0
                    ELSE Min({R * g[i - 1] + DigitValue(body[i]), M})]
           w == CHOOSE g : g = [k \in 0..n |-> IF k = 0 THEN 1 ELSE R * g[k - 1]]
           v == CHOOSE g : g = [k \in 0..n |->
                    IF k = 0 THEN 0
                    ELSE g[k - 1] + w[k - 1] * DigitValue(body[n - k + 1])]
<1>1. Numeral(part, base) =
          IF IsNumber(body, base) /\ f[n] <= AddressMax THEN f[n] ELSE Failed
  BY DEF Numeral
<1>2. ValueOf(body, base) = v[n]
  BY DEF ValueOf
<1>3. n \in Nat /\ R \in Radixes /\ AddressMax \in Nat
  BY RadixIs, AddressMaxIs
<1>4. Weights(w, R, n)
  <2> HIDE DEF w, body
  <2> QED BY <1>3, WeightsAre DEF w
<1>5. CASE IsNumber(body, base)
  <2> HIDE DEF body, w
  <2>1. FromLeftCut(f, R, M, DigitsIn(body), n)
    BY <1>5, NumeralReads DEF body
  <2>2. FromRight(v, w, DigitsIn(body), n)
    BY <1>4, <1>5, PlacesAre DEF body
  <2>3. DigitsIn(body) \in [1..n -> Nat]
    BY <1>5, DigitsAre DEF body
  <2> HIDE DEF f, v, n, R
  <2>4. v[n] \in Nat
    BY <1>3, <2>2 DEF FromRight
  <2>5. M \in Nat
    BY <1>3
  <2>6. f[n] = Min({v[n], M})
    BY SMTT(20), <1>3, <1>4, <2>1, <2>2, <2>3, <2>5, LeftIsRight
  <2>7. f[n] = IF v[n] <= M THEN v[n] ELSE M
    BY <2>4, <2>5, <2>6, MinOfTwo
  <2>8. f[n] <= AddressMax <=> v[n] <= AddressMax
    BY <1>3, <2>4, <2>7
  <2>9. f[n] <= AddressMax => f[n] = v[n]
    BY <1>3, <2>4, <2>7
  <2> QED BY <1>1, <1>2, <1>5, <2>4, <2>8, <2>9, Zenon DEF body
<1>6. CASE ~IsNumber(body, base)
  BY <1>1, <1>6
<1> QED BY <1>5, <1>6

(***************************************************************************)
(* Readings.                                                               *)
(***************************************************************************)
\* The symbol part of a text, letter by letter.
LEMMA UppercaseIs ==
    ASSUME NEW s \in Seq(STRING), NEW n \in 0..Len(s)
    PROVE  /\ DOMAIN Uppercase(SubSeq(s, 1, n)) = 1..n
           /\ \A i \in 1..n : Uppercase(SubSeq(s, 1, n))[i] = Capital(s[i])
<1>1. Len(s) \in Nat /\ 1 \in 1..(Len(s) + 1) /\ 1 <= n + 1 /\ n - 1 + 1 = n
  OBVIOUS
<1>2. /\ SubSeq(s, 1, n) \in Seq(STRING) /\ Len(SubSeq(s, 1, n)) = n
      /\ \A i \in 1..n : SubSeq(s, 1, n)[i] = s[1 + i - 1]
  BY <1>1, PartOf
<1>3. DOMAIN SubSeq(s, 1, n) = 1..n
  BY <1>2
<1>4. \A i \in 1..n : SubSeq(s, 1, n)[i] = s[i]
  BY <1>2
<1> QED BY <1>3, <1>4 DEF Uppercase

\* A symbol that is found is one of the embedded ones, so all letters.
LEMMA FoundSymbol ==
    ASSUME names \in NamesByCode, NEW l \in Lists, NEW sym,
           BySymbol(DevicesOf(l), names, sym) # Failed
    PROVE  /\ sym \in SymbolsOf(DevicesOf(l), names)
           /\ sym \in Seq(ToSet(Capitals))
           /\ BySymbol(DevicesOf(l), names, sym) \in ToSet(DevicesOf(l))
           /\ names[BySymbol(DevicesOf(l), names, sym).code] = sym
<1> DEFINE list == DevicesOf(l)
           S == {i \in DOMAIN list : names[list[i].code] = sym}
<1>1. PICK n \in Nat : DOMAIN list = 1..n
                       /\ \A i \in 1..n : list[i].code \in EmbeddedCodes
  BY ListsAreLists DEF IsList
<1> HIDE DEF list
<1>2. sym \in SymbolsOf(list, names) /\ BySymbol(list, names, sym) = list[Max(S)]
  BY DEF BySymbol, list
<1>3. S \in SUBSET (0..n) /\ S # {}
  BY <1>1, <1>2 DEF SymbolsOf
<1>4. Max(S) \in S
  <2> HIDE DEF S
  <2> QED BY <1>3, MaxIs
<1>5. names[list[Max(S)].code] = sym /\ Max(S) \in 1..n
  BY <1>1, <1>4
<1>6. sym \in EmbeddedSymbols
  <2>1. list[Max(S)].code \in EmbeddedCodes
    BY <1>1, <1>5
  <2> QED BY <1>5, <2>1, NameHasCode
<1>7. \A e \in ToSet(Embedded) : e.symbol \in Seq(ToSet(Capitals))
  BY DeviceAssumption
<1>8. sym \in Seq(ToSet(Capitals))
  BY <1>6, <1>7, Zenon DEF EmbeddedSymbols
<1>9. list[Max(S)] \in ToSet(list)
  BY <1>1, <1>5 DEF ToSet
<1> QED BY <1>2, <1>5, <1>8, <1>9 DEF list

\* What is read behind a symbol is a text.
LEMMA BehindIs ==
    ASSUME NEW s \in Seq(STRING), NEW n \in 0..Len(s)
    PROVE  /\ Behind(s, n) \in Seq(STRING)
           /\ n = Len(s) => Behind(s, n) = << >>
           /\ n < Len(s) /\ s[n + 1] # Blank /\ s[n + 1] # Plus =>
                  Behind(s, n) = Trim(SubSeq(s, n + 1, Len(s)))
<1> DEFINE rest == SubSeq(s, n + 1, Len(s))
           part == Trim(rest)
<1>1. Len(s) \in Nat /\ n + 1 \in 1..(Len(s) + 1) /\ Len(s) \in 0..Len(s)
  OBVIOUS
<1>2. /\ rest \in Seq(STRING)
      /\ n + 1 <= Len(s) + 1 => Len(rest) = Len(s) - (n + 1) + 1
      /\ \A i \in 1..(Len(s) - (n + 1) + 1) : rest[i] = s[n + 1 + i - 1]
      /\ Len(s) < n + 1 => rest = << >>
  BY <1>1, PartOf
<1> HIDE DEF rest
<1>3. /\ part \in Seq(STRING)
      /\ \A i \in 1..Len(part) : \E j \in 1..Len(rest) : part[i] = rest[j]
      /\ \A m \in 1..Len(rest) : (\A i \in 1..m : rest[i] # Blank) =>
             m <= Len(part) /\ \A i \in 1..m : part[i] = rest[i]
  BY <1>2, TrimIs
<1>4. Behind(s, n) = Unsigned(part)
  BY DEF Behind, rest
<1> HIDE DEF part
<1>5. Unsigned(part) \in Seq(STRING)
  <2>1. part # << >> => Tail(part) \in Seq(STRING)
    BY <1>3, HeadTailProperties
  <2> QED BY <1>3, <2>1 DEF Unsigned
<1>6. ASSUME n = Len(s) PROVE Behind(s, n) = << >>
  <2>1. rest = << >>
    BY <1>1, <1>2, <1>6
  <2>2. part = << >>
    BY <2>1 DEF part, Trim
  <2> QED BY <1>4, <2>2 DEF Unsigned
<1>7. ASSUME n < Len(s), s[n + 1] # Blank, s[n + 1] # Plus
      PROVE  Behind(s, n) = part
  <2>1. 1 \in 1..(Len(s) - (n + 1) + 1) /\ 1 \in 1..Len(rest) /\ n + 1 + 1 - 1 = n + 1
    BY <1>1, <1>2, <1>7
  <2>2. rest[1] = s[n + 1]
    BY <1>2, <2>1
  <2>3. \A i \in 1..1 : rest[i] # Blank
    BY <1>7, <2>2
  <2>4. part[1] = rest[1]
    BY <1>3, <2>1, <2>3
  <2> QED BY <1>4, <1>7, <2>2, <2>4 DEF Unsigned
<1> QED BY <1>4, <1>5, <1>6, <1>7 DEF part, rest

\* A reading splits a text behind letters, with something left for the address.
LEMMA ReadingIsLetters ==
    ASSUME names \in NamesByCode, NEW l \in Lists, NEW s \in Seq(STRING),
           NEW n \in Readings(DevicesOf(l), s)
    PROVE  /\ n \in 1..Len(s) /\ n < Len(s) /\ n <= SymbolLen(s)
           /\ \A i \in 1..n : IsLetter(s[i])
<1> DEFINE sym == Uppercase(SubSeq(s, 1, n))
           device == BySymbol(DevicesOf(l), names, sym)
<1>1. n \in 1..Len(s) /\ device # Failed /\ IsNumber(Behind(s, n), device.base)
  BY DEF Readings, Reads
<1>2. n \in 0..Len(s) /\ Len(s) \in Nat
  BY <1>1
<1>3. n # Len(s)
  BY <1>1, <1>2, BehindIs DEF IsNumber
<1>4. sym \in Seq(ToSet(Capitals))
  <2> HIDE DEF sym
  <2> QED BY <1>1, FoundSymbol
<1>5. DOMAIN sym = 1..n /\ \A i \in 1..n : sym[i] = Capital(s[i])
  BY <1>2, UppercaseIs
<1>6. ASSUME NEW i \in 1..n PROVE IsLetter(s[i])
  <2>1. sym[i] \in ToSet(Capitals)
    <3> HIDE DEF sym
    <3>1. DOMAIN sym = 1..Len(sym)
      BY <1>4
    <3> QED BY <1>4, <1>5, <3>1, ElementOfSeq
  <2> QED BY <1>5, <2>1, CapitalOfLetter
<1>7. /\ SymbolLen(s) \in 0..Len(s)
      /\ SymbolLen(s) < Len(s) => ~IsLetter(s[SymbolLen(s) + 1])
  BY SymbolLenIs
<1>8. ASSUME ~(n <= SymbolLen(s)) PROVE FALSE
  <2>1. SymbolLen(s) + 1 \in 1..n /\ SymbolLen(s) < Len(s)
    BY <1>2, <1>7, <1>8
  <2> QED BY <1>6, <1>7, <2>1
<1> QED BY <1>1, <1>2, <1>3, <1>6, <1>8

\* A shorter reading would take letters for digits: its symbol is that of a
\* hexadecimal device and what follows it up to the longer symbol is A to F.
LEMMA LettersAsDigits ==
    ASSUME names \in NamesByCode, NEW l \in Lists, NEW s \in Seq(STRING),
           NEW n \in Readings(DevicesOf(l), s), n < SymbolLen(s)
    PROVE  /\ BySymbol(DevicesOf(l), names, Uppercase(SubSeq(s, 1, n))).base
                  = "Hexadecimal"
           /\ \A i \in (n + 1)..SymbolLen(s) : Capital(s[i]) \in HexLetters
<1> DEFINE k == SymbolLen(s)
           device == BySymbol(DevicesOf(l), names, Uppercase(SubSeq(s, 1, n)))
           rest == SubSeq(s, n + 1, Len(s))
<1>1. n \in 1..Len(s) /\ device # Failed /\ IsNumber(Behind(s, n), device.base)
  BY DEF Readings, Reads
<1>2. k \in 0..Len(s) /\ Len(s) \in Nat /\ \A i \in 1..k : IsLetter(s[i])
  BY SymbolLenIs
<1>3. n + 1 \in 1..k /\ n < Len(s) /\ n \in 0..Len(s)
  BY <1>1, <1>2
<1>4. \A i \in 1..k : s[i] # Blank /\ s[i] # Plus
  BY <1>2, BlankIsNoLetter
<1>5. Behind(s, n) = Trim(rest)
  BY <1>3, <1>4, BehindIs
<1>6. /\ rest \in Seq(STRING) /\ Len(rest) = Len(s) - n
      /\ \A i \in 1..(Len(s) - n) : rest[i] = s[n + i]
  <2>1. /\ n + 1 \in 1..(Len(s) + 1) /\ Len(s) \in 0..Len(s)
        /\ n + 1 <= Len(s) + 1 /\ Len(s) - (n + 1) + 1 = Len(s) - n
        /\ \A i \in 1..(Len(s) - n) : n + 1 + i - 1 = n + i
    BY <1>1, <1>2
  <2> QED BY <2>1, PartOf
<1> HIDE DEF rest
<1>7. \A i \in 1..(k - n) : Trim(rest)[i] = rest[i] /\ i \in 1..Len(Trim(rest))
  <2>1. k - n \in 1..Len(rest) /\ Trim(rest) \in Seq(STRING)
    BY <1>1, <1>2, <1>3, <1>6, TrimIs
  <2>2. \A i \in 1..(k - n) : n + i \in 1..k /\ i \in 1..(Len(s) - n)
    BY <1>1, <1>2, <1>3
  <2>3. \A i \in 1..(k - n) : rest[i] # Blank
    BY <1>4, <1>6, <2>2
  <2>4. k - n <= Len(Trim(rest)) /\ \A i \in 1..(k - n) : Trim(rest)[i] = rest[i]
    BY <1>6, <2>1, <2>3, TrimIs
  <2>5. Len(Trim(rest)) \in Nat
    BY <2>1
  <2> QED BY <1>1, <1>2, <2>4, <2>5
<1>8. ASSUME NEW i \in (n + 1)..k
      PROVE  device.base = "Hexadecimal" /\ Capital(s[i]) \in HexLetters
  <2>1. i - n \in 1..(k - n) /\ i - n \in 1..(Len(s) - n) /\ i \in 1..k
        /\ n + (i - n) = i
    BY <1>1, <1>2
  <2>2. Trim(rest)[i - n] = s[i] /\ i - n \in 1..Len(Trim(rest))
    BY <1>6, <1>7, <2>1
  <2>3. DOMAIN Trim(rest) = 1..Len(Trim(rest))
    BY <1>6, TrimIs
  <2>4. Capital(s[i]) \in DigitsOf(device.base)
    BY <1>1, <1>5, <2>2, <2>3 DEF IsNumber
  <2>5. Capital(s[i]) \in ToSet(Capitals)
    BY <1>2, <2>1, CapitalOfLetter
  <2> QED BY <2>4, <2>5, LetterDigits
<1>9. n + 1 \in (n + 1)..k
  BY <1>1, <1>2, <1>3
<1> QED BY <1>8, <1>9

\* parse_device_and_address accepts a text exactly when it reads behind all the
\* letters it begins with, and as that device and that address.
LEMMA ParseIs ==
    ASSUME names \in NamesByCode, NEW l \in Lists, NEW tx,
           Trim(tx) \in Seq(STRING)
    PROVE  LET list == DevicesOf(l)
               s == Trim(tx)
               k == SymbolLen(s)
               device == BySymbol(list, names, SymbolPart(s))
               full == ParseDeviceAndAddress(list, names, tx)
           IN  /\ full # Failed <=> k \in Readings(list, s)
               /\ full # Failed =>
                      /\ full = [device |-> device,
                                 addr |-> ValueOf(Behind(s, k), device.base)]
                      /\ full \in Meanings
<1> DEFINE list == DevicesOf(l)
           s == Trim(tx)
           k == SymbolLen(s)
           device == BySymbol(list, names, SymbolPart(s))
           part == NumberPart(s)
           addr == Numeral(part, device.base)
           value == ValueOf(Behind(s, k), device.base)
           full == ParseDeviceAndAddress(list, names, tx)
           refused == k = 0 \/ part = << >> \/ device = Failed \/ addr = Failed
<1>1. full = IF refused THEN Failed ELSE [device |-> device, addr |-> addr]
  BY DEF ParseDeviceAndAddress
<1>2. k \in 0..Len(s) /\ Len(s) \in Nat
  BY SymbolLenIs
<1>3. Behind(s, k) = Unsigned(part) /\ Behind(s, k) \in Seq(STRING)
  BY <1>2, BehindIs DEF Behind, NumberPart
<1>4. part = << >> => ~IsNumber(Behind(s, k), device.base)
  BY <1>3 DEF Unsigned, IsNumber
<1>5. /\ addr = IF IsNumber(Behind(s, k), device.base) /\ value <= AddressMax
                THEN value ELSE Failed
      /\ IsNumber(Behind(s, k), device.base) => value \in Nat
  BY <1>3, NumeralIsValue
<1>6. k \in Readings(list, s) <=>
          /\ k # 0 /\ device # Failed
          /\ IsNumber(Behind(s, k), device.base) /\ value <= AddressMax
  <2>1. SymbolPart(s) = Uppercase(SubSeq(s, 1, k))
    BY DEF SymbolPart
  <2>2. k \in Readings(list, s) <=> k \in 1..Len(s) /\ Reads(list, s, k)
    BY DEF Readings
  <2>3. k \in 1..Len(s) <=> k # 0
    BY <1>2
  <2> QED BY <2>1, <2>2, <2>3 DEF Reads
<1>7. device # Failed => device \in Devices
  BY FoundSymbol DEF Devices
<1>8. Failed \notin Addresses /\ Failed \notin Meanings
  BY DeviceAssumption
<1> HIDE DEF s, k, device, part, addr, value, full
<1>9. addr # Failed <=>
          IsNumber(Behind(s, k), device.base) /\ value <= AddressMax
  BY <1>5, <1>8, AddressMaxIs DEF Addresses
<1>10. ~refused <=> k \in Readings(list, s)
  BY <1>4, <1>6, <1>9
<1>11. ~refused => [device |-> device, addr |-> addr] \in Meanings /\ addr = value
  BY <1>5, <1>7, <1>9, AddressMaxIs DEF Addresses, Meanings
<1>12. /\ full # Failed <=> k \in Readings(list, s)
       /\ full # Failed =>
              full = [device |-> device, addr |-> value] /\ full \in Meanings
  BY <1>1, <1>8, <1>10, <1>11
<1> QED BY <1>12 DEF s, k, device, part, addr, value, full

\* A text that means something means a known device and an address.
LEMMA ReadingIsMeaning ==
    ASSUME names \in NamesByCode, NEW l \in Lists, NEW tx \in Seq(STRING)
    PROVE  ReadingOf(DevicesOf(l), names, tx) \in Meanings \cup {Failed}
<1> DEFINE full == ParseDeviceAndAddress(DevicesOf(l), names, tx)
           alone == BySymbol(DevicesOf(l), names, Uppercase(tx))
<1>1. full # Failed => full \in Meanings
  BY TrimIs, ParseIs
<1>2. alone # Failed => alone \in Devices
  BY FoundSymbol DEF Devices
<1>3. 0 \in Addresses
  BY AddressMaxIs DEF Addresses
<1>4. alone # Failed => [device |-> alone, addr |-> 0] \in Meanings
  BY <1>2, <1>3 DEF Meanings
<1> HIDE DEF full, alone
<1>5. ReadingOf(DevicesOf(l), names, tx) =
          IF full # Failed THEN full
          ELSE IF OnlyLetters(tx) /\ alone # Failed
          THEN [device |-> alone, addr |-> 0]
          ELSE Failed
  BY DEF ReadingOf, full, alone
<1> QED BY <1>1, <1>4, <1>5

\* A code that is found is that of a device of some list.
LEMMA CodeIsDevice ==
    ASSUME NEW l \in Lists, NEW code
    PROVE  ByCode(DevicesOf(l), code) \in Devices \cup {Failed}
<1> DEFINE list == DevicesOf(l)
           S == {i \in DOMAIN list : list[i].code = code}
<1>1. PICK n \in Nat : DOMAIN list = 1..n
  BY ListsAreLists DEF IsList
<1>2. CASE S = {}
  BY <1>2 DEF ByCode
<1>3. CASE S # {}
  <2>1. S \in SUBSET (0..n)
    BY <1>1
  <2>2. Max(S) \in S
    <3> HIDE DEF S
    <3> QED BY <1>3, <2>1, MaxIs
  <2>3. ByCode(list, code) = list[Max(S)]
    BY <1>3 DEF ByCode
  <2>4. list[Max(S)] \in ToSet(list)
    BY <2>2 DEF ToSet
  <2> QED BY <2>3, <2>4 DEF Devices
<1> QED BY <1>2, <1>3

\* Where symbols are apart, the symbol is the longest and no shorter one reads.
LEMMA NoShorterReading ==
    ASSUME SymbolsApart, names \in NamesByCode, NEW l \in Lists,
           NEW s \in Seq(STRING), NEW n \in Readings(DevicesOf(l), s),
           BySymbol(DevicesOf(l), names, SymbolPart(s)) # Failed
    PROVE  n = SymbolLen(s)
<1> DEFINE list == DevicesOf(l)
           k == SymbolLen(s)
           p == Uppercase(SubSeq(s, 1, n))
           q == Uppercase(SubSeq(s, 1, k))
<1> SUFFICES ASSUME n # k PROVE FALSE
  OBVIOUS
<1>1. n \in 1..Len(s) /\ n <= k
  BY ReadingIsLetters
<1>2. k \in 0..Len(s) /\ n \in 0..Len(s) /\ Len(s) \in Nat
  BY <1>1, SymbolLenIs
<1>3. n < k
  BY <1>1, <1>2
<1>4. /\ BySymbol(list, names, p).base = "Hexadecimal"
      /\ \A i \in (n + 1)..k : Capital(s[i]) \in HexLetters
  BY <1>3, LettersAsDigits
<1>5. /\ DOMAIN p = 1..n /\ \A i \in 1..n : p[i] = Capital(s[i])
      /\ DOMAIN q = 1..k /\ \A i \in 1..k : q[i] = Capital(s[i])
  BY <1>2, UppercaseIs
<1>6. BySymbol(list, names, p) # Failed
  BY DEF Readings, Reads
<1>7. BySymbol(list, names, q) # Failed
  BY DEF SymbolPart
<1> HIDE DEF list, k, p, q
<1>8. /\ p \in SymbolsOf(list, names) /\ p \in Seq(ToSet(Capitals))
      /\ q \in SymbolsOf(list, names) /\ q \in Seq(ToSet(Capitals))
  BY <1>6, <1>7, FoundSymbol DEF list
<1>9. Len(p) = n /\ Len(q) = k
  BY <1>2, <1>5, <1>8
<1>10. SubSeq(q, 1, n) = p
  <2>1. SubSeq(q, 1, n) = [i \in 1..n |-> q[i]]
    BY <1>1, <1>2, <1>3, <1>8, <1>9
  <2>2. p = [i \in 1..n |-> p[i]]
    BY <1>8, <1>9
  <2>3. \A i \in 1..n : q[i] = p[i]
    BY <1>1, <1>2, <1>3, <1>5
  <2> QED BY <2>1, <2>2, <2>3
<1>11. PICK i \in (Len(p) + 1)..Len(q) : q[i] \notin HexLetters
  BY <1>3, <1>4, <1>8, <1>9, <1>10 DEF SymbolsApart, list
<1>12. i \in (n + 1)..k /\ i \in 1..k
  BY <1>1, <1>2, <1>9, <1>11
<1> QED BY <1>4, <1>5, <1>11, <1>12

\* What the helpers make of a text is its only reading.
LEMMA OneMeaning ==
    ASSUME SymbolsApart, names \in NamesByCode, NEW l \in Lists,
           NEW tx \in Seq(STRING)
    PROVE  LET list == DevicesOf(l)
               s == Trim(tx)
               readings == Readings(list, s)
               r == ReadingOf(list, names, tx)
           IN  IF r = Failed
               THEN \A n \in readings : IsLetter(s[n + 1])
               ELSE IF OnlyLetters(s)
               THEN r.addr = 0
               ELSE \E n \in readings :
                       /\ readings = {n}
                       /\ Uppercase(SubSeq(s, 1, n)) = names[r.device.code]
                       /\ ValueOf(Behind(s, n), r.device.base) = r.addr
<1> DEFINE list == DevicesOf(l)
           s == Trim(tx)
           k == SymbolLen(s)
           readings == Readings(list, s)
           r == ReadingOf(list, names, tx)
           full == ParseDeviceAndAddress(list, names, tx)
           alone == BySymbol(list, names, Uppercase(tx))
           device == BySymbol(list, names, SymbolPart(s))
<1>1. /\ s \in Seq(STRING)
      /\ \A i \in 1..Len(s) : \E j \in 1..Len(tx) : s[i] = tx[j]
  BY TrimIs
<1>2. /\ full # Failed <=> k \in readings
      /\ full # Failed =>
             full = [device |-> device,
                     addr |-> ValueOf(Behind(s, k), device.base)]
  BY <1>1, ParseIs
<1>3. r = IF full # Failed THEN full
          ELSE IF OnlyLetters(tx) /\ alone # Failed
          THEN [device |-> alone, addr |-> 0]
          ELSE Failed
  BY DEF ReadingOf
<1>4. /\ k \in 0..Len(s) /\ Len(s) \in Nat
      /\ \A i \in 1..k : IsLetter(s[i])
      /\ k < Len(s) => ~IsLetter(s[k + 1])
  BY <1>1, SymbolLenIs
<1>5. ASSUME NEW n \in readings
      PROVE  n \in 1..Len(s) /\ n < Len(s) /\ n <= k
  BY <1>1, <1>5, ReadingIsLetters
<1>6. OnlyLetters(tx) => OnlyLetters(s)
  BY <1>1 DEF OnlyLetters
<1>7. OnlyLetters(s) => full = Failed
  <2>1. OnlyLetters(s) => k = Len(s)
    BY <1>1, <1>4 DEF OnlyLetters
  <2> HIDE DEF s, k, readings, full
  <2> QED BY <1>2, <1>4, <1>5, <2>1
<1>8. ASSUME full = Failed, NEW n \in readings PROVE IsLetter(s[n + 1])
  <2>1. n # k
    BY <1>2, <1>8
  <2> HIDE DEF s, k, readings
  <2>2. n + 1 \in 1..k
    BY <1>4, <1>5, <1>8, <2>1
  <2> QED BY <1>4, <2>2
<1>9. full # Failed => device # Failed
  BY <1>2 DEF Readings, Reads, SymbolPart
<1>10. ASSUME full # Failed
       PROVE  /\ readings = {k}
              /\ Uppercase(SubSeq(s, 1, k)) = names[full.device.code]
              /\ ValueOf(Behind(s, k), full.device.base) = full.addr
  <2>1. device # Failed
    BY <1>9, <1>10
  <2>2. \A n \in readings : n = k
    BY <1>1, <2>1, NoShorterReading
  <2>3. names[device.code] = SymbolPart(s)
    BY <2>1, FoundSymbol
  <2>4. SymbolPart(s) = Uppercase(SubSeq(s, 1, k))
    BY DEF SymbolPart
  <2> HIDE DEF s, k, readings, device, full
  <2> QED BY <1>2, <1>10, <2>2, <2>3, <2>4
<1> HIDE DEF s, k, readings, r, full, alone, device
<1>11. IF r = Failed
       THEN \A n \in readings : IsLetter(s[n + 1])
       ELSE IF OnlyLetters(s)
       THEN r.addr = 0
       ELSE \E n \in readings :
               /\ readings = {n}
               /\ Uppercase(SubSeq(s, 1, n)) = names[r.device.code]
               /\ ValueOf(Behind(s, n), r.device.base) = r.addr
  <2>1. CASE r = Failed
    BY <1>2, <1>3, <1>8, <2>1
  <2>2. CASE r # Failed /\ OnlyLetters(s)
    BY <1>3, <1>7, <2>2
  <2>3. CASE r # Failed /\ ~OnlyLetters(s)
    <3>1. r = full /\ full # Failed
      BY <1>3, <1>6, <2>3
    <3>2. k \in readings
      BY <1>2, <3>1
    <3> QED BY <1>10, <2>3, <3>1, <3>2
  <2> QED BY <2>1, <2>2, <2>3
<1> QED BY <1>11, Zenon DEF list, s, readings, r

\* Without a table nothing is read, and with one nothing would be.
LEMMA NoTableNoMeaning ==
    ASSUME NEW list, NEW nm, NEW tx \in Seq(STRING), ~NeedsTable(tx)
    PROVE  ReadingOf(list, nm, tx) = Failed
<1>1. /\ ~(SymbolLen(Trim(tx)) > 0 /\ NumberPart(Trim(tx)) # << >>)
      /\ ~OnlyLetters(tx)
  BY DEF NeedsTable
<1>2. ~(SymbolLen(Trim(tx)) > 0) => SymbolLen(Trim(tx)) = 0
  BY TrimIs, SymbolLenIs
<1> QED BY <1>1, <1>2 DEF ReadingOf, ParseDeviceAndAddress

(***************************************************************************)
(* How far the request of a task is.                                       *)
(***************************************************************************)
\* A task that makes a table is its only maker, and the table is not there.
MakerShape ==
    \A t \in Tasks : want[t] # None =>
        /\ pc[t] \in {"read", "set", "get"}
        /\ maker[want[t]] = t
        /\ tables[want[t]] = None

ForSymbol(t) == pc[t] = "symbol" \/ want[t] = "bySymbol"
ForCode(t) == pc[t] = "code" \/ want[t] = "byCode"

\* The text has been read with the table of the symbols.
Named(t) ==
    /\ NeedsTable(text[t])
    /\ tables["bySymbol"] # None
    /\ named[t] = ReadingOf(DevicesOf(tables["bySymbol"]), names, text[t])

\* The request has been refused, or its code has been looked up.
Settled(t) ==
    \/ ~NeedsTable(text[t]) /\ named[t] = Failed /\ checked[t] = Failed
    \/ Named(t) /\ named[t] = Failed /\ checked[t] = Failed
    \/ /\ Named(t) /\ named[t] # Failed
       /\ tables["byCode"] # None
       /\ checked[t] = ByCode(DevicesOf(tables["byCode"]), named[t].device.code)

\* How far the request of a task is, and what it has found so far.
ProgressOf(t) ==
    /\ ForSymbol(t) =>
           text[t] # None /\ NeedsTable(text[t]) /\ checked[t] = Failed
    /\ ForCode(t) =>
           text[t] # None /\ Named(t) /\ named[t] # Failed /\ checked[t] = Failed
    /\ text[t] = None => checked[t] = Failed
    /\ text[t] # None /\ ~ForSymbol(t) /\ ~ForCode(t) => Settled(t)
Progress == \A t \in Tasks : ProgressOf(t)

ReadingInv == MakerShape /\ Progress

\* No task has a text at first.
LEMMA InitReading == Init => ReadingInv
BY SMTT(20), DeviceAssumption DEF Init, ReadingInv, MakerShape, Progress, ProgressOf,
        ForSymbol, ForCode

\* Every step keeps a task in one of its stages.
LEMMA NextReading == TypeOK /\ ReadingInv /\ [Next]_vars => ReadingInv'
<1> SUFFICES ASSUME TypeOK, ReadingInv, [Next]_vars PROVE ReadingInv'
  OBVIOUS
<1> USE DeviceAssumption
        DEF ReadingInv, MakerShape, Progress, ProgressOf, ForSymbol, ForCode,
            Named, Settled, TypeOK, Names, tableVars, textVars
<1>1. ASSUME NEW t \in Tasks, Ask(t) PROVE ReadingInv'
  <2>1. MakerShape'
    BY <1>1 DEF Ask
  <2>2. ASSUME NEW u \in Tasks, u # t PROVE ProgressOf(u)'
    BY <1>1, <2>2 DEF Ask
  <2>3. PICK s \in Texts :
            /\ text' = [text EXCEPT ![t] = s]
            /\ pc' = [pc EXCEPT ![t] = IF NeedsTable(s) THEN "symbol" ELSE "idle"]
    BY <1>1 DEF Ask
  <2>4. /\ text'[t] = s /\ s # None
        /\ pc'[t] = IF NeedsTable(s) THEN "symbol" ELSE "idle"
        /\ want'[t] = None /\ checked'[t] = Failed /\ named'[t] = Failed
    BY <1>1, <2>3 DEF Ask
  <2>5. ProgressOf(t)'
    BY <2>4
  <2> QED BY <2>1, <2>2, <2>5
<1>2. ASSUME NEW t \in Tasks, Name(t) PROVE ReadingInv'
  <2>1. MakerShape'
    BY <1>2 DEF Name
  <2>2. ASSUME NEW u \in Tasks, u # t PROVE ProgressOf(u)'
    BY <1>2, <2>2 DEF Name
  <2>3. /\ named'[t] = ReadingOf(DevicesOf(tables["bySymbol"]), names, text[t])
        /\ pc'[t] = IF named'[t] = Failed THEN "idle" ELSE "code"
        /\ want'[t] = None /\ tables["bySymbol"] # None
        /\ text[t] # None /\ NeedsTable(text[t]) /\ checked[t] = Failed
    BY <1>2 DEF Name
  <2>4. UNCHANGED <<text, names, tables, checked>>
    BY <1>2 DEF Name
  <2>5. ProgressOf(t)'
    BY <2>3, <2>4
  <2> QED BY <2>1, <2>2, <2>5
<1>3. ASSUME NEW t \in Tasks, Check(t) PROVE ReadingInv'
  <2>1. MakerShape'
    BY <1>3 DEF Check
  <2>2. ASSUME NEW u \in Tasks, u # t PROVE ProgressOf(u)'
    BY <1>3, <2>2 DEF Check
  <2>3. /\ checked'[t] = ByCode(DevicesOf(tables["byCode"]), named[t].device.code)
        /\ pc'[t] = "idle" /\ want'[t] = None /\ tables["byCode"] # None
        /\ text[t] # None /\ Named(t) /\ named[t] # Failed
    BY <1>3 DEF Check
  <2>4. UNCHANGED <<text, names, tables, named>>
    BY <1>3 DEF Check
  <2>5. ProgressOf(t)'
    BY <2>3, <2>4
  <2> QED BY <2>1, <2>2, <2>5
<1>4. ASSUME NEW t \in Tasks, Make(t) PROVE ReadingInv'
  BY <1>4 DEF Make, Needs
<1>5. ASSUME NEW t \in Tasks, ListDevices(t) PROVE ReadingInv'
  BY <1>5 DEF ListDevices
<1>6. ASSUME NEW t \in Tasks, ReadFile(t) PROVE ReadingInv'
  BY <1>6 DEF ReadFile
<1>7. ASSUME NEW t \in Tasks, SetStore(t) PROVE ReadingInv'
  BY <1>7 DEF SetStore
<1>8. ASSUME NEW t \in Tasks, GetSlice(t) PROVE ReadingInv'
  BY <1>8 DEF GetSlice
<1>9. ASSUME NEW t \in Tasks, RegisterOverrides(t) PROVE ReadingInv'
  BY <1>9 DEF RegisterOverrides
<1>10. CASE Install
  BY <1>10 DEF Install
<1>11. CASE UNCHANGED vars
  BY <1>11 DEF vars
<1> QED BY <1>1, <1>2, <1>3, <1>4, <1>5, <1>6, <1>7, <1>8, <1>9, <1>10, <1>11
        DEF Next

(***************************************************************************)
(* Types.                                                                  *)
(***************************************************************************)
\* It is so at first.
LEMMA InitType == Init => TypeOK
BY DEF Init, TypeOK, Names

\* Every step keeps the types: what Name and Check find is in the lists.
LEMMA NextType == TypeOK /\ ReadingInv /\ [Next]_vars => TypeOK'
<1> SUFFICES ASSUME TypeOK, ReadingInv, [Next]_vars PROVE TypeOK'
  OBVIOUS
<1> USE DEF TypeOK, tableVars, textVars
<1>1. ASSUME NEW t \in Tasks, Ask(t) PROVE TypeOK'
  BY <1>1 DEF Ask
<1>2. ASSUME NEW t \in Tasks, Name(t) PROVE TypeOK'
  <2>1. /\ text[t] \in Texts /\ tables["bySymbol"] \in Lists
        /\ named' = [named EXCEPT ![t] =
                       ReadingOf(DevicesOf(tables["bySymbol"]), names, text[t])]
    BY <1>2 DEF Name, Names, ReadingInv, Progress, ProgressOf, ForSymbol
  <2>2. text[t] \in Seq(STRING)
    BY <2>1, DeviceAssumption
  <2>3. named' \in [Tasks -> Meanings \cup {Failed}]
    BY <2>1, <2>2, ReadingIsMeaning
  <2> QED BY <1>2, <2>3 DEF Name
<1>3. ASSUME NEW t \in Tasks, Check(t) PROVE TypeOK'
  <2>1. tables["byCode"] \in Lists
    BY <1>3 DEF Check, Names
  <2>2. checked' \in [Tasks -> Devices \cup {Failed}]
    BY <1>3, <2>1, CodeIsDevice DEF Check
  <2> QED BY <1>3, <2>2 DEF Check
<1>4. ASSUME NEW t \in Tasks, Make(t) PROVE TypeOK'
  BY <1>4 DEF Make, Needs, Names
<1>5. ASSUME NEW t \in Tasks, ListDevices(t) PROVE TypeOK'
  BY <1>5 DEF ListDevices
<1>6. ASSUME NEW t \in Tasks, ReadFile(t) PROVE TypeOK'
  BY <1>6 DEF ReadFile
<1>7. ASSUME NEW t \in Tasks, SetStore(t) PROVE TypeOK'
  BY <1>7 DEF SetStore
<1>8. ASSUME NEW t \in Tasks, GetSlice(t) PROVE TypeOK'
  BY <1>8 DEF GetSlice, Names, Lists
<1>9. ASSUME NEW t \in Tasks, RegisterOverrides(t) PROVE TypeOK'
  BY <1>9 DEF RegisterOverrides
<1>10. CASE Install
  BY <1>10 DEF Install
<1>11. CASE UNCHANGED vars
  BY <1>11 DEF vars
<1> QED BY <1>1, <1>2, <1>3, <1>4, <1>5, <1>6, <1>7, <1>8, <1>9, <1>10, <1>11
        DEF Next

\* The types and what is known of the tasks hold together: a task reads a text
\* only when it has one.
LEMMA TypeAndReading == Spec => [](TypeOK /\ ReadingInv)
BY InitType, NextType, InitReading, NextReading, PTL DEF Spec

\* Every variable of the device tables keeps its type, for any tasks, texts and
\* files: what a text means is a device of some list with an address of 24 bits,
\* and so is what the checks look at.
THEOREM TypeCorrect == Spec => []TypeOK
BY TypeAndReading, PTL

(***************************************************************************)
(* One list.                                                               *)
(***************************************************************************)

\* Where an acceptable file is always there, every list in use is the stored
\* one; where there is none, nothing is stored and the list is the compiled.
OneList ==
    IF file \in Good
    THEN /\ \A t \in Tasks : pc[t] = "set" => parsed[t] # None
         /\ \A t \in Tasks : pc[t] = "get" => store # None
         /\ \A n \in Names : tables[n] # None =>
                store # None /\ tables[n] = store
    ELSE /\ store = None
         /\ \A t \in Tasks : pc[t] # "set"
         /\ \A n \in Names : tables[n] \in {None, "compiled"}

\* There is no list in use at first.
LEMMA InitOneList == Init => OneList
BY DEF Init, OneList

\* Every step keeps to the stored list, or to the compiled one.
LEMMA NextOneList ==
    Stable /\ TypeOK /\ OneList /\ [Next]_vars => OneList'
<1> SUFFICES ASSUME Stable, TypeOK, OneList, [Next]_vars PROVE OneList'
  OBVIOUS
<1> USE DistinctNames DEF OneList, tableVars, textVars
<1>1. ASSUME NEW t \in Tasks, Ask(t) PROVE OneList'
  BY <1>1 DEF Ask, TypeOK
<1>2. ASSUME NEW t \in Tasks, Name(t) PROVE OneList'
  BY <1>2 DEF Name, TypeOK
<1>3. ASSUME NEW t \in Tasks, Check(t) PROVE OneList'
  BY <1>3 DEF Check, TypeOK
<1>4. ASSUME NEW t \in Tasks, Make(t) PROVE OneList'
  BY <1>4 DEF Make, TypeOK
<1>5. ASSUME NEW t \in Tasks, ListDevices(t) PROVE OneList'
  BY <1>5 DEF ListDevices, TypeOK
<1>6. ASSUME NEW t \in Tasks, ReadFile(t) PROVE OneList'
  BY <1>6 DEF ReadFile, TypeOK
<1>7. ASSUME NEW t \in Tasks, SetStore(t) PROVE OneList'
  BY <1>7 DEF SetStore, TypeOK
<1>8. ASSUME NEW t \in Tasks, GetSlice(t) PROVE OneList'
  BY <1>8 DEF GetSlice, TypeOK
<1>9. ASSUME NEW t \in Tasks, RegisterOverrides(t) PROVE OneList'
  BY <1>9 DEF RegisterOverrides
<1>10. CASE Install
  BY <1>10 DEF Install
<1>11. CASE UNCHANGED vars
  BY <1>11 DEF vars
<1> QED BY <1>1, <1>2, <1>3, <1>4, <1>5, <1>6, <1>7, <1>8, <1>9, <1>10, <1>11
        DEF Next

\* Both tables are made from one list, for any files and any number of tasks,
\* if the file is acceptable always or never.
THEOREM TablesAgreeCorrect ==
    ASSUME Stable
    PROVE  Spec => []TablesAgree
<1>1. TypeOK /\ OneList => TablesAgree
  BY DEF OneList, TablesAgree, Names
<1>2. TypeOK /\ OneList /\ [Next]_vars => OneList'
  BY NextOneList
<1> QED
  BY <1>1, <1>2, InitOneList, TypeCorrect, PTL DEF Spec

(***************************************************************************)
(* One reading.                                                            *)
(***************************************************************************)
\* A device text means the same device and the same address in every task and
\* at all times, whatever is installed in between.
THEOREM SameReadingCorrect == Spec => []SameReading
<1>1. TypeOK /\ ReadingInv => SameReading
  BY DEF ReadingInv, MakerShape, Progress, ProgressOf, ForSymbol, ForCode,
         Named, Settled, SameReading, TypeOK, Names
<1> QED BY <1>1, TypeAndReading, PTL

\* The device of a reading is the device of some symbol.
LEMMA ReadingHasSymbol ==
    ASSUME NEW list, NEW nm, NEW s, ReadingOf(list, nm, s) # Failed
    PROVE  \E sym : /\ BySymbol(list, nm, sym) # Failed
                    /\ ReadingOf(list, nm, s).device = BySymbol(list, nm, sym)
<1> DEFINE full == ParseDeviceAndAddress(list, nm, s)
           alone == BySymbol(list, nm, Uppercase(s))
           first == BySymbol(list, nm, SymbolPart(Trim(s)))
<1>1. CASE full # Failed
  <2>1. ReadingOf(list, nm, s) = full
    BY <1>1 DEF ReadingOf
  <2>2. first # Failed /\ full.device = first
    BY <1>1 DEF ParseDeviceAndAddress
  <2> QED BY <2>1, <2>2
<1>2. CASE full = Failed
  <2>1. /\ alone # Failed
        /\ ReadingOf(list, nm, s) = [device |-> alone, addr |-> 0]
    BY <1>2 DEF ReadingOf
  <2> QED BY <2>1
<1> QED BY <1>1, <1>2

\* The device whose category is checked when the request is built, found by the
\* code, is the device that the text names, although the two tables are made
\* at different times and a symbol of a file need not be that of its code.
THEOREM ChecksNamedDeviceCorrect ==
    ASSUME Stable
    PROVE  Spec => []ChecksNamedDevice
<1>1. TypeOK /\ ReadingInv /\ TablesAgree => ChecksNamedDevice
  <2> SUFFICES ASSUME TypeOK, ReadingInv, TablesAgree,
                      NEW t \in Tasks, checked[t] # Failed
               PROVE  checked[t] = named[t].device
    BY DEF ChecksNamedDevice
  <2> DEFINE list == DevicesOf(tables["bySymbol"])
  <2>1. /\ named[t] # Failed
        /\ tables["bySymbol"] # None /\ tables["byCode"] # None
        /\ named[t] = ReadingOf(list, names, text[t])
        /\ checked[t] = ByCode(DevicesOf(tables["byCode"]), named[t].device.code)
    BY DEF ReadingInv, Progress, ProgressOf, ForSymbol, ForCode, Named, Settled
  <2>2. checked[t] = ByCode(list, named[t].device.code)
    BY <2>1 DEF TablesAgree
  <2>3. names \in NamesByCode /\ IsList(list)
    BY <2>1, ListsAreLists DEF TypeOK, Names
  <2>4. PICK sym : /\ BySymbol(list, names, sym) # Failed
                   /\ named[t].device = BySymbol(list, names, sym)
    BY <2>1, ReadingHasSymbol
  <2> QED BY <2>2, <2>3, <2>4, FoundByCode
<1> QED
  BY <1>1, TypeAndReading, TablesAgreeCorrect, PTL

\* Where symbols are apart, a device text that is accepted reads as its device
\* and its address and in no other way, for texts, files and lists of any
\* length: the address is what the digits make in the base of the device, the
\* symbol is the name of the code, and no other split of the text reads.  A text
\* that is refused has no reading, unless its address begins with a letter.
THEOREM OnlyReadingCorrect ==
    ASSUME SymbolsApart
    PROVE  Spec => []OnlyReading
<1>1. TypeOK /\ ReadingInv => OnlyReading
  <2> SUFFICES ASSUME TypeOK, ReadingInv, NEW t \in Tasks, text[t] # None,
                      pc[t] \in {"idle", "code"}, tables["bySymbol"] # None
               PROVE  LET s == Trim(text[t])
                          readings == Readings(DevicesOf(tables["bySymbol"]), s)
                      IN  IF named[t] = Failed
                          THEN \A n \in readings : IsLetter(s[n + 1])
                          ELSE IF OnlyLetters(s)
                          THEN named[t].addr = 0
                          ELSE \E n \in readings :
                                  /\ readings = {n}
                                  /\ Uppercase(SubSeq(s, 1, n))
                                        = names[named[t].device.code]
                                  /\ ValueOf(Behind(s, n), named[t].device.base)
                                        = named[t].addr
    BY DEF OnlyReading
  <2> DEFINE list == DevicesOf(tables["bySymbol"])
  <2>1. names \in NamesByCode /\ tables["bySymbol"] \in Lists
    BY DEF TypeOK, Names
  <2>2. text[t] \in Seq(STRING)
    BY DeviceAssumption DEF TypeOK
  <2> HIDE DEF list
  <2>3. /\ ForCode(t) => Named(t)
        /\ ~ForCode(t) => Settled(t)
    <3>1. want[t] = None /\ None # "bySymbol"
      BY DeviceAssumption DEF ReadingInv, MakerShape
    <3>2. ~ForSymbol(t)
      BY <3>1 DEF ForSymbol
    <3> QED BY <3>2 DEF ReadingInv, Progress, ProgressOf
  <2>4. \/ named[t] = ReadingOf(list, names, text[t])
        \/ ~NeedsTable(text[t]) /\ named[t] = Failed
    BY <2>3 DEF Named, Settled, list
  <2>5. named[t] = ReadingOf(list, names, text[t])
    BY <2>2, <2>4, NoTableNoMeaning
  <2> QED BY <2>1, <2>2, <2>5, OneMeaning DEF list
<1> QED BY <1>1, TypeAndReading, PTL

(***************************************************************************)
(* One registration.                                                       *)
(***************************************************************************)
\* Every step keeps the first registration the only one.
LEMMA NextOneRegistration ==
    OneRegistration /\ [Next]_vars => OneRegistration'
<1> SUFFICES ASSUME OneRegistration, [Next]_vars PROVE OneRegistration'
  OBVIOUS
<1> USE DEF OneRegistration
<1>1. ASSUME NEW t \in Tasks, RegisterOverrides(t) PROVE OneRegistration'
  <2>1. PICK f \in DOMAIN Files :
           /\ overrides' = IF overrides = None THEN f ELSE overrides
           /\ registered' = IF overrides = None THEN registered \cup {f}
                            ELSE registered
    BY <1>1 DEF RegisterOverrides
  <2>2. f # None
    BY DeviceAssumption
  <2> QED BY <2>1, <2>2
<1>2. CASE UNCHANGED <<overrides, registered>>
  BY <1>2
<1> QED
  BY <1>1, <1>2
  DEF Next, Ask, Name, Check, Make, ListDevices, ReadFile, SetStore, GetSlice,
      Install, vars

\* Whoever registers overrides, of however many tasks and however often, the
\* first registration is the only one that succeeds.
THEOREM OneRegistrationCorrect == Spec => []OneRegistration
<1>1. Init => OneRegistration
  BY DEF Init, OneRegistration
<1> QED BY <1>1, NextOneRegistration, PTL DEF Spec
====
