---------------------------- MODULE MemoryProofs ----------------------------
(***************************************************************************)
(* DeviceAccess implements DeviceMemory, for any calls, memories and       *)
(* limits: what goes through the bytes of requests and answers is what a   *)
(* memory of typed values would take and return.                           *)
(***************************************************************************)
EXTENDS CodecProofs

(***************************************************************************)
(* Bits of numbers.                                                        *)
(***************************************************************************)
Sixteen == {0, 1, 2, 3, 4, 5, 6, 7, 8, 9, 10, 11, 12, 13, 14, 15}

LEMMA SixteenIs == 0..15 = Sixteen
BY DEF Sixteen

\* What is above the 16 bits of a word does not change them.
LEMMA BitsBelow ==
    ASSUME NEW x \in Int, NEW y \in Int, NEW z \in Int, z = x + Memory!WordRange * y,
           NEW k \in 0..15
    PROVE  Memory!BitOf(z, k) = Memory!BitOf(x, k)
<1> DEFINE P(i) == Memory!BitOf(x + 65536 * y, i) = Memory!BitOf(x, i)
<1>1. P(0) /\ P(1) /\ P(2) /\ P(3) /\ P(4)
  BY SMT DEF Memory!BitOf
<1>2. P(5) /\ P(6) /\ P(7) /\ P(8)
  BY SMT DEF Memory!BitOf
<1>3. P(9) /\ P(10) /\ P(11)
  BY SMT DEF Memory!BitOf
<1>4. P(12) /\ P(13) /\ P(14) /\ P(15)
  BY SMT DEF Memory!BitOf
<1>5. k \in Sixteen
  BY SixteenIs
<1> HIDE DEF P
<1>6. P(k)
  BY <1>1, <1>2, <1>3, <1>4, <1>5 DEF Sixteen
<1>7. z = x + 65536 * y
  BY SMT DEF Memory!WordRange
<1> QED BY <1>6, <1>7, SMT DEF P

LEMMA Quotients ==
    ASSUME NEW x \in Nat
    PROVE  /\ x \div 32 = (x \div 16) \div 2 /\ x \div 64 = (x \div 16) \div 4
           /\ x \div 128 = (x \div 16) \div 8 /\ x \div 256 = (x \div 16) \div 16
           /\ x \div 512 = (x \div 256) \div 2 /\ x \div 1024 = (x \div 256) \div 4
           /\ x \div 2048 = (x \div 256) \div 8 /\ x \div 4096 = (x \div 256) \div 16
           /\ x \div 8192 = (x \div 4096) \div 2 /\ x \div 16384 = (x \div 4096) \div 4
           /\ x \div 32768 = (x \div 4096) \div 8
BY SMT

\* The bits that make a word are the bits of that word.
LEMMA BitsBack ==
    ASSUME NEW bits, \A i \in 1..16 : bits[i] \in BOOLEAN
    PROVE  \A k \in 0..15 : Memory!BitOf(WordOfBits(bits), k) = bits[k + 1]
<1> DEFINE digits == [i \in 1..16 |-> IF bits[17 - i] THEN 1 ELSE 0]
           bit(k) == IF bits[k + 1] THEN 1 ELSE 0
<1>1. PICK f : Horner(f, 2, digits, 16) /\ WordOfBits(bits) = f[16]
  BY BitsByHorner
<1>2. ASSUME NEW k \in 0..15 PROVE f[16 - k] = 2 * f[15 - k] + bit(k)
  <2>1. 16 - k \in 0..16 /\ 16 - k # 0 /\ (16 - k) - 1 = 15 - k /\ 16 - k \in 1..16
        /\ 17 - (16 - k) = k + 1
    OBVIOUS
  <2>2. digits[16 - k] = bit(k)
    BY <2>1
  <2> HIDE DEF digits, bit
  <2> QED BY <1>1, <2>1, <2>2 DEF Horner
<1>3. \A k \in 0..15 : bit(k) \in {0, 1} /\ (bit(k) = 1 <=> bits[k + 1])
  OBVIOUS
<1>4. \A i \in 0..16 : f[i] \in Nat
  <2>1. \A i \in 1..16 : digits[i] \in Nat
    OBVIOUS
  <2>2. Horner(f, 2, digits, 16)
    BY <1>1
  <2> HIDE DEF digits
  <2> QED BY ZenonT(50), SMTT(20), <2>1, <2>2, HornerType
<1> HIDE DEF bit, digits
<1>5. ASSUME NEW k \in 0..12
      PROVE  /\ f[16 - k] % 2 = bit(k) /\ (f[16 - k] \div 2) % 2 = bit(k + 1)
             /\ (f[16 - k] \div 4) % 2 = bit(k + 2)
             /\ (f[16 - k] \div 8) % 2 = bit(k + 3) /\ f[16 - k] \div 16 = f[12 - k]
  <2> DEFINE x == f[16 - k]  a == f[15 - k]  b == f[14 - k]  c == f[13 - k]
             d == f[12 - k]
             p == bit(k)  q == bit(k + 1)  r == bit(k + 2)  t == bit(k + 3)
  <2>1. x = 2 * a + p /\ a = 2 * b + q /\ b = 2 * c + r /\ c = 2 * d + t
    <3>1. /\ f[16 - (k + 1)] = 2 * f[15 - (k + 1)] + bit(k + 1)
          /\ f[16 - (k + 2)] = 2 * f[15 - (k + 2)] + bit(k + 2)
          /\ f[16 - (k + 3)] = 2 * f[15 - (k + 3)] + bit(k + 3)
      BY <1>2
    <3>2. /\ 16 - (k + 1) = 15 - k /\ 15 - (k + 1) = 14 - k /\ 16 - (k + 2) = 14 - k
          /\ 15 - (k + 2) = 13 - k /\ 16 - (k + 3) = 13 - k /\ 15 - (k + 3) = 12 - k
      OBVIOUS
    <3> QED BY <1>2, <3>1, <3>2
  <2>2. p \in {0, 1} /\ q \in {0, 1} /\ r \in {0, 1} /\ t \in {0, 1}
    BY <1>3
  <2>3. x \in Nat /\ a \in Nat /\ b \in Nat /\ c \in Nat /\ d \in Nat
    BY <1>4
  <2> HIDE DEF x, a, b, c, d, p, q, r, t
  <2>4. /\ x % 2 = p /\ (x \div 2) % 2 = q /\ (x \div 4) % 2 = r
        /\ (x \div 8) % 2 = t /\ x \div 16 = d
    BY <2>1, <2>2, <2>3
  <2> QED BY <2>4 DEF x, d, p, q, r, t
<1> DEFINE w == f[16]
           P(k) == Memory!BitOf(w, k) = (bit(k) = 1)
<1>6. /\ w \in Nat /\ w % 2 = bit(0) /\ (w \div 2) % 2 = bit(1)
      /\ (w \div 4) % 2 = bit(2) /\ (w \div 8) % 2 = bit(3) /\ w \div 16 = f[12]
  <2>1. 0 \in 0..12 /\ 16 - 0 = 16 /\ 12 - 0 = 12 /\ 0 + 1 = 1 /\ 0 + 2 = 2 /\ 0 + 3 = 3
    OBVIOUS
  <2> QED BY <1>4, <1>5, <2>1
<1>7. /\ f[12] % 2 = bit(4) /\ (f[12] \div 2) % 2 = bit(5) /\ (f[12] \div 4) % 2 = bit(6)
      /\ (f[12] \div 8) % 2 = bit(7) /\ f[12] \div 16 = f[8]
  <2>1. 4 \in 0..12 /\ 16 - 4 = 12 /\ 12 - 4 = 8 /\ 4 + 1 = 5 /\ 4 + 2 = 6 /\ 4 + 3 = 7
    OBVIOUS
  <2> QED BY <1>5, <2>1
<1>8. /\ f[8] % 2 = bit(8) /\ (f[8] \div 2) % 2 = bit(9) /\ (f[8] \div 4) % 2 = bit(10)
      /\ (f[8] \div 8) % 2 = bit(11) /\ f[8] \div 16 = f[4]
  <2>1. 8 \in 0..12 /\ 16 - 8 = 8 /\ 12 - 8 = 4 /\ 8 + 1 = 9 /\ 8 + 2 = 10 /\ 8 + 3 = 11
    OBVIOUS
  <2> QED BY <1>5, <2>1
<1>9. /\ f[4] % 2 = bit(12) /\ (f[4] \div 2) % 2 = bit(13) /\ (f[4] \div 4) % 2 = bit(14)
      /\ (f[4] \div 8) % 2 = bit(15)
  <2>1. 12 \in 0..12 /\ 16 - 12 = 4 /\ 12 + 1 = 13 /\ 12 + 2 = 14 /\ 12 + 3 = 15
    OBVIOUS
  <2> QED BY <1>5, <2>1
<1> HIDE DEF w
<1>10. P(0) /\ P(1) /\ P(2) /\ P(3)
  BY <1>6 DEF Memory!BitOf
<1>11. P(4) /\ P(5) /\ P(6) /\ P(7)
  BY <1>6, <1>7, Quotients DEF Memory!BitOf
<1>12. P(8) /\ P(9) /\ P(10) /\ P(11)
  BY <1>6, <1>7, <1>8, Quotients DEF Memory!BitOf
<1>13. P(12) /\ P(13) /\ P(14) /\ P(15)
  BY <1>6, <1>7, <1>8, <1>9, Quotients DEF Memory!BitOf
<1> HIDE DEF P
<1>14. \A k \in 0..15 : P(k)
  BY <1>10, <1>11, <1>12, <1>13, SixteenIs DEF Sixteen
<1> QED BY <1>1, <1>3, <1>14 DEF P, w

(***************************************************************************)
(* Values and the bits of their words.                                     *)
(***************************************************************************)
Types == {"u16", "i16", "i32", "bits16"}

LEMMA ValuesAre ==
    /\ DOMAIN Memory!Values = Types
    /\ Memory!Values["u16"] = Word16 /\ Memory!Values["i32"] = Int
    /\ \A v : v \in Memory!Values["i16"] <=> v \in Int /\ -32768 <= v /\ v <= 32767
    /\ Memory!Values["bits16"] = [1..16 -> BOOLEAN]
<1>1. /\ DOMAIN Memory!Values = Types
      /\ Memory!Values["u16"] = 0..Memory!MaxUnsigned /\ Memory!Values["i32"] = Int
      /\ Memory!Values["i16"] = Memory!MinSigned..Memory!MaxSigned
      /\ Memory!Values["bits16"] = [1..16 -> BOOLEAN]
  BY DEF Memory!Values, Types
<1>2. Memory!MinSigned \in Int /\ Memory!MaxSigned \in Int
  BY SMT DEF Memory!MinSigned, Memory!MaxSigned
<1>3. \A v : v \in Memory!Values["i16"]
              <=> v \in Int /\ Memory!MinSigned <= v /\ v <= Memory!MaxSigned
  BY <1>1, <1>2
<1>4. 0..Memory!MaxUnsigned = Word16
  <2>1. Memory!MaxUnsigned = MaxWord
    BY SMT DEF Memory!MaxUnsigned, MaxWord
  <2> QED BY <2>1 DEF Word16
<1>5. Memory!MinSigned = -32768 /\ Memory!MaxSigned = 32767
  BY SMT DEF Memory!MinSigned, Memory!MaxSigned
<1>6. \A v : v \in Memory!Values["i16"] <=> v \in Int /\ -32768 <= v /\ v <= 32767
  BY <1>3, <1>5, SMT
<1> QED BY <1>1, <1>4, <1>6, SMT

\* These words have the bits of a value.
Carries(type, ws, v) ==
    \A k \in 0..(16 * WordsOfType(type) - 1) :
        Memory!BitOf(ws[k \div 16 + 1], k % 16) = Memory!ValueBit(type, v, k)

LEMMA LowBit ==
    ASSUME NEW type, type # "bits16", NEW v \in Int, NEW k \in 0..15
    PROVE  Memory!ValueBit(type, v, k) = Memory!BitOf(v, k)
<1>1. k \div 16 = 0 /\ k % 16 = k
  OBVIOUS
<1>2. Memory!WordRange^0 = 1 /\ v \div 1 = v
  BY SMT DEF Memory!WordRange
<1> QED BY <1>1, <1>2, Zenon DEF Memory!ValueBit

LEMMA HighBit ==
    ASSUME NEW v \in Int, NEW k \in 16..31
    PROVE  Memory!ValueBit("i32", v, k) = Memory!BitOf(v \div 65536, k - 16)
<1>1. k \div 16 = 1 /\ k % 16 = k - 16
  OBVIOUS
<1>2. Memory!WordRange^1 = Memory!WordRange
  BY SMT DEF Memory!WordRange
<1>3. Memory!ValueBit("i32", v, k) = Memory!BitOf(v \div Memory!WordRange, k - 16)
  BY <1>1, <1>2, Zenon DEF Memory!ValueBit
<1> QED BY <1>3, SMT DEF Memory!WordRange

\* A word taken for a signed one keeps its bits.
LEMMA SignedBits ==
    ASSUME NEW w \in Word16
    PROVE  /\ Signed16(w) \in Int /\ -32768 <= Signed16(w) /\ Signed16(w) <= 32767
           /\ \A k \in 0..15 : Memory!BitOf(Signed16(w), k) = Memory!BitOf(w, k)
<1>1. w \in Nat /\ w <= 65535
  BY Word16Is
<1>2. Signed16(w) \in Int /\ -32768 <= Signed16(w) /\ Signed16(w) <= 32767
  BY <1>1, SMT DEF Signed16
<1>3. PICK y \in Int : Signed16(w) = w + Memory!WordRange * y
  <2>1. Signed16(w) = w + Memory!WordRange * 0 \/ Signed16(w) = w + Memory!WordRange * (-1)
    BY <1>1, SMT DEF Signed16, Memory!WordRange
  <2> QED BY <2>1, SMT
<1>4. w \in Int /\ Signed16(w) \in Int
  BY <1>1, <1>2
<1>5. \A k \in 0..15 : Memory!BitOf(Signed16(w), k) = Memory!BitOf(w, k)
  BY <1>3, <1>4, BitsBelow
<1> QED BY <1>2, <1>5, SMT

\* A number and its rest modulo 65536 have the same low bits.
LEMMA RestBits ==
    ASSUME NEW v \in Int
    PROVE  /\ v % 65536 \in Word16
           /\ \A k \in 0..15 : Memory!BitOf(v % 65536, k) = Memory!BitOf(v, k)
<1> DEFINE rest == v % 65536
           above == v \div 65536
<1>1. /\ rest \in Nat /\ rest <= 65535 /\ rest \in Int /\ above \in Int
      /\ v = rest + Memory!WordRange * above
  BY SMT DEF Memory!WordRange
<1> HIDE DEF rest, above
<1>2. \A k \in 0..15 : Memory!BitOf(v, k) = Memory!BitOf(rest, k)
  BY <1>1, BitsBelow
<1>3. rest \in Word16
  BY <1>1, Word16Is, SMT
<1> QED BY <1>2, <1>3, SMT DEF rest

\* What read_words_as makes of words has their bits.
LEMMA FromCarries ==
    ASSUME NEW type \in Types, NEW ws, \A j \in 1..WordsOfType(type) : ws[j] \in Word16
    PROVE  /\ Carries(type, ws, FromWords(type, ws))
           /\ FromWords(type, ws) \in Memory!Values[type]
<1>1. CASE type = "i32"
  <2> DEFINE v == Double(ws[1], Signed16(ws[2]))
  <2>1. WordsOfType(type) = 2 /\ FromWords(type, ws) = v
    BY <1>1 DEF WordsOfType, FromWords
  <2>2. ws[1] \in Word16 /\ ws[2] \in Word16 /\ Signed16(ws[2]) \in Int
    BY <2>1, SignedBits
  <2>3. v = ws[1] + 65536 * Signed16(ws[2]) /\ v \in Int
        /\ v \div 65536 = Signed16(ws[2])
    <3>1. ws[1] \in Nat /\ ws[1] <= 65535
      BY <2>2, Word16Is, SMT
    <3> QED BY <2>2, <3>1, SMT DEF Double
  <2> HIDE DEF v
  <2>4. ASSUME NEW k \in 0..15
        PROVE  Memory!BitOf(ws[1], k) = Memory!ValueBit(type, v, k)
    <3>1. ws[1] \in Int /\ v \in Int /\ v = ws[1] + Memory!WordRange * Signed16(ws[2])
      BY <2>2, <2>3, Word16Is, SMT DEF Memory!WordRange
    <3>2. Memory!BitOf(v, k) = Memory!BitOf(ws[1], k)
      BY <2>2, <3>1, BitsBelow
    <3> QED BY <1>1, <3>1, <3>2, LowBit
  <2>5. ASSUME NEW k \in 16..31
        PROVE  Memory!BitOf(ws[2], k - 16) = Memory!ValueBit(type, v, k)
    <3>1. k - 16 \in 0..15
      OBVIOUS
    <3> QED BY <1>1, <2>2, <2>3, <3>1, HighBit, SignedBits, SMT
  <2>6. ASSUME NEW k \in 0..31
        PROVE  Memory!BitOf(ws[k \div 16 + 1], k % 16) = Memory!ValueBit(type, v, k)
    <3>1. CASE k <= 15
      <4>1. k \div 16 + 1 = 1 /\ k % 16 = k /\ k \in 0..15
        BY <3>1
      <4> QED BY <2>4, <4>1, Zenon
    <3>2. CASE k >= 16
      <4>1. k \div 16 + 1 = 2 /\ k % 16 = k - 16 /\ k \in 16..31
        BY <3>2
      <4> QED BY <2>5, <4>1, Zenon
    <3> QED BY <3>1, <3>2
  <2>7. 16 * WordsOfType(type) - 1 = 31
    BY <2>1
  <2> QED BY <1>1, <2>1, <2>3, <2>6, <2>7, ValuesAre DEF Carries
<1>2. ASSUME type # "i32",
             FromWords(type, ws) \in Memory!Values[type],
             \A k \in 0..15 : Memory!BitOf(ws[1], k)
                                 = Memory!ValueBit(type, FromWords(type, ws), k)
      PROVE  Carries(type, ws, FromWords(type, ws))
  <2>1. \A k \in 0..15 : k \div 16 + 1 = 1 /\ k % 16 = k
    OBVIOUS
  <2>2. 16 * WordsOfType(type) - 1 = 15
    BY <1>2 DEF WordsOfType
  <2> QED BY <1>2, <2>1, <2>2 DEF Carries
<1>3. type # "i32" => ws[1] \in Word16
  BY DEF WordsOfType
<1>4. CASE type = "u16"
  <2>1. FromWords(type, ws) = ws[1] /\ ws[1] \in Word16 /\ ws[1] \in Int
    BY <1>3, <1>4, Word16Is DEF FromWords
  <2> QED BY <1>2, <1>4, <2>1, LowBit, ValuesAre
<1>5. CASE type = "i16"
  <2>1. FromWords(type, ws) = Signed16(ws[1]) /\ ws[1] \in Word16
    BY <1>3, <1>5 DEF FromWords
  <2>2. \A k \in 0..15 : Memory!BitOf(ws[1], k)
                            = Memory!ValueBit(type, Signed16(ws[1]), k)
    BY <1>5, <2>1, SignedBits, LowBit
  <2> QED BY <1>2, <1>5, <2>1, <2>2, SignedBits, ValuesAre
<1>6. CASE type = "bits16"
  <2>1. FromWords(type, ws) = BitsOfWord(ws[1])
    BY <1>6 DEF FromWords
  <2>2. BitsOfWord(ws[1]) \in [1..16 -> BOOLEAN]
    BY DEF BitsOfWord
  <2>3. ASSUME NEW k \in 0..15
        PROVE  Memory!BitOf(ws[1], k) = Memory!ValueBit(type, BitsOfWord(ws[1]), k)
    <3>1. k + 1 \in 1..16 /\ (k + 1) - 1 = k
      OBVIOUS
    <3>2. BitsOfWord(ws[1])[k + 1] = ((ws[1] \div 2^k) % 2 = 1)
      BY <3>1, Zenon DEF BitsOfWord
    <3> QED BY <1>6, <3>2, Zenon DEF Memory!ValueBit, Memory!BitOf
  <2> QED BY <1>2, <1>6, <2>1, <2>2, <2>3, ValuesAre
<1> QED BY <1>1, <1>2, <1>4, <1>5, <1>6 DEF Types

LEMMA ToWordsType ==
    ASSUME NEW type \in Types, NEW v \in Memory!Values[type]
    PROVE  /\ ToWords(type, v) \in Seq(Word16)
           /\ Len(ToWords(type, v)) = WordsOfType(type)
<1>1. type # "bits16" => v \in Int
  <2>1. Word16 \subseteq Int
    BY Word16Is
  <2> QED BY <2>1, ValuesAre DEF Types
<1>2. v \in Int => v % 65536 \in Word16 /\ (v \div 65536) % 65536 \in Word16
  <2> SUFFICES ASSUME v \in Int
               PROVE  v % 65536 \in Word16 /\ (v \div 65536) % 65536 \in Word16
    BY SMT
  <2>1. v \div 65536 \in Int
    BY SMT
  <2> QED BY <2>1, RestBits, SMT
<1>3. WordOfBits(v) \in Word16
  BY BitsType
<1> DEFINE low == v % 65536  high == (v \div 65536) % 65536
<1>4. ToWords(type, v) = CASE type \in {"u16", "i16"} -> <<low>>
                           [] type = "bits16" -> <<WordOfBits(v)>>
                           [] OTHER -> <<low, high>>
  BY SMT DEF ToWords
<1>5. v \in Int => low \in Word16 /\ high \in Word16
  BY <1>2, SMT
<1> HIDE DEF low, high
<1>6. CASE type \in {"u16", "i16"}
  BY <1>1, <1>4, <1>5, <1>6 DEF WordsOfType
<1>7. CASE type = "bits16"
  BY <1>3, <1>4, <1>7 DEF WordsOfType
<1>8. CASE type = "i32"
  BY <1>1, <1>4, <1>5, <1>8 DEF WordsOfType
<1> QED BY <1>6, <1>7, <1>8 DEF Types

\* The words that write_words_as makes of a value have its bits.
LEMMA ToCarries ==
    ASSUME NEW type \in Types, NEW v \in Memory!Values[type]
    PROVE  Carries(type, ToWords(type, v), v)
<1> DEFINE low == v % 65536
           above == v \div 65536
           high == above % 65536
           ws == ToWords(type, v)
<1>1. type # "bits16" => v \in Int
  <2>1. Word16 \subseteq Int
    BY Word16Is
  <2> QED BY <2>1, ValuesAre DEF Types
<1>2. v \in Int => /\ above \in Int
                   /\ \A k \in 0..15 : /\ Memory!BitOf(low, k) = Memory!BitOf(v, k)
                                       /\ Memory!BitOf(high, k) = Memory!BitOf(above, k)
  <2>1. v \in Int => above \in Int
    BY SMT
  <2> QED BY <2>1, RestBits, SMT
<1>3. ws = CASE type \in {"u16", "i16"} -> <<low>>
             [] type = "bits16" -> <<WordOfBits(v)>>
             [] OTHER -> <<low, high>>
  BY SMT DEF ToWords
<1>4. \A k \in 16..31 : v \in Int =>
          Memory!ValueBit("i32", v, k) = Memory!BitOf(above, k - 16)
  BY HighBit, SMT
<1> HIDE DEF low, above, high, ws
<1>5. ASSUME type # "i32",
             \A k \in 0..15 : Memory!BitOf(ws[1], k) = Memory!ValueBit(type, v, k)
      PROVE  Carries(type, ws, v)
  <2>1. \A k \in 0..15 : k \div 16 + 1 = 1 /\ k % 16 = k
    OBVIOUS
  <2>2. 16 * WordsOfType(type) - 1 = 15
    BY <1>5 DEF WordsOfType
  <2> QED BY <1>5, <2>1, <2>2 DEF Carries
<1>6. CASE type \in {"u16", "i16"}
  <2>1. ws[1] = low /\ v \in Int
    BY <1>1, <1>3, <1>6
  <2>2. \A k \in 0..15 : Memory!BitOf(ws[1], k) = Memory!ValueBit(type, v, k)
    BY <1>2, <1>6, <2>1, LowBit
  <2> QED BY <1>5, <1>6, <2>2 DEF ws
<1>7. CASE type = "bits16"
  <2>1. ws[1] = WordOfBits(v) /\ v \in [1..16 -> BOOLEAN]
    BY <1>3, <1>7, ValuesAre
  <2>2. \A k \in 0..15 : Memory!ValueBit(type, v, k) = v[k + 1]
    BY <1>7, Zenon DEF Memory!ValueBit
  <2>3. \A k \in 0..15 : Memory!BitOf(WordOfBits(v), k) = v[k + 1]
    BY <2>1, BitsBack
  <2> QED BY <1>5, <1>7, <2>1, <2>2, <2>3 DEF ws
<1>8. CASE type = "i32"
  <2>1. ws[1] = low /\ ws[2] = high /\ v \in Int
    BY <1>1, <1>3, <1>8
  <2>2. ASSUME NEW k \in 0..31
        PROVE  Memory!BitOf(ws[k \div 16 + 1], k % 16) = Memory!ValueBit(type, v, k)
    <3>1. CASE k <= 15
      <4>1. k \div 16 + 1 = 1 /\ k % 16 = k /\ k \in 0..15
        BY <3>1
      <4>2. Memory!BitOf(low, k) = Memory!ValueBit(type, v, k)
        BY <1>2, <1>8, <2>1, <4>1, LowBit
      <4> QED BY <2>1, <4>1, <4>2, Zenon
    <3>2. CASE k >= 16
      <4>1. k \div 16 + 1 = 2 /\ k % 16 = k - 16 /\ k \in 16..31 /\ k - 16 \in 0..15
        BY <3>2
      <4>2. Memory!BitOf(high, k - 16) = Memory!ValueBit(type, v, k)
        BY <1>2, <1>4, <1>8, <2>1, <4>1
      <4> QED BY <2>1, <4>1, <4>2, Zenon
    <3> QED BY <3>1, <3>2
  <2>3. 16 * WordsOfType(type) - 1 = 31
    BY <1>8 DEF WordsOfType
  <2> QED BY <2>2, <2>3 DEF Carries, ws
<1> QED BY <1>6, <1>7, <1>8 DEF Types

(***************************************************************************)
(* Words of the memory.                                                    *)
(***************************************************************************)

\* Word j of those from address a on, and the addresses of n words.
WordAt(m, sym, a, j) ==
    IF sym = "D" THEN m["D"][a + j - 1]
    ELSE WordOfBits([k \in 1..16 |-> m["M"][a + 16 * (j - 1) + k - 1]])
Area(sym, a, n) == IF sym = "D" THEN a..(a + n - 1) ELSE a..(a + 16 * n - 1)

LEMMA WordAtIs ==
    ASSUME NEW m, IsMemory(m), NEW sym \in {"D", "M"}, NEW a \in Nat, NEW n \in Nat,
           Area(sym, a, n) \subseteq DOMAIN m[sym], NEW j \in 1..n
    PROVE  /\ WordAt(m, sym, a, j) \in Word16
           /\ \A k \in 0..15 : Memory!BitOf(WordAt(m, sym, a, j), k)
                                  = Memory!BitAt(m, sym, a, 16 * (j - 1) + k)
<1>1. CASE sym = "D"
  <2>1. a + j - 1 \in DOMAIN m["D"]
    BY <1>1 DEF Area
  <2>2. WordAt(m, sym, a, j) = m["D"][a + j - 1] /\ m["D"][a + j - 1] \in Word16
    BY <1>1, <2>1 DEF WordAt, IsMemory
  <2>3. ASSUME NEW k \in 0..15
        PROVE  Memory!BitAt(m, sym, a, 16 * (j - 1) + k) = Memory!BitOf(m["D"][a + j - 1], k)
    <3>1. (16 * (j - 1) + k) \div 16 = j - 1 /\ (16 * (j - 1) + k) % 16 = k
      OBVIOUS
    <3>2. a + (j - 1) = a + j - 1
      OBVIOUS
    <3> QED BY <1>1, <3>1, <3>2, Zenon DEF Memory!BitAt
  <2> QED BY <2>2, <2>3
<1>2. CASE sym = "M"
  <2> DEFINE bits == [k \in 1..16 |-> m["M"][a + 16 * (j - 1) + k - 1]]
  <2>1. WordAt(m, sym, a, j) = WordOfBits(bits)
    BY <1>2 DEF WordAt
  <2>2. ASSUME NEW k \in 0..15
        PROVE  bits[k + 1] = m["M"][a + (16 * (j - 1) + k)] /\ bits[k + 1] \in BOOLEAN
    <3>1. k + 1 \in 1..16 /\ a + 16 * (j - 1) + (k + 1) - 1 = a + (16 * (j - 1) + k)
      OBVIOUS
    <3>2. a + (16 * (j - 1) + k) \in DOMAIN m["M"]
      BY <1>2 DEF Area
    <3> QED BY <3>1, <3>2 DEF IsMemory
  <2>3. \A i \in 1..16 : bits[i] \in BOOLEAN
    <3>1. \A i \in 1..16 : i - 1 \in 0..15 /\ (i - 1) + 1 = i
      OBVIOUS
    <3> HIDE DEF bits
    <3> QED BY <2>2, <3>1
  <2> HIDE DEF bits
  <2>4. \A k \in 0..15 : Memory!BitOf(WordOfBits(bits), k) = bits[k + 1]
    BY <2>3, BitsBack
  <2>5. \A k \in 0..15 : Memory!BitAt(m, sym, a, 16 * (j - 1) + k)
                            = m["M"][a + (16 * (j - 1) + k)]
    BY <1>2, Zenon DEF Memory!BitAt
  <2> QED BY <2>1, <2>2, <2>4, <2>5, BitsType
<1> QED BY <1>1, <1>2

\* Typed values are there when their words are.
\* n words have the bits that the memory has from address a on, and values are
\* what the words carry, one after the other.
SameBits(ws, n, m, sym, a) ==
    \A j \in 1..n : \A k \in 0..15 :
        Memory!BitOf(ws[j], k) = Memory!BitAt(m, sym, a, 16 * (j - 1) + k)
Carried(type, ws, vs) ==
    \A i \in 1..Len(vs) : \E part :
        /\ Carries(type, part, vs[i])
        /\ \A q \in 1..WordsOfType(type) : part[q] = ws[WordsOfType(type) * (i - 1) + q]

LEMMA HoldsWhen ==
    ASSUME NEW m, NEW sym, NEW a \in Nat, NEW type \in Types,
           NEW vs, Len(vs) \in Nat, NEW ws,
           SameBits(ws, Len(vs) * WordsOfType(type), m, sym, a), Carried(type, ws, vs)
    PROVE  Memory!Holds(m, sym, a, type, vs)
<1> DEFINE w == WordsOfType(type)
<1>1. PICK b \in {1, 2} : w = b /\ Memory!WordsPer(type) = b
  BY DEF WordsOfType, Memory!WordsPer
<1>2. ASSUME NEW i \in 1..Len(vs), NEW k \in 0..(16 * b - 1)
      PROVE  Memory!BitAt(m, sym, a, 16 * b * (i - 1) + k) = Memory!ValueBit(type, vs[i], k)
  <2>1. PICK part : /\ Carries(type, part, vs[i])
                    /\ \A q \in 1..b : part[q] = ws[b * (i - 1) + q]
    BY <1>1 DEF Carried
  <2>2. PICK q \in 0..(b - 1), r \in 0..15 : k = 16 * q + r
    <3>1. k \div 16 \in 0..(b - 1) /\ k % 16 \in 0..15 /\ k = 16 * (k \div 16) + (k % 16)
      OBVIOUS
    <3> QED BY <3>1
  <2>3. k \div 16 = q /\ k % 16 = r
    BY <2>2
  <2>4. Memory!BitOf(part[q + 1], r) = Memory!ValueBit(type, vs[i], k)
    BY <1>1, <2>1, <2>3 DEF Carries
  <2>5. /\ q + 1 \in 1..b /\ b * (i - 1) + (q + 1) \in 1..(Len(vs) * b)
        /\ 16 * ((b * (i - 1) + (q + 1)) - 1) + r = 16 * b * (i - 1) + k
    <3>1. CASE b = 1
      BY <2>2, <3>1
    <3>2. CASE b = 2
      BY <2>2, <3>2
    <3> QED BY <3>1, <3>2
  <2>6. part[q + 1] = ws[b * (i - 1) + (q + 1)]
    BY <2>1, <2>5
  <2>7. Memory!BitOf(ws[b * (i - 1) + (q + 1)], r)
            = Memory!BitAt(m, sym, a, 16 * ((b * (i - 1) + (q + 1)) - 1) + r)
    BY <1>1, <2>5 DEF SameBits
  <2> QED BY <2>4, <2>5, <2>6, <2>7
<1> QED BY <1>1, <1>2 DEF Memory!Holds

(***************************************************************************)
(* Where the parts of a sequence are that was joined from them.            *)
(***************************************************************************)

\* Part i begins behind position at[i].
Starts(at, t, n) ==
    /\ at[1] = 0
    /\ \A i \in 1..n : at[i + 1] = at[i] + Len(t[i])

Parts(t, n, S) == t = [i \in 1..n |-> t[i]] /\ \A i \in 1..n : t[i] \in Seq(S)

\* c is the parts, one after the other.
Lays(c, t, n, at) ==
    /\ Len(c) = at[n + 1]
    /\ \A i \in 1..n : /\ at[i] \in Nat
                       /\ at[i] + Len(t[i]) <= Len(c)
                       /\ \A q \in 1..Len(t[i]) : c[at[i] + q] = t[i][q]

LEMMA PartPlaces ==
    ASSUME NEW S, NEW n \in Nat, NEW t, Parts(t, n, S), NEW at, Starts(at, t, n)
    PROVE  FlattenSeq(t) \in Seq(S) /\ Lays(FlattenSeq(t), t, n, at)
<1>0. t = [i \in 1..n |-> t[i]] /\ \A i \in 1..n : t[i] \in Seq(S)
  BY DEF Parts
<1>1. FlattenSeq(t) = Joined(t, n)
  BY <1>0 DEF Joined
<1>2. \A i \in 0..n : Joined(t, i) \in Seq(S)
  BY <1>0, JoinedType
<1>3. ASSUME NEW i \in Nat, i + 1 \in 1..n
      PROVE  IsJoin(Joined(t, i + 1), Joined(t, i), t[i + 1])
  <2>1. Joined(t, i + 1) = Joined(t, i) \o t[i + 1]
    BY <1>0, <1>3, JoinedMore
  <2>2. Joined(t, i) \in Seq(S) /\ t[i + 1] \in Seq(S)
    BY <1>0, <1>2, <1>3
  <2> QED BY <2>1, <2>2, Appended
<1> DEFINE N == {i \in Nat : i \in 0..n => Len(Joined(t, i)) = at[i + 1]}
<1>4. 0 \in N
  BY JoinedNone DEF Starts
<1>5. ASSUME NEW i \in Nat, i \in N PROVE i + 1 \in N
  <2> SUFFICES ASSUME i + 1 \in 0..n PROVE Len(Joined(t, i + 1)) = at[(i + 1) + 1]
    OBVIOUS
  <2>1. i + 1 \in 1..n /\ i \in 0..n
    OBVIOUS
  <2>2. Len(Joined(t, i + 1)) = Len(Joined(t, i)) + Len(t[i + 1])
    BY <1>3, <2>1 DEF IsJoin
  <2> QED BY <1>5, <2>1, <2>2 DEF Starts
<1> HIDE DEF N
<1>6. Nat \subseteq N
  BY <1>4, <1>5, Induction
<1>7. \A i \in 0..n : Len(Joined(t, i)) = at[i + 1]
  BY <1>6 DEF N
<1>8. ASSUME NEW i \in 1..n
      PROVE  /\ at[i] \in Nat
             /\ at[i] + Len(t[i]) <= Len(Joined(t, n))
             /\ \A q \in 1..Len(t[i]) : Joined(t, n)[at[i] + q] = t[i][q]
  <2>1. PICK j \in 0..n : i = j + 1
    <3>1. i - 1 \in 0..n /\ i = (i - 1) + 1
      OBVIOUS
    <3> QED BY <3>1
  <2>2. at[i] = Len(Joined(t, j)) /\ at[i] \in Nat
    BY <1>2, <1>7, <2>1
  <2>3. IsJoin(Joined(t, i), Joined(t, j), t[i])
    BY <1>3, <2>1
  <2>4. Begins(Joined(t, n), Joined(t, i))
    BY <1>0, <2>1, JoinedPlaces
  <2>5. Len(Joined(t, i)) \in Nat /\ Len(t[i]) \in Nat /\ Len(Joined(t, n)) \in Nat
    BY <1>0, <1>2
  <2>6. Len(Joined(t, i)) = at[i] + Len(t[i]) /\ Len(Joined(t, i)) <= Len(Joined(t, n))
    BY <2>2, <2>3, <2>4 DEF IsJoin, Begins
  <2>7. ASSUME NEW q \in 1..Len(t[i]) PROVE Joined(t, n)[at[i] + q] = t[i][q]
    <3>1. at[i] + q \in 1..Len(Joined(t, i))
      BY <2>2, <2>5, <2>6
    <3>2. Joined(t, n)[at[i] + q] = Joined(t, i)[at[i] + q]
      BY <2>4, <3>1 DEF Begins
    <3> QED BY <2>2, <2>3, <3>2 DEF IsJoin
  <2> QED BY <2>2, <2>6, <2>7
<1>9. Joined(t, n) \in Seq(S) /\ Len(Joined(t, n)) = at[n + 1]
  BY <1>2, <1>7
<1> QED BY <1>1, <1>8, <1>9 DEF Lays

(***************************************************************************)
(* The requests of the commands, place by place: numbers.                  *)
(***************************************************************************)

\* The bytes of a number, low byte first, by the shifts that make them.
ByShifts(bytes, f, n) ==
    DOMAIN bytes = 1..n /\ \A k \in 1..n : bytes[k] = f[k - 1] % 256

LEMMA ShiftedBytes ==
    ASSUME NEW n \in Nat, NEW v \in Nat
    PROVE  \E f : Shifts(f, v, n) /\ ByShifts(WriteNBytes(n, v, TRUE), f, n)
<1> DEFINE f == CHOOSE g : g = [k \in 0..n |-> IF k = 0 THEN v ELSE g[k - 1] \div 256]
<1>1. Shifts(f, v, n)
  BY SMTT(20), ShiftsExists DEF Shifts
<1>2. WriteNBytes(n, v, TRUE) = [k \in 1..n |-> f[k - 1] % 256]
  BY DEF WriteNBytes
<1> HIDE DEF f
<1>3. ByShifts(WriteNBytes(n, v, TRUE), f, n)
  BY <1>2 DEF ByShifts
<1> QED BY <1>1, <1>3

\* v is in the data at offset i, in n bytes.
NumberAt(data, i, n, v) ==
    \A k \in 1..n : data[i + k] = WriteNBytes(n, v, TRUE)[k]

\* A number that is written with n bytes and read with n bytes.
LEMMA NumberBack ==
    ASSUME NEW data, NEW i \in Nat, NEW n \in {1, 2, 3, 4}, NEW v \in Nat,
           NumberAt(data, i, n, v)
    PROVE  /\ n = 1 /\ v <= 255 => Number(data, i, n) = v
           /\ n = 2 => Number(data, i, n) = v % Memory!WordRange
           /\ n > 2 /\ v <= MaxAddress => Number(data, i, n) = v
<1> DEFINE digits == [k \in 1..n |-> data[i + n + 1 - k]]
<1>0. n \in Nat
  OBVIOUS
<1>1. PICK f : Shifts(f, v, n) /\ ByShifts(WriteNBytes(n, v, TRUE), f, n)
  BY <1>0, ShiftedBytes
<1>2. PICK g : Horner(g, 256, digits, n) /\ Number(data, i, n) = g[n]
  BY <1>0, NumberByHorner
<1>3. ASSUME NEW k \in 1..n PROVE digits[k] = f[n - k] % 256
  <2>1. n + 1 - k \in 1..n /\ i + n + 1 - k = i + (n + 1 - k) /\ (n + 1 - k) - 1 = n - k
    OBVIOUS
  <2>2. digits[k] = data[i + (n + 1 - k)]
    BY <2>1
  <2> QED BY ZenonT(50), <1>1, <2>1, <2>2 DEF NumberAt, ByShifts
<1> HIDE DEF digits
<1>4. /\ f[0] = v
      /\ \A k \in 1..n : f[k] = f[k - 1] \div 256
  BY <1>1 DEF Shifts
<1>5. /\ g[0] = 0
      /\ \A k \in 1..n : g[k] = 256 * g[k - 1] + digits[k]
  BY <1>2 DEF Horner
<1>6. \A k \in 0..n : f[k] \in Nat
  BY <1>1, ShiftsType
<1>7. CASE n = 1
  <2>1. digits[1] = f[0] % 256 /\ g[1] = 256 * g[0] + digits[1]
    BY <1>3, <1>5, <1>7
  <2> QED BY <1>2, <1>4, <1>5, <1>7, <2>1
<1>8. CASE n = 2
  <2>1. digits[1] = f[1] % 256 /\ digits[2] = f[0] % 256 /\ f[1] = f[0] \div 256
    BY <1>3, <1>4, <1>8
  <2>2. g[1] = 256 * g[0] + digits[1] /\ g[2] = 256 * g[1] + digits[2]
    BY <1>5, <1>8
  <2>3. g[2] = v % 65536
    BY <1>4, <1>5, <2>1, <2>2, SMT
  <2> QED BY <1>2, <1>8, <2>3, SMT DEF Memory!WordRange
<1>9. CASE n = 3
  <2>1. /\ digits[1] = f[2] % 256 /\ digits[2] = f[1] % 256 /\ digits[3] = f[0] % 256
        /\ f[1] = f[0] \div 256 /\ f[2] = f[1] \div 256 /\ f[1] \in Nat /\ f[2] \in Nat
    BY <1>3, <1>4, <1>6, <1>9
  <2>2. /\ g[1] = 256 * g[0] + digits[1] /\ g[2] = 256 * g[1] + digits[2]
        /\ g[3] = 256 * g[2] + digits[3]
    BY <1>5, <1>9
  <2>3. v = 256 * f[1] + digits[3] /\ f[1] = 256 * f[2] + digits[2]
    BY <1>4, <2>1
  <2>4. v <= 16777215 => f[2] <= 255
    BY <1>4, <2>1, SMT
  <2>5. f[2] <= 255 => digits[1] = f[2]
    BY <2>1
  <2>6. v <= 16777215 => g[3] = v
    BY <1>5, <2>1, <2>2, <2>3, <2>4, <2>5, SMT
  <2> QED BY <1>2, <1>9, <2>6, SMT DEF MaxAddress
<1>10. CASE n = 4
  <2>1. /\ digits[1] = f[3] % 256 /\ digits[2] = f[2] % 256
        /\ digits[3] = f[1] % 256 /\ digits[4] = f[0] % 256
        /\ f[1] = f[0] \div 256 /\ f[2] = f[1] \div 256 /\ f[3] = f[2] \div 256
        /\ f[1] \in Nat /\ f[2] \in Nat /\ f[3] \in Nat
    BY <1>3, <1>4, <1>6, <1>10
  <2>2. /\ g[1] = 256 * g[0] + digits[1] /\ g[2] = 256 * g[1] + digits[2]
        /\ g[3] = 256 * g[2] + digits[3] /\ g[4] = 256 * g[3] + digits[4]
    BY <1>5, <1>10
  <2>3. /\ v = 256 * f[1] + digits[4] /\ f[1] = 256 * f[2] + digits[3]
        /\ f[2] = 256 * f[3] + digits[2]
    BY <1>4, <2>1
  <2>4. v <= 16777215 => f[3] <= 255
    BY <1>4, <2>1, SMT
  <2>5. f[3] <= 255 => digits[1] = f[3]
    BY <2>1
  <2>6. v <= 16777215 => g[4] = v
    BY <1>5, <2>1, <2>2, <2>3, <2>4, <2>5, SMT
  <2> QED BY <1>2, <1>10, <2>6, SMT DEF MaxAddress
<1> QED BY <1>7, <1>8, <1>9, <1>10

LEMMA ByteBack ==
    ASSUME NEW data, NEW i \in Nat, NEW v \in Nat, v <= 255,
           NumberAt(data, i, 1, v)
    PROVE  Number(data, i, 1) = v
<1>1. 1 \in {1, 2, 3, 4}
  OBVIOUS
<1> QED BY <1>1, NumberBack

LEMMA PairBack ==
    ASSUME NEW data, NEW i \in Nat, NEW v \in Nat,
           NumberAt(data, i, 2, v)
    PROVE  Number(data, i, 2) = v % Memory!WordRange
<1>1. 2 \in {1, 2, 3, 4}
  OBVIOUS
<1> QED BY <1>1, NumberBack

LEMMA AddressBack ==
    ASSUME NEW data, NEW i \in Nat, NEW n \in {3, 4}, NEW v \in Nat, v <= MaxAddress,
           NumberAt(data, i, n, v)
    PROVE  Number(data, i, n) = v
<1>1. n \in {1, 2, 3, 4} /\ n > 2
  OBVIOUS
<1> QED BY <1>1, NumberBack

(***************************************************************************)
(* The requests of the commands, place by place: the point of a command or *)
(* of a block.                                                             *)
(***************************************************************************)
AddressWidth(s) == IF s = "R" THEN 4 ELSE 3
CodeWidth(s) == IF s = "R" THEN 2 ELSE 1
PointWidth(s) == IF s = "R" THEN 8 ELSE 6

\* Parameters, or a block, that name points of an installed device.
NamesPoints(obj) ==
    /\ obj["start_addr"] \in Nat /\ obj["start_addr"] <= MaxAddress
    /\ obj["device_code"] \in {168, 144}
    /\ obj["count"] \in Nat

\* What the PLC is to make of them.
PointOf(obj) ==
    [addr |-> obj["start_addr"], sym |-> IF obj["device_code"] = 168 THEN "D" ELSE "M",
     count |-> obj["count"] % Memory!WordRange]

\* The address, the code and the count of obj are in the data at offset i.
Placed(data, i, obj, s) ==
    LET address == FieldBytes(PointFields[3], obj, s)
        code == FieldBytes(PointFields[4], obj, s)
        count == FieldBytes(PointFields[5], obj, s)
    IN  /\ \A q \in 1..AddressWidth(s) : data[i + q] = address[q]
        /\ \A q \in 1..CodeWidth(s) : data[i + AddressWidth(s) + q] = code[q]
        /\ \A q \in 1..2 : data[i + PointWidth(s) - 2 + q] = count[q]

LEMMA FixedBytes ==
    ASSUME NEW f, f.kind = "fixed", f.le = TRUE, NEW obj, NEW s
    PROVE  FieldBytes(f, obj, s) = WriteNBytes(FieldWidth(f, s), obj[f.name], TRUE)
<1>1. FieldBytes(f, obj, s) = WriteNBytes(FieldWidth(f, s), obj[f.name], LowFirst(f, s))
  BY Zenon DEF FieldBytes
<1>2. LowFirst(f, s) = TRUE
  BY DEF LowFirst
<1> QED BY <1>1, <1>2

LEMMA PointFieldBytes ==
    ASSUME NEW obj, NEW s
    PROVE  /\ FieldBytes(PointFields[3], obj, s)
                 = WriteNBytes(AddressWidth(s), obj["start_addr"], TRUE)
           /\ FieldBytes(PointFields[4], obj, s)
                 = WriteNBytes(CodeWidth(s), obj["device_code"], TRUE)
           /\ FieldBytes(PointFields[5], obj, s) = WriteNBytes(2, obj["count"], TRUE)
<1>1. /\ PointFields[3] = Field("start_addr", "fixed", 3, TRUE)
      /\ PointFields[4] = Field("device_code", "fixed", 1, TRUE)
      /\ PointFields[5] = Field("count", "fixed", 2, TRUE)
  BY DEF PointFields
<1>2. \A k \in {3, 4, 5} : PointFields[k].kind = "fixed" /\ PointFields[k].le = TRUE
  BY <1>1 DEF Field
<1>3. /\ PointFields[3].name = "start_addr" /\ PointFields[4].name = "device_code"
      /\ PointFields[5].name = "count"
  BY <1>1 DEF Field
<1>4. FieldWidth(PointFields[3], s) = AddressWidth(s)
  BY <1>1 DEF Field, FieldWidth, AddressWidth
<1>5. FieldWidth(PointFields[4], s) = CodeWidth(s)
  BY <1>1 DEF Field, FieldWidth, CodeWidth
<1>6. FieldWidth(PointFields[5], s) = 2
  BY <1>1 DEF Field, FieldWidth
<1> QED BY ZenonT(50), <1>2, <1>3, <1>4, <1>5, <1>6, FixedBytes

\* Such a point is what the PLC finds there.
LEMMA PointRead ==
    ASSUME NEW data, NEW s \in {"Q", "R"}, ForR(data) <=> s = "R", NEW i \in Nat,
           NEW obj, NamesPoints(obj), Placed(data, i, obj, s)
    PROVE  PointAt(data, i) = PointOf(obj)
<1> DEFINE a == AddressWidth(s)
           c == CodeWidth(s)
           last == i + PointLen(data) - 2
<1>1. /\ a = IF ForR(data) THEN 4 ELSE 3
      /\ c = IF ForR(data) THEN 2 ELSE 1
      /\ PointLen(data) = PointWidth(s)
      /\ a \in {3, 4} /\ c \in {1, 2} /\ PointWidth(s) = a + c + 2
  BY DEF AddressWidth, CodeWidth, PointWidth, PointLen
<1>2. /\ i + a \in Nat /\ last \in Nat /\ last = i + PointWidth(s) - 2
  BY <1>1
<1> HIDE DEF a, c, last
<1>3. Number(data, i, a) = obj["start_addr"]
  <2>1. NumberAt(data, i, a, obj["start_addr"])
    BY PointFieldBytes DEF Placed, NumberAt, a
  <2>2. a \in {3, 4}
    BY <1>1
  <2>3. obj["start_addr"] \in Nat /\ obj["start_addr"] <= MaxAddress
    BY DEF NamesPoints
  <2> QED BY <2>1, <2>2, <2>3, AddressBack
<1>4. Number(data, i + a, c) = obj["device_code"]
  <2> DEFINE code == obj["device_code"]
             from == i + a
  <2>1. NumberAt(data, from, c, code)
    BY PointFieldBytes DEF Placed, NumberAt, a, c
  <2>2. code \in Nat /\ code <= 255 /\ code % 65536 = code
    BY SMT DEF NamesPoints
  <2> HIDE DEF code, from
  <2>3. from \in Nat /\ c \in {1, 2}
    BY <1>1, <1>2 DEF from
  <2>4. code % Memory!WordRange = code
    BY <2>2, SMT DEF Memory!WordRange
  <2>5. ASSUME c = 1 PROVE Number(data, from, c) = code
    BY <2>1, <2>2, <2>3, <2>5, ByteBack
  <2>6. ASSUME c = 2 PROVE Number(data, from, c) = code
    <3>1. Number(data, from, 2) = code % Memory!WordRange
      BY <2>1, <2>2, <2>3, <2>6, PairBack
    <3> QED BY <2>4, <2>6, <3>1
  <2> QED BY <2>3, <2>5, <2>6 DEF code, from
<1>5. Number(data, last, 2) = obj["count"] % Memory!WordRange
  <2>1. NumberAt(data, last, 2, obj["count"])
    BY <1>2, PointFieldBytes DEF Placed, NumberAt
  <2>2. obj["count"] \in Nat
    BY DEF NamesPoints
  <2> QED BY <1>2, <2>1, <2>2, PairBack
<1>6. Devices.D.code = 168 /\ Devices.M.code = 144
  BY DEF Devices
<1>7. obj["device_code"] \in {168, 144}
  BY DEF NamesPoints
<1>8. PointAt(data, i)
        = [addr |-> Number(data, i, a),
           sym |-> IF Number(data, i + a, c) = 168 THEN "D"
                   ELSE IF Number(data, i + a, c) = 144 THEN "M" ELSE "?",
           count |-> Number(data, last, 2)]
  BY ZenonT(50), <1>1, <1>6 DEF PointAt, last
<1> HIDE DEF a, c, last
<1>9. CASE obj["device_code"] = 168
  BY <1>3, <1>4, <1>5, <1>8, <1>9 DEF PointOf
<1>10. CASE obj["device_code"] = 144
  BY <1>3, <1>4, <1>5, <1>8, <1>10 DEF PointOf
<1> QED BY <1>7, <1>9, <1>10

(***************************************************************************)
(* The commands of src/commands.toml, as CommandsStandard has them.        *)
(***************************************************************************)
Follows(spec, layout) ==
    /\ spec.code = layout.code /\ spec.sub = layout.sub
    /\ spec.family = layout.family /\ spec.fields = layout.fields
    /\ spec.entries = layout.entries /\ spec.templates = layout.templates

LEMMA LayoutIds ==
    DOMAIN Layouts = {"read_words", "read_bits", "write_words", "write_bits",
                      "read_blocks", "echo"}
BY DEF Layouts

LEMMA LayoutParts ==
    \A id \in DOMAIN Layouts : DOMAIN Layouts[id]
        = {"code", "sub", "family", "fields", "entries", "templates"}
<1>1. \A code, sub, family, fields, entries, templates :
         DOMAIN Layout(code, sub, family, fields, entries, templates)
            = {"code", "sub", "family", "fields", "entries", "templates"}
  BY DEF Layout
<1>2. ASSUME NEW id \in DOMAIN Layouts
      PROVE  \E code, sub, family, fields, entries, templates :
                Layouts[id] = Layout(code, sub, family, fields, entries, templates)
  <2>1. \/ id = "read_words" \/ id = "read_bits" \/ id = "write_words"
        \/ id = "write_bits" \/ id = "read_blocks" \/ id = "echo"
    BY <1>2, LayoutIds
  <2>2. CASE id = "read_words"
    BY <2>2, Zenon DEF Layouts
  <2>3. CASE id = "read_bits"
    BY <2>3, Zenon DEF Layouts
  <2>4. CASE id = "write_words"
    BY <2>4, Zenon DEF Layouts
  <2>5. CASE id = "write_bits"
    BY <2>5, Zenon DEF Layouts
  <2>6. CASE id = "read_blocks"
    BY <2>6, Zenon DEF Layouts
  <2>7. CASE id = "echo"
    BY <2>7, Zenon DEF Layouts
  <2> QED BY <2>1, <2>2, <2>3, <2>4, <2>5, <2>6, <2>7
<1> QED BY <1>1, <1>2

LEMMA StandardCommand ==
    ASSUME CommandsStandard, NEW o \in Ops, o.do # "echo"
    PROVE  /\ CommandId(o) \in DOMAIN Commands \cap DOMAIN Layouts
           /\ Follows(CommandOf(o), Layouts[CommandId(o)])
<1>1. /\ CommandId(o) \in DOMAIN Commands \cap DOMAIN Layouts
      /\ \A part \in DOMAIN Layouts[CommandId(o)] :
             CommandOf(o)[part] = Layouts[CommandId(o)][part]
  BY Zenon DEF CommandsStandard
<1> DEFINE layout == Layouts[CommandId(o)]
           spec == CommandOf(o)
<1>2. DOMAIN layout = {"code", "sub", "family", "fields", "entries", "templates"}
  BY <1>1, LayoutParts
<1>3. \A part \in DOMAIN layout : spec[part] = layout[part]
  BY <1>1
<1> HIDE DEF layout, spec
<1>4. Follows(spec, layout)
  BY <1>2, <1>3 DEF Follows
<1> QED BY <1>1, <1>4 DEF spec, layout

PointReads == {"read_words", "read_words_as", "read_bits"}
PointWrites == {"write_words_as", "write_bits"}
BitCalls == {"read_bits", "write_bits"}
CodeFor(o) == IF o.do \in PointReads THEN ReadCode ELSE WriteCode
SubFor(o, s) == (IF s = "R" THEN 2 ELSE 0) + (IF o.do \in BitCalls THEN 1 ELSE 0)
LastField(o) == IF o.do = "write_bits" THEN Field("payload", "bytes", 0, TRUE)
                ELSE Field("data", "words", 2, TRUE)
ReadEntry(o) == IF o.do = "read_bits" THEN Entry("data_blocks", "nibbles", FALSE)
                ELSE Entry("data_blocks", "words", TRUE)

\* A command that reads or writes the points of one device.
PointSpec(o, spec) ==
    /\ spec.code = CodeFor(o)
    /\ spec.family = IF o.do \in BitCalls THEN "Bit" ELSE "Any"
    /\ spec.fields = IF o.do \in PointReads THEN PointFields
                     ELSE Append(PointFields, LastField(o))
    /\ spec.entries = IF o.do \in PointReads THEN <<ReadEntry(o)>> ELSE << >>
    /\ spec.templates = << >>

LEMMA SeriesSub ==
    ASSUME NEW q, NEW r, NEW s \in {"Q", "R"}
    PROVE  Subcommand([of |-> [Q |-> q, R |-> r]], s) = IF s = "R" THEN r ELSE q
<1> DEFINE table == [Q |-> q, R |-> r]
           sub == [of |-> table]
<1>1. DOMAIN table = {"Q", "R"} /\ table["Q"] = q /\ table["R"] = r
  OBVIOUS
<1>2. sub.of = table /\ s # AnySeries
  BY DEF AnySeries
<1> HIDE DEF sub, table
<1>3. Subcommand(sub, s) = table[s]
  <2>1. s \in DOMAIN table /\ DOMAIN table # {}
    BY <1>1
  <2> QED BY <1>2, <2>1, Zenon DEF Subcommand
<1>4. Subcommand(sub, s) = IF s = "R" THEN r ELSE q
  BY <1>1, <1>3
<1> QED BY <1>4 DEF sub, table

LEMMA PointCommand ==
    ASSUME CommandsStandard, NEW o \in Ops, o.do \in PointReads \cup PointWrites
    PROVE  /\ CommandId(o) \in DOMAIN Commands /\ PointSpec(o, CommandOf(o))
           /\ \A s \in {"Q", "R"} : Subcommand(CommandOf(o).sub, s) = SubFor(o, s)
<1> DEFINE spec == CommandOf(o)
<1>1. CommandId(o) \in DOMAIN Commands /\ Follows(spec, Layouts[CommandId(o)])
  BY StandardCommand DEF PointReads, PointWrites
<1> HIDE DEF spec
<1>2. CASE o.do \in {"read_words", "read_words_as"}
  <2>1. CommandId(o) = "read_words"
    BY <1>2 DEF CommandId
  <2>2. Follows(spec, Layout(ReadCode, [Q |-> 0, R |-> 2], "Any", PointFields,
                             <<Entry("data_blocks", "words", TRUE)>>, << >>))
    BY <1>1, <2>1 DEF Layouts
  <2>3. /\ o.do \in PointReads /\ o.do \notin BitCalls /\ o.do # "read_bits"
    BY <1>2 DEF PointReads, BitCalls
  <2>4. /\ spec.code = ReadCode /\ spec.family = "Any" /\ spec.fields = PointFields
        /\ spec.entries = <<Entry("data_blocks", "words", TRUE)>> /\ spec.templates = << >>
        /\ spec.sub = [of |-> [Q |-> 0, R |-> 2]]
    BY <2>2 DEF Follows, Layout
  <2>5. PointSpec(o, spec)
    BY <2>3, <2>4, Zenon DEF PointSpec, CodeFor, ReadEntry
  <2>6. \A s \in {"Q", "R"} : Subcommand(spec.sub, s) = SubFor(o, s)
    BY <2>3, <2>4, SeriesSub DEF SubFor
  <2> QED BY <1>1, <2>5, <2>6 DEF spec
<1>3. CASE o.do = "read_bits"
  <2>1. CommandId(o) = "read_bits"
    BY <1>3 DEF CommandId
  <2>2. Follows(spec, Layout(ReadCode, [Q |-> 1, R |-> 3], "Bit", PointFields,
                             <<Entry("data_blocks", "nibbles", FALSE)>>, << >>))
    BY <1>1, <2>1 DEF Layouts
  <2>3. /\ o.do \in PointReads /\ o.do \in BitCalls
    BY <1>3 DEF PointReads, BitCalls
  <2>4. /\ spec.code = ReadCode /\ spec.family = "Bit" /\ spec.fields = PointFields
        /\ spec.entries = <<Entry("data_blocks", "nibbles", FALSE)>>
        /\ spec.templates = << >> /\ spec.sub = [of |-> [Q |-> 1, R |-> 3]]
    BY <2>2 DEF Follows, Layout
  <2>5. PointSpec(o, spec)
    BY <1>3, <2>3, <2>4, Zenon DEF PointSpec, CodeFor, ReadEntry
  <2>6. \A s \in {"Q", "R"} : Subcommand(spec.sub, s) = SubFor(o, s)
    BY <2>3, <2>4, SeriesSub DEF SubFor
  <2> QED BY <1>1, <2>5, <2>6 DEF spec
<1>4. CASE o.do = "write_words_as"
  <2>1. CommandId(o) = "write_words"
    BY <1>4 DEF CommandId
  <2>2. Follows(spec, Layout(WriteCode, [Q |-> 0, R |-> 2], "Any",
                             Append(PointFields, Field("data", "words", 2, TRUE)),
                             << >>, << >>))
    <3>1. Layouts["write_words"]
            = Layout(WriteCode, [Q |-> 0, R |-> 2], "Any",
                     Append(PointFields, Field("data", "words", 2, TRUE)), << >>, << >>)
      BY Zenon DEF Layouts
    <3> QED BY <1>1, <2>1, <3>1, Zenon
  <2>3. o.do \notin PointReads /\ o.do \notin BitCalls
    BY <1>4 DEF PointReads, BitCalls
  <2>4. /\ spec.code = WriteCode /\ spec.family = "Any"
        /\ spec.fields = Append(PointFields, Field("data", "words", 2, TRUE))
        /\ spec.entries = << >> /\ spec.templates = << >>
        /\ spec.sub = [of |-> [Q |-> 0, R |-> 2]]
    BY <2>2 DEF Follows, Layout
  <2>5. PointSpec(o, spec)
    BY <1>4, <2>3, <2>4, Zenon DEF PointSpec, CodeFor, LastField
  <2>6. \A s \in {"Q", "R"} : Subcommand(spec.sub, s) = SubFor(o, s)
    BY <2>3, <2>4, SeriesSub DEF SubFor
  <2> QED BY <1>1, <2>5, <2>6 DEF spec
<1>5. CASE o.do = "write_bits"
  <2>1. CommandId(o) = "write_bits"
    BY <1>5 DEF CommandId
  <2>2. Follows(spec, Layout(WriteCode, [Q |-> 1, R |-> 3], "Bit",
                             Append(PointFields, Field("payload", "bytes", 0, TRUE)),
                             << >>, << >>))
    <3>1. Layouts["write_bits"]
            = Layout(WriteCode, [Q |-> 1, R |-> 3], "Bit",
                     Append(PointFields, Field("payload", "bytes", 0, TRUE)), << >>, << >>)
      BY Zenon DEF Layouts
    <3> QED BY <1>1, <2>1, <3>1, Zenon
  <2>3. o.do \notin PointReads /\ o.do \in BitCalls
    BY <1>5 DEF PointReads, BitCalls
  <2>4. /\ spec.code = WriteCode /\ spec.family = "Bit"
        /\ spec.fields = Append(PointFields, Field("payload", "bytes", 0, TRUE))
        /\ spec.entries = << >> /\ spec.templates = << >>
        /\ spec.sub = [of |-> [Q |-> 1, R |-> 3]]
    BY <2>2 DEF Follows, Layout
  <2>5. PointSpec(o, spec)
    BY <1>5, <2>3, <2>4, Zenon DEF PointSpec, CodeFor, LastField
  <2>6. \A s \in {"Q", "R"} : Subcommand(spec.sub, s) = SubFor(o, s)
    BY <2>3, <2>4, SeriesSub DEF SubFor
  <2> QED BY <1>1, <2>5, <2>6 DEF spec
<1> QED BY <1>2, <1>3, <1>4, <1>5 DEF PointReads, PointWrites

(***************************************************************************)
(* The requests of the commands, place by place: all fields.               *)
(***************************************************************************)
LEMMA BytesLength ==
    ASSUME NEW n \in Nat, NEW v \in Nat, NEW le \in BOOLEAN
    PROVE  WriteNBytes(n, v, le) \in Seq(Byte) /\ Len(WriteNBytes(n, v, le)) = n
<1>1. WriteNBytes(n, v, le) \in Seq(Byte)
  BY LowBytes
<1>2. DOMAIN WriteNBytes(n, v, le) = 1..n
  BY DEF WriteNBytes
<1> QED BY <1>1, <1>2

LEMMA FieldHas ==
    ASSUME NEW fields, AreFields(fields), NEW i \in 1..Len(fields), NEW obj, NEW s,
           Has(ToSet(fields), obj)
    PROVE  /\ FieldBytes(fields[i], obj, s) \in Seq(Byte)
           /\ fields[i].kind = "fixed" =>
                 fields[i].name \in DOMAIN obj /\ obj[fields[i].name] \in Nat
<1>1. fields[i] \in ToSet(fields)
  BY DEF ToSet, AreFields, IsArray
<1>2. Has({fields[i]}, obj)
  BY <1>1 DEF Has
<1>3. IsField(fields[i])
  BY DEF AreFields, IsArray
<1>4. fields[i].kind = "fixed" =>
         fields[i].name \in DOMAIN obj /\ obj[fields[i].name] \in Nat
  BY <1>2 DEF Has
<1> QED BY <1>2, <1>3, <1>4, FieldBytesType

\* The two codes of a request take four bytes.
LEMMA CodeBytes ==
    ASSUME NEW f, f.kind = "fixed", f.n = 2, f.name \in {"command", "subcommand"},
           NEW obj, obj[f.name] \in Nat, NEW s
    PROVE  Len(FieldBytes(f, obj, s)) = 2
<1>1. FieldBytes(f, obj, s) = WriteNBytes(FieldWidth(f, s), obj[f.name], LowFirst(f, s))
  BY Zenon DEF FieldBytes
<1>2. FieldWidth(f, s) = 2
  BY DEF FieldWidth
<1>3. LowFirst(f, s) = TRUE
  BY DEF LowFirst
<1>4. Len(WriteNBytes(2, obj[f.name], TRUE)) = 2
  BY BytesLength
<1> QED BY <1>1, <1>2, <1>3, <1>4

LEMMA PointFieldsAre ==
    /\ Len(PointFields) = 5
    /\ PointFields[1].kind = "fixed" /\ PointFields[1].n = 2
    /\ PointFields[1].name = "command"
    /\ PointFields[2].kind = "fixed" /\ PointFields[2].n = 2
    /\ PointFields[2].name = "subcommand"
    /\ PointFields[3].kind = "fixed" /\ PointFields[3].name = "start_addr"
    /\ PointFields[4].kind = "fixed" /\ PointFields[4].name = "device_code"
    /\ PointFields[5].kind = "fixed" /\ PointFields[5].name = "count"
BY DEF PointFields, Field

\* How wide the bytes of a point are.
LEMMA PointWidths ==
    ASSUME NEW obj, NEW s, obj["start_addr"] \in Nat, obj["device_code"] \in Nat,
           obj["count"] \in Nat
    PROVE  /\ Len(FieldBytes(PointFields[3], obj, s)) = AddressWidth(s)
           /\ Len(FieldBytes(PointFields[4], obj, s)) = CodeWidth(s)
           /\ Len(FieldBytes(PointFields[5], obj, s)) = 2
           /\ PointWidth(s) = AddressWidth(s) + CodeWidth(s) + 2
           /\ AddressWidth(s) \in {3, 4} /\ CodeWidth(s) \in {1, 2}
<1>1. /\ AddressWidth(s) \in {3, 4} /\ CodeWidth(s) \in {1, 2}
      /\ PointWidth(s) = AddressWidth(s) + CodeWidth(s) + 2
  BY DEF AddressWidth, CodeWidth, PointWidth
<1>2. Len(WriteNBytes(AddressWidth(s), obj["start_addr"], TRUE)) = AddressWidth(s)
  BY <1>1, BytesLength
<1>3. Len(WriteNBytes(CodeWidth(s), obj["device_code"], TRUE)) = CodeWidth(s)
  BY <1>1, BytesLength
<1>4. Len(WriteNBytes(2, obj["count"], TRUE)) = 2
  BY BytesLength
<1> QED BY <1>1, <1>2, <1>3, <1>4, PointFieldBytes

LEMMA EmittedPoint ==
    ASSUME NEW fields, AreFields(fields), Len(fields) \in {5, 6},
           \A i \in 1..5 : fields[i] = PointFields[i],
           NEW obj, Has(ToSet(fields), obj), NEW s, NEW rest,
           rest = IF Len(fields) = 6 THEN FieldBytes(fields[6], obj, s) ELSE << >>
    PROVE  LET data == Emit(fields, obj, s) IN
           /\ data \in Seq(Byte) /\ rest \in Seq(Byte)
           /\ Len(data) = 4 + PointWidth(s) + Len(rest)
           /\ Placed(data, 4, obj, s)
           /\ \A q \in 1..Len(rest) : data[4 + PointWidth(s) + q] = rest[q]
<1> DEFINE n == Len(fields)
           t == [i \in 1..n |-> FieldBytes(fields[i], obj, s)]
           a == AddressWidth(s)
           c == CodeWidth(s)
           w == PointWidth(s)
           at == <<0, 2, 4, 4 + a, 4 + a + c, 4 + w, 4 + w + Len(rest)>>
           data == Emit(fields, obj, s)
<1>1. n \in {5, 6} /\ n \in Nat
  OBVIOUS
<1>2. ASSUME NEW i \in 1..n
      PROVE  /\ FieldBytes(fields[i], obj, s) \in Seq(Byte)
             /\ fields[i].kind = "fixed" =>
                   fields[i].name \in DOMAIN obj /\ obj[fields[i].name] \in Nat
  BY FieldHas
<1>3. \A i \in 1..5 : i \in 1..n
  BY <1>1
<1>4. /\ obj["command"] \in Nat /\ obj["subcommand"] \in Nat /\ obj["start_addr"] \in Nat
      /\ obj["device_code"] \in Nat /\ obj["count"] \in Nat
  <2>1. \A i \in 1..5 : PointFields[i].kind = "fixed"
                           => obj[PointFields[i].name] \in Nat
    BY <1>2, <1>3
  <2> QED BY <2>1, PointFieldsAre
<1>5. \A i \in 1..5 : t[i] = FieldBytes(PointFields[i], obj, s)
  BY <1>3
<1> HIDE DEF t
<1>6. Len(t[1]) = 2 /\ Len(t[2]) = 2
  <2>1. /\ Len(FieldBytes(PointFields[1], obj, s)) = 2
        /\ Len(FieldBytes(PointFields[2], obj, s)) = 2
    BY <1>4, PointFieldsAre, CodeBytes
  <2> QED BY <1>5, <2>1
<1>7. /\ Len(t[3]) = a /\ Len(t[4]) = c /\ Len(t[5]) = 2
      /\ w = a + c + 2 /\ a \in {3, 4} /\ c \in {1, 2}
  BY <1>4, <1>5, PointWidths
<1>8. rest \in Seq(Byte) /\ Len(rest) \in Nat
  <2>1. CASE n = 5
    BY <2>1, EmptySeq
  <2>2. CASE n = 6
    BY <1>2, <2>2
  <2> QED BY <1>1, <2>1, <2>2
<1>9. n = 6 => t[6] = rest
  BY DEF t
<1>10. \A i \in 1..n : t[i] \in Seq(Byte)
  BY <1>2 DEF t
<1>11. t = [i \in 1..n |-> t[i]]
  BY DEF t
<1>12. data = FlattenSeq(t)
  BY Zenon DEF Emit, t
<1> HIDE DEF a, c, w, n, data
<1>13. /\ at[1] = 0 /\ at[2] = 2 /\ at[3] = 4 /\ at[4] = 4 + a /\ at[5] = 4 + a + c
       /\ at[6] = 4 + w /\ at[7] = 4 + w + Len(rest)
  OBVIOUS
<1> HIDE DEF at
<1>14. Starts(at, t, n)
  <2>1. \A i \in 1..5 : at[i + 1] = at[i] + Len(t[i])
    <3>1. /\ at[1 + 1] = at[1] + Len(t[1]) /\ at[2 + 1] = at[2] + Len(t[2])
          /\ at[3 + 1] = at[3] + Len(t[3]) /\ at[4 + 1] = at[4] + Len(t[4])
          /\ at[5 + 1] = at[5] + Len(t[5])
      BY <1>6, <1>7, <1>13
    <3> QED BY <3>1
  <2>2. n = 6 => at[6 + 1] = at[6] + Len(t[6])
    BY <1>9, <1>13
  <2>3. ASSUME NEW i \in 1..n PROVE at[i + 1] = at[i] + Len(t[i])
    <3>1. CASE n = 5
      BY <2>1, <3>1
    <3>2. CASE n = 6
      <4>1. i \in 1..5 \/ i = 6
        BY <3>2
      <4> QED BY <2>1, <2>2, <3>2, <4>1
    <3> QED BY <1>1, <3>1, <3>2
  <2> QED BY <1>13, <2>3 DEF Starts
<1>15. /\ data \in Seq(Byte) /\ Len(data) = at[n + 1]
       /\ \A i \in 1..n : \A q \in 1..Len(t[i]) : data[at[i] + q] = t[i][q]
  <2>1. Parts(t, n, Byte)
    BY <1>10, <1>11 DEF Parts
  <2>2. FlattenSeq(t) \in Seq(Byte) /\ Lays(FlattenSeq(t), t, n, at)
    BY <1>1, <1>14, <2>1, PartPlaces
  <2> QED BY <1>12, <2>2 DEF Lays
<1>16. Len(data) = 4 + w + Len(rest)
  <2>1. CASE n = 5
    <3>1. Len(rest) = 0
      BY <2>1 DEF n
    <3>2. Len(data) = at[6] /\ w \in Nat
      BY <1>7, <1>15, <2>1
    <3>3. at[6] = 4 + w
      BY <1>13, Zenon
    <3>4. Len(data) = 4 + w
      BY <3>2, <3>3
    <3> QED BY ONLY <3>1, <3>2, <3>4
  <2>2. CASE n = 6
    BY <1>13, <1>15, <2>2
  <2> QED BY <1>1, <2>1, <2>2
<1>17. Placed(data, 4, obj, s)
  <2>1. \A i \in {3, 4, 5} : \A q \in 1..Len(t[i]) : data[at[i] + q] = t[i][q]
    BY <1>3, <1>15
  <2>2. /\ \A q \in 1..a : data[4 + q] = t[3][q]
        /\ \A q \in 1..c : data[4 + a + q] = t[4][q]
        /\ \A q \in 1..2 : data[4 + a + c + q] = t[5][q]
    BY <1>7, <1>13, <2>1
  <2>3. 4 + a + c = 4 + w - 2
    BY <1>7
  <2>4. /\ t[3] = FieldBytes(PointFields[3], obj, s) /\ t[4] = FieldBytes(PointFields[4], obj, s)
        /\ t[5] = FieldBytes(PointFields[5], obj, s)
    BY <1>5
  <2> QED BY <2>2, <2>3, <2>4 DEF Placed, a, c, w
<1>18. \A q \in 1..Len(rest) : data[4 + w + q] = rest[q]
  <2>1. CASE n = 5
    <3>1. Len(rest) = 0
      BY <2>1 DEF n
    <3> QED BY <3>1
  <2>2. CASE n = 6
    <3>1. 6 \in 1..n
      BY <2>2
    <3> QED BY <1>9, <1>13, <1>15, <2>2, <3>1
  <2> QED BY <1>1, <2>1, <2>2
<1> QED BY <1>8, <1>15, <1>16, <1>17, <1>18 DEF w, data

(***************************************************************************)
(* The requests of the commands, place by place: the calls on the points   *)
(* of one device.                                                          *)
(***************************************************************************)

\* Parameters that name a start and a device: the symbol is one of the table,
\* and the address fits three bytes.
Named(params, sym, addr, other) ==
    /\ sym \in {"D", "M"}
    /\ params["start_addr"] = (IF addr < 0 THEN 0 ELSE addr)
    /\ params["start_addr"] \in Nat /\ params["start_addr"] <= MaxAddress
    /\ params["device_code"] = (IF sym = "D" THEN 168 ELSE 144)
    /\ \A key \in DOMAIN other : key \in DOMAIN params /\ params[key] = other[key]

LEMMA ParamsName ==
    ASSUME NEW sym, NEW addr \in Nat \cup {Absent}, NEW other,
           "start_addr" \notin DOMAIN other, "device_code" \notin DOMAIN other,
           NEW params, params = With(DeviceParams(sym, addr), other),
           "start_addr" \in DOMAIN params, "device_code" \in DOMAIN params
    PROVE  Named(params, sym, addr, other)
<1> DEFINE named == DeviceParams(sym, addr)
<1>1. DOMAIN Devices = {"D", "M"} /\ Devices["D"].code = 168 /\ Devices["M"].code = 144
  BY DEF Devices
<1>2. /\ DOMAIN params = DOMAIN named \cup DOMAIN other
      /\ \A key \in DOMAIN params :
            params[key] = IF key \in DOMAIN named THEN named[key] ELSE other[key]
  BY DEF With
<1>3. "start_addr" \in DOMAIN named /\ "device_code" \in DOMAIN named
  BY <1>2
<1>4. DOMAIN NoKeys = {}
  BY DEF NoKeys
<1>5. CASE addr = Absent
  <2>1. sym \in {"D", "M"}
    <3>1. CASE sym \notin DOMAIN Devices
      <4>1. named = [start_addr |-> 0]
        BY <1>5, <3>1, Zenon DEF DeviceParams
      <4> QED BY <1>3, <4>1
    <3> QED BY <1>1, <3>1
  <2>2. named = [start_addr |-> 0, device_code |-> Devices[sym].code]
    BY <1>1, <1>5, <2>1, Zenon DEF DeviceParams
  <2>3. /\ DOMAIN named = {"start_addr", "device_code"} /\ named["start_addr"] = 0
        /\ named["device_code"] = Devices[sym].code
    BY <2>2
  <2>4. addr < 0
    BY <1>5 DEF Absent
  <2>5. 0 <= MaxAddress
    BY SMT DEF MaxAddress
  <2> HIDE DEF named
  <2> QED BY <1>1, <1>2, <2>1, <2>3, <2>4, <2>5 DEF Named
<1>6. CASE addr # Absent
  <2>1. sym \in DOMAIN Devices /\ addr <= MaxAddress
    <3>1. CASE ~(sym \in DOMAIN Devices /\ addr <= MaxAddress)
      <4>1. named = NoKeys
        BY <1>6, <3>1, Zenon DEF DeviceParams
      <4> QED BY <1>3, <1>4, <4>1
    <3> QED BY <3>1
  <2>2. named = [start_addr |-> addr, device_code |-> Devices[sym].code]
    BY <1>6, <2>1, Zenon DEF DeviceParams
  <2>3. /\ DOMAIN named = {"start_addr", "device_code"} /\ named["start_addr"] = addr
        /\ named["device_code"] = Devices[sym].code
    BY <2>2
  <2>4. ~(addr < 0) /\ addr \in Nat
    BY <1>6
  <2> HIDE DEF named
  <2> QED BY <1>1, <1>2, <2>1, <2>3, <2>4 DEF Named
<1> QED BY <1>5, <1>6

\* The parts of a joined sequence, when all have the same length.
Even(t, n, b) == \A i \in 1..n : Len(t[i]) = b
LaysEvenly(c, t, n, b) ==
    /\ Len(c) = b * n
    /\ \A i \in 1..n : \A q \in 1..b : c[b * (i - 1) + q] = t[i][q]

LEMMA EvenParts ==
    ASSUME NEW S, NEW n \in Nat, NEW t, Parts(t, n, S), NEW b \in Nat, Even(t, n, b)
    PROVE  FlattenSeq(t) \in Seq(S) /\ LaysEvenly(FlattenSeq(t), t, n, b)
<1>0. \A i \in 1..n : Len(t[i]) = b
  BY DEF Even
<1> DEFINE at == [i \in 1..(n + 1) |-> b * (i - 1)]
<1>1. at[n + 1] = b * n
  <2>1. n + 1 \in 1..(n + 1) /\ (n + 1) - 1 = n
    OBVIOUS
  <2> QED BY <2>1
<1>2. \A i \in 1..n : at[i] = b * (i - 1)
  OBVIOUS
<1>3. Starts(at, t, n)
  <2>1. at[1] = 0
    <3>1. 1 \in 1..(n + 1) /\ b * (1 - 1) = 0
      OBVIOUS
    <3> QED BY <3>1
  <2>2. ASSUME NEW i \in 1..n PROVE at[i + 1] = at[i] + Len(t[i])
    <3>1. i + 1 \in 1..(n + 1) /\ (i + 1) - 1 = i
      OBVIOUS
    <3>2. at[i + 1] = b * i
      BY <3>1
    <3>3. b * i = b * (i - 1) + b
      <4>1. PICK j \in Nat : i = j + 1
        <5>1. i - 1 \in Nat /\ i = (i - 1) + 1
          OBVIOUS
        <5> QED BY <5>1
      <4>2. b * (j + 1) = b * j + b
        BY <4>1
      <4> QED BY <4>1, <4>2
    <3> QED BY <1>0, <1>2, <3>2, <3>3
  <2> QED BY <2>1, <2>2 DEF Starts
<1> HIDE DEF at
<1>4. FlattenSeq(t) \in Seq(S) /\ Lays(FlattenSeq(t), t, n, at)
  BY <1>3, PartPlaces
<1> QED BY <1>0, <1>1, <1>2, <1>4 DEF Lays, LaysEvenly

\* A value of a call is of its type.
LEMMA CallValues ==
    ASSUME CallsFit, NEW o \in Ops, o.do = "write_words_as"
    PROVE  /\ o.type \in Types /\ Len(o.values) \in Nat
           /\ \A i \in 1..Len(o.values) : o.values[i] \in Memory!Values[o.type]
<1>1. TypedCall(o)
  BY Zenon DEF CallsFit
<1>2. /\ IsArray(o.values) /\ o.type \in Types
      /\ ToSet(o.values) \subseteq Memory!Values[o.type]
  BY <1>1, ValuesAre DEF TypedCall
<1> QED BY <1>2 DEF IsArray, ToSet

LEMMA FlattenedWords ==
    ASSUME CallsFit, NEW o \in Ops, o.do = "write_words_as"
    PROVE  /\ Flattened(o) \in Seq(Word16)
           /\ Len(Flattened(o)) = WordsOfType(o.type) * Len(o.values)
           /\ \A i \in 1..Len(o.values) : \A q \in 1..WordsOfType(o.type) :
                 Flattened(o)[WordsOfType(o.type) * (i - 1) + q]
                    = ToWords(o.type, o.values[i])[q]
<1> DEFINE n == Len(o.values)
           b == WordsOfType(o.type)
           t == [i \in 1..n |-> ToWords(o.type, o.values[i])]
<1>1. n \in Nat /\ b \in Nat
  BY CallValues DEF WordsOfType
<1>2. ASSUME NEW i \in 1..n
      PROVE  ToWords(o.type, o.values[i]) \in Seq(Word16)
             /\ Len(ToWords(o.type, o.values[i])) = b
  BY CallValues, ToWordsType
<1>3. Flattened(o) = FlattenSeq(t)
  BY Zenon DEF Flattened
<1>4. \A i \in 1..n : t[i] = ToWords(o.type, o.values[i])
  OBVIOUS
<1>5. t = [i \in 1..n |-> t[i]]
  OBVIOUS
<1> HIDE DEF t
<1>6. Parts(t, n, Word16) /\ Even(t, n, b)
  BY <1>2, <1>4, <1>5 DEF Parts, Even
<1> HIDE DEF n, b
<1>7. FlattenSeq(t) \in Seq(Word16) /\ LaysEvenly(FlattenSeq(t), t, n, b)
  BY <1>1, <1>6, EvenParts
<1> QED BY <1>3, <1>4, <1>7 DEF n, b, LaysEvenly

\* The number of words or points that a call asks for.
CountOf(o) ==
    CASE o.do \in {"read_words", "read_bits"} -> o.count
      [] o.do = "read_words_as" -> WordsOfType(o.type) * o.count
      [] o.do = "write_words_as" -> Len(Flattened(o))
      [] OTHER -> Len(o.values)

OtherParams(o) ==
    CASE o.do \in {"read_words", "read_words_as"} ->
            [count |-> CountOf(o), data_blocks |-> <<[count |-> CountOf(o)]>>]
      [] o.do = "read_bits" ->
            [count |-> CountOf(o), data_blocks |-> <<[count |-> CountOf(o)]>>,
             bit_blocks |-> <<[count |-> CountOf(o)]>>]
      [] o.do = "write_words_as" -> [count |-> CountOf(o), data |-> Flattened(o)]
      [] OTHER -> [count |-> CountOf(o), payload |-> PackNibbles(o.values)]

LEMMA OtherKeys ==
    ASSUME NEW o, o.do \in PointReads \cup PointWrites
    PROVE  LET other == OtherParams(o) IN
           /\ "count" \in DOMAIN other /\ other["count"] = CountOf(o)
           /\ DOMAIN other \subseteq {"count", "data_blocks", "bit_blocks", "data", "payload"}
           /\ o.do \in PointReads =>
                 "data_blocks" \in DOMAIN other
                 /\ other["data_blocks"] = <<[count |-> CountOf(o)]>>
           /\ o.do = "write_words_as" =>
                 "data" \in DOMAIN other /\ other["data"] = Flattened(o)
           /\ o.do = "write_bits" =>
                 "payload" \in DOMAIN other /\ other["payload"] = PackNibbles(o.values)
<1>1. CASE o.do \in {"read_words", "read_words_as"}
  BY <1>1 DEF OtherParams, PointReads
<1>2. CASE o.do = "read_bits"
  BY <1>2 DEF OtherParams, PointReads
<1>3. CASE o.do = "write_words_as"
  BY <1>3 DEF OtherParams, PointReads
<1>4. CASE o.do = "write_bits"
  BY <1>4 DEF OtherParams, PointReads
<1> QED BY <1>1, <1>2, <1>3, <1>4 DEF PointReads, PointWrites

LEMMA CallParams ==
    ASSUME NEW o, o.do \in PointReads \cup PointWrites,
           o.do = "read_words_as" => RequiredWords(o) # Failed
    PROVE  ParamsOf(o) = With(DeviceParams(o.sym, o.addr), OtherParams(o))
<1>1. CASE o.do = "read_words"
  <2>1. CountOf(o) = o.count
    BY <1>1, Zenon DEF CountOf
  <2> QED BY <1>1, <2>1, Zenon DEF ParamsOf, ReadWordsParams, OtherParams
<1>2. CASE o.do = "read_words_as"
  <2>1. RequiredWords(o) = WordsOfType(o.type) * o.count
    <3> DEFINE words == WordsOfType(o.type) * o.count
    <3>1. RequiredWords(o) = IF words > 65535 THEN Failed ELSE words
      BY SMT DEF RequiredWords
    <3> HIDE DEF words
    <3>2. RequiredWords(o) = words
      BY <1>2, <3>1, SMT
    <3> QED BY <3>2 DEF words
  <2>2. CountOf(o) = RequiredWords(o)
    BY <1>2, <2>1, Zenon DEF CountOf
  <2> QED BY <1>2, <2>2, Zenon DEF ParamsOf, ReadWordsParams, OtherParams
<1>3. CASE o.do = "read_bits"
  <2>1. CountOf(o) = o.count
    BY <1>3, Zenon DEF CountOf
  <2> QED BY <1>3, <2>1, Zenon DEF ParamsOf, ReadBitsParams, OtherParams
<1>4. CASE o.do = "write_words_as"
  <2>1. CountOf(o) = Len(Flattened(o))
    BY <1>4, Zenon DEF CountOf
  <2> QED BY <1>4, <2>1, Zenon DEF ParamsOf, WriteWordsParams, OtherParams
<1>5. CASE o.do = "write_bits"
  <2>1. CountOf(o) = Len(o.values)
    BY <1>5, Zenon DEF CountOf
  <2> QED BY <1>5, <2>1, Zenon DEF ParamsOf, WriteBitsParams, OtherParams
<1> QED BY <1>1, <1>2, <1>3, <1>4, <1>5 DEF PointReads, PointWrites

LEMMA CountType ==
    ASSUME CallsFit, NEW o \in Ops, o.do \in PointReads \cup PointWrites,
           o.do = "read_words_as" => RequiredWords(o) # Failed
    PROVE  /\ CountOf(o) \in Nat
           /\ o.do \in PointReads => CountOf(o) \in Word16
<1>1. TypedCall(o)
  BY Zenon DEF CallsFit
<1>2. CASE o.do \in {"read_words", "read_bits"}
  <2>1. CountOf(o) = o.count /\ o.count \in Word16
    BY <1>1, <1>2 DEF CountOf, TypedCall
  <2> QED BY <2>1, WordAtMost
<1>3. CASE o.do = "read_words_as"
  <2> DEFINE words == WordsOfType(o.type) * o.count
  <2>1. CountOf(o) = words
    BY <1>3, Zenon DEF CountOf
  <2>2. o.count \in Nat
    <3>1. o.count \in Word16
      BY <1>1, <1>3 DEF TypedCall
    <3> QED BY <3>1, WordAtMost
  <2>3. words \in Nat
    BY <2>2 DEF WordsOfType
  <2>4. RequiredWords(o) = IF words > 65535 THEN Failed ELSE words
    BY SMT DEF RequiredWords
  <2> HIDE DEF words
  <2>5. words <= 65535
    BY <1>3, <2>3, <2>4, SMT
  <2>6. words \in Word16
    BY <2>3, <2>5, Word16Is, SMT
  <2> QED BY <2>1, <2>3, <2>6
<1>4. CASE o.do = "write_words_as"
  <2>1. CountOf(o) = Len(Flattened(o))
    BY <1>4, Zenon DEF CountOf
  <2>2. Flattened(o) \in Seq(Word16)
    BY <1>4, FlattenedWords
  <2>3. o.do \notin PointReads
    BY <1>4 DEF PointReads
  <2> QED BY <2>1, <2>2, <2>3
<1>5. CASE o.do = "write_bits"
  <2>1. CountOf(o) = Len(o.values)
    BY <1>5, Zenon DEF CountOf
  <2>2. Len(o.values) \in Nat
    BY <1>1, <1>5 DEF TypedCall, IsArray
  <2>3. o.do \notin PointReads
    BY <1>5 DEF PointReads
  <2> QED BY <2>1, <2>2, <2>3
<1> QED BY <1>2, <1>3, <1>4, <1>5 DEF PointReads, PointWrites

\* build_request made a request: all of its checks have passed.
Passes(spec, params, s) ==
    /\ FamiliesMatch(spec, params)
    /\ Has(ToSet(spec.fields), Numbers(spec, params, s))
    /\ \A t \in ToSet(spec.templates) :
           /\ t.key \in DOMAIN params
           /\ \A b \in ToSet(Blocks(params, t.key)) : Has(BlockFields(t), b)
    /\ WithinLimits(spec, params)

LEMMA Accepted ==
    ASSUME NEW spec, NEW params, NEW s, BuildRequest(spec, params, s) # Failed
    PROVE  /\ Passes(spec, params, s)
           /\ BuildRequest(spec, params, s)
                 = Emit(spec.fields, Numbers(spec, params, s), s)
                   \o FlattenSeq([i \in 1..Len(spec.templates) |->
                                      EmitBlocks(spec.templates[i], params, s)])
<1>1. BuildRequest(spec, params, s)
        = IF Passes(spec, params, s)
          THEN Emit(spec.fields, Numbers(spec, params, s), s)
               \o FlattenSeq([i \in 1..Len(spec.templates) |->
                                  EmitBlocks(spec.templates[i], params, s)])
          ELSE Failed
  BY Zenon DEF BuildRequest, Passes
<1> QED BY <1>1, Zenon

LEMMA NumbersKeep ==
    ASSUME NEW spec, NEW params, NEW s, NEW key,
           key \notin {"command", "subcommand", "word_block_count", "bit_block_count"}
    PROVE  LET obj == Numbers(spec, params, s) IN
           /\ key \in DOMAIN obj <=> key \in DOMAIN params
           /\ key \in DOMAIN params => obj[key] = params[key]
BY DEF Numbers

\* The fields of a request that has a point.
LEMMA HasPoint ==
    ASSUME NEW fields, AreFields(fields), Len(fields) \in {5, 6},
           \A i \in 1..5 : fields[i] = PointFields[i], NEW obj, Has(ToSet(fields), obj)
    PROVE  /\ "start_addr" \in DOMAIN obj /\ "device_code" \in DOMAIN obj
           /\ "count" \in DOMAIN obj
<1>1. ASSUME NEW i \in {3, 4, 5} PROVE PointFields[i].name \in DOMAIN obj
  <2>1. i \in 1..Len(fields) /\ fields[i] = PointFields[i]
    OBVIOUS
  <2>2. fields[i].kind = "fixed" => fields[i].name \in DOMAIN obj
    BY <2>1, FieldHas
  <2>3. PointFields[i].kind = "fixed"
    BY PointFieldsAre
  <2> QED BY <2>1, <2>2, <2>3
<1> QED BY <1>1, PointFieldsAre

LEMMA AppendToFive ==
    ASSUME NEW a, NEW b, NEW c, NEW d, NEW e, NEW f
    PROVE  /\ Len(Append(<<a, b, c, d, e>>, f)) = 6
           /\ Append(<<a, b, c, d, e>>, f)[6] = f
           /\ \A i \in 1..5 : Append(<<a, b, c, d, e>>, f)[i] = <<a, b, c, d, e>>[i]
<1> DEFINE S == {a, b, c, d, e, f}
           five == <<a, b, c, d, e>>
<1>1. five \in Seq(S) /\ Len(five) = 5 /\ f \in S
  OBVIOUS
<1> HIDE DEF S, five
<1>2. /\ Append(five, f) \in Seq(S)
      /\ Append(five, f) # << >>
      /\ Len(Append(five, f)) = Len(five) + 1
      /\ \A i \in 1..Len(five) : Append(five, f)[i] = five[i]
      /\ Append(five, f)[Len(five) + 1] = f
  BY <1>1, AppendProperties
<1>3. 5 + 1 = 6
  OBVIOUS
<1> QED BY <1>1, <1>2, <1>3 DEF five

LEMMA PointFieldsFirst ==
    ASSUME NEW o, NEW spec, PointSpec(o, spec)
    PROVE  /\ Len(spec.fields) = IF o.do \in PointReads THEN 5 ELSE 6
           /\ \A i \in 1..5 : spec.fields[i] = PointFields[i]
           /\ o.do \notin PointReads => spec.fields[6] = LastField(o)
<1>1. spec.fields = IF o.do \in PointReads THEN PointFields
                    ELSE Append(PointFields, LastField(o))
  BY DEF PointSpec
<1>2. /\ Len(Append(PointFields, LastField(o))) = 6
      /\ Append(PointFields, LastField(o))[6] = LastField(o)
      /\ \A i \in 1..5 : Append(PointFields, LastField(o))[i] = PointFields[i]
  BY AppendToFive DEF PointFields
<1>3. Len(PointFields) = 5
  BY PointFieldsAre
<1> QED BY <1>1, <1>2, <1>3

\* What the fields of a call on points hold.
ObjOf(o, s) == Numbers(CommandOf(o), ParamsOf(o), s)
PointSent(o) ==
    [addr |-> Memory!AddressOf(o), sym |-> o.sym, count |-> CountOf(o) % Memory!WordRange]

LEMMA CallBuilds ==
    ASSUME CommandsStandard, NEW o \in Ops, o.do # "echo", NEW s, DataFor(o, s) # Failed
    PROVE  /\ CommandId(o) \in DOMAIN Commands
           /\ o.do = "read_words_as" => RequiredWords(o) # Failed
           /\ DataFor(o, s) = BuildRequest(CommandOf(o), ParamsOf(o), s)
           /\ IsCommand(CommandOf(o))
           /\ Passes(CommandOf(o), ParamsOf(o), s)
<1>1. /\ CommandId(o) \in DOMAIN Commands
      /\ o.do = "read_words_as" => RequiredWords(o) # Failed
      /\ DataFor(o, s) = BuildRequest(CommandOf(o), ParamsOf(o), s)
  BY Zenon DEF DataFor
<1>2. IsCommand(CommandOf(o))
  BY <1>1, InstalledCommands DEF CommandOf
<1>3. Passes(CommandOf(o), ParamsOf(o), s)
  BY <1>1, Accepted
<1> QED BY <1>1, <1>2, <1>3

LEMMA CallNamed ==
    ASSUME CommandsStandard, CallsFit, NEW o \in Ops, o.do \in PointReads \cup PointWrites,
           NEW s, DataFor(o, s) # Failed
    PROVE  /\ "start_addr" \in DOMAIN ParamsOf(o) /\ "device_code" \in DOMAIN ParamsOf(o)
           /\ Named(ParamsOf(o), o.sym, o.addr, OtherParams(o))
<1> DEFINE spec == CommandOf(o)
           params == ParamsOf(o)
           obj == Numbers(spec, params, s)
           other == OtherParams(o)
<1>1. /\ IsCommand(spec) /\ Passes(spec, params, s)
      /\ o.do = "read_words_as" => RequiredWords(o) # Failed
  <2>1. o.do # "echo"
    BY DEF PointReads, PointWrites
  <2> QED BY <2>1, CallBuilds
<1>2. PointSpec(o, spec)
  BY PointCommand
<1>3. params = With(DeviceParams(o.sym, o.addr), other)
  BY <1>1, CallParams
<1>4. o.addr \in Nat \cup {Absent}
  BY DEF CallsFit, TypedCall, PointReads, PointWrites
<1>5. "start_addr" \notin DOMAIN other /\ "device_code" \notin DOMAIN other
  <2>1. DOMAIN other \subseteq {"count", "data_blocks", "bit_blocks", "data", "payload"}
    BY OtherKeys
  <2> QED BY <2>1
<1> HIDE DEF spec, params, other
<1>6. "start_addr" \in DOMAIN obj /\ "device_code" \in DOMAIN obj
  <2>1. AreFields(spec.fields) /\ Has(ToSet(spec.fields), obj)
    BY <1>1 DEF IsCommand, Passes
  <2>2. Len(spec.fields) \in {5, 6} /\ \A i \in 1..5 : spec.fields[i] = PointFields[i]
    BY <1>2, PointFieldsFirst
  <2> HIDE DEF obj
  <2> QED BY <2>1, <2>2, HasPoint
<1>7. "start_addr" \in DOMAIN params /\ "device_code" \in DOMAIN params
  BY <1>6, NumbersKeep
<1>8. Named(params, o.sym, o.addr, other)
  BY <1>3, <1>4, <1>5, <1>7, ParamsName
<1> QED BY <1>7, <1>8 DEF params, other

LEMMA CallPoints ==
    ASSUME CommandsStandard, CallsFit, NEW o \in Ops, o.do \in PointReads \cup PointWrites,
           NEW s, DataFor(o, s) # Failed
    PROVE  /\ o.sym \in {"D", "M"}
           /\ NamesPoints(ObjOf(o, s)) /\ PointOf(ObjOf(o, s)) = PointSent(o)
           /\ Has(ToSet(CommandOf(o).fields), ObjOf(o, s))
           /\ o.do = "write_words_as" => ObjOf(o, s)["data"] = Flattened(o)
           /\ o.do = "write_bits" => /\ "payload" \in DOMAIN ObjOf(o, s)
                                     /\ ObjOf(o, s)["payload"] = PackNibbles(o.values)
           /\ o.do \in BitCalls => o.sym = "M"
<1> DEFINE spec == CommandOf(o)
           params == ParamsOf(o)
           obj == Numbers(spec, params, s)
           other == OtherParams(o)
<1>1. /\ Passes(spec, params, s)
      /\ o.do = "read_words_as" => RequiredWords(o) # Failed
  <2>1. o.do # "echo"
    BY DEF PointReads, PointWrites
  <2> QED BY <2>1, CallBuilds
<1>2. PointSpec(o, spec)
  BY PointCommand
<1>3. /\ "count" \in DOMAIN other /\ other["count"] = CountOf(o)
      /\ o.do = "write_words_as" => "data" \in DOMAIN other /\ other["data"] = Flattened(o)
      /\ o.do = "write_bits" =>
            "payload" \in DOMAIN other /\ other["payload"] = PackNibbles(o.values)
  BY OtherKeys
<1>4. /\ "start_addr" \in DOMAIN params /\ "device_code" \in DOMAIN params
      /\ Named(params, o.sym, o.addr, other)
  BY CallNamed
<1> HIDE DEF spec, params, other
<1>5. Has(ToSet(spec.fields), obj)
  BY <1>1 DEF Passes
<1>6. /\ o.sym \in {"D", "M"}
       /\ params["start_addr"] = (IF o.addr < 0 THEN 0 ELSE o.addr)
       /\ params["start_addr"] \in Nat /\ params["start_addr"] <= MaxAddress
       /\ params["device_code"] = (IF o.sym = "D" THEN 168 ELSE 144)
       /\ \A key \in DOMAIN other : key \in DOMAIN params /\ params[key] = other[key]
  BY <1>4 DEF Named
<1>7. /\ obj["start_addr"] = params["start_addr"]
       /\ obj["device_code"] = params["device_code"]
       /\ obj["count"] = CountOf(o) /\ CountOf(o) \in Nat
  <2>1. CountOf(o) \in Nat
    BY <1>1, CountType
  <2> QED BY <1>3, <1>4, <1>6, <2>1, NumbersKeep
<1>8. NamesPoints(obj)
  BY <1>6, <1>7 DEF NamesPoints
<1>9. PointOf(obj) = PointSent(o)
  <2>1. Memory!AddressOf(o) = params["start_addr"]
    BY <1>6 DEF Memory!AddressOf
  <2>2. (IF obj["device_code"] = 168 THEN "D" ELSE "M") = o.sym
    BY <1>6, <1>7
  <2> HIDE DEF obj
  <2> QED BY <1>7, <2>1, <2>2 DEF PointOf, PointSent
<1>10. /\ o.do = "write_words_as" => obj["data"] = Flattened(o)
       /\ o.do = "write_bits" => "payload" \in DOMAIN obj
                                 /\ obj["payload"] = PackNibbles(o.values)
  BY <1>3, <1>6, NumbersKeep
<1>11. o.do \in BitCalls => o.sym = "M"
  <2> SUFFICES ASSUME o.do \in BitCalls, o.sym = "D" PROVE FALSE
    BY <1>6
  <2>1. spec.family = "Bit"
    BY <1>2 DEF PointSpec
  <2>2. CodeAllowed("Bit", params)
    BY <1>1, <2>1 DEF Passes, FamiliesMatch
  <2>3. params["device_code"] = 168
    BY <1>6
  <2>4. DeviceOf(params) = ByCode(168)
    BY <1>4, <2>3 DEF DeviceOf
  <2>5. [code |-> 168, category |-> "Word"] \in ByCode(168)
    BY DEF ByCode, Devices
  <2>6. Allows("Bit", "Word")
    BY <2>2, <2>4, <2>5 DEF CodeAllowed
  <2> QED BY <2>6 DEF Allows
<1>12. obj = ObjOf(o, s)
  BY DEF ObjOf, spec, params
<1> HIDE DEF obj
<1> QED BY <1>5, <1>6, <1>8, <1>9, <1>10, <1>11, <1>12 DEF spec

\* The bytes behind the point of a call: the values that are written.
Rest(o) ==
    CASE o.do \in PointReads -> << >>
      [] o.do = "write_words_as" ->
            FlattenSeq([i \in 1..Len(Flattened(o)) |-> LowHigh(Flattened(o)[i])])
      [] OTHER -> PackNibbles(o.values)

PointRequest(o, s, data) ==
    /\ data \in Seq(Byte)
    /\ Word(data, 0) = CodeFor(o) /\ Word(data, 2) = SubFor(o, s)
    /\ ForR(data) <=> s = "R"
    /\ PointLen(data) = PointWidth(s)
    /\ PointAt(data, 4) = PointSent(o)
    /\ Rest(o) \in Seq(Byte)
    /\ Len(data) = 4 + PointLen(data) + Len(Rest(o))
    /\ \A q \in 1..Len(Rest(o)) : data[4 + PointLen(data) + q] = Rest(o)[q]

\* A command without templates has nothing behind its fields.
LEMMA NoTemplates ==
    ASSUME NEW spec, spec.templates = << >>, NEW params, NEW s,
           BuildRequest(spec, params, s) # Failed,
           Emit(spec.fields, Numbers(spec, params, s), s) \in Seq(Byte)
    PROVE  BuildRequest(spec, params, s) = Emit(spec.fields, Numbers(spec, params, s), s)
<1> DEFINE emitted == Emit(spec.fields, Numbers(spec, params, s), s)
           t == [i \in 1..0 |-> EmitBlocks(spec.templates[i], params, s)]
<1>1. Len(spec.templates) = 0
  OBVIOUS
<1>2. FlattenSeq(t) = << >>
  <2>1. [j \in 1..0 |-> t[j]] = t
    OBVIOUS
  <2> HIDE DEF t
  <2>2. Joined(t, 0) = << >>
    BY JoinedNone
  <2> QED BY <2>1, <2>2 DEF Joined
<1>3. BuildRequest(spec, params, s)
        = emitted \o FlattenSeq([i \in 1..Len(spec.templates) |->
                                     EmitBlocks(spec.templates[i], params, s)])
  BY Accepted
<1>4. BuildRequest(spec, params, s) = emitted \o << >>
  BY <1>1, <1>2, <1>3
<1> HIDE DEF emitted
<1>5. emitted \in Seq(Byte)
  BY DEF emitted
<1>6. emitted \o << >> = emitted
  BY <1>5, ConcatEmptySeq
<1> QED BY <1>4, <1>6 DEF emitted

LEMMA RestIs ==
    ASSUME CommandsStandard, CallsFit, NEW o \in Ops, o.do \in PointReads \cup PointWrites,
           NEW s, DataFor(o, s) # Failed
    PROVE  LET fields == CommandOf(o).fields IN
           Rest(o) = IF Len(fields) = 6 THEN FieldBytes(fields[6], ObjOf(o, s), s) ELSE << >>
<1> DEFINE fields == CommandOf(o).fields
           obj == ObjOf(o, s)
<1>1. PointSpec(o, CommandOf(o))
  BY PointCommand
<1>2. /\ Len(fields) = IF o.do \in PointReads THEN 5 ELSE 6
      /\ o.do \notin PointReads => fields[6] = LastField(o)
  BY <1>1, PointFieldsFirst
<1>3. /\ o.do = "write_words_as" => obj["data"] = Flattened(o)
      /\ o.do = "write_bits" => /\ "payload" \in DOMAIN obj
                                /\ obj["payload"] = PackNibbles(o.values)
  BY CallPoints
<1> HIDE DEF fields, obj
<1>4. CASE o.do \in PointReads
  <2>1. Rest(o) = << >>
    <3>1. o.do # "write_words_as"
      BY <1>4 DEF PointReads
    <3> QED BY <1>4, <3>1, Zenon DEF Rest
  <2>2. Len(fields) # 6
    BY <1>2, <1>4
  <2> QED BY <2>1, <2>2 DEF fields
<1>5. CASE o.do = "write_words_as"
  <2> DEFINE f == Field("data", "words", 2, TRUE)
  <2>1. o.do \notin PointReads /\ LastField(o) = f
    BY <1>5 DEF PointReads, LastField
  <2>2. f.kind = "words" /\ f.name = "data" /\ f.le = TRUE
    BY DEF Field
  <2> HIDE DEF f
  <2>3. FieldBytes(f, obj, s)
          = FlattenSeq([i \in 1..Len(obj["data"]) |-> WordBytes(obj["data"][i], TRUE)])
    BY <2>2, Zenon DEF FieldBytes
  <2>4. \A w : WordBytes(w, TRUE) = LowHigh(w)
    BY DEF WordBytes
  <2>5. FieldBytes(f, obj, s)
          = FlattenSeq([i \in 1..Len(Flattened(o)) |-> LowHigh(Flattened(o)[i])])
    BY <1>3, <1>5, <2>3, <2>4
  <2>6. Rest(o) = FlattenSeq([i \in 1..Len(Flattened(o)) |-> LowHigh(Flattened(o)[i])])
    BY <1>5, <2>1, Zenon DEF Rest
  <2> QED BY <1>2, <2>1, <2>5, <2>6 DEF fields, obj
<1>6. CASE o.do = "write_bits"
  <2> DEFINE f == Field("payload", "bytes", 0, TRUE)
  <2>1. o.do \notin PointReads /\ LastField(o) = f
    BY <1>6 DEF PointReads, LastField
  <2>2. f.kind = "bytes" /\ f.name = "payload"
    BY DEF Field
  <2> HIDE DEF f
  <2>3. FieldBytes(f, obj, s) = Get(obj, "payload", << >>)
    BY <2>2, Zenon DEF FieldBytes
  <2>4. FieldBytes(f, obj, s) = PackNibbles(o.values)
    BY <1>3, <1>6, <2>3, Zenon DEF Get
  <2>5. Rest(o) = PackNibbles(o.values)
    BY <1>6, <2>1, Zenon DEF Rest
  <2> QED BY <1>2, <2>1, <2>4, <2>5 DEF fields, obj
<1> QED BY <1>4, <1>5, <1>6 DEF PointReads, PointWrites

LEMMA PointData ==
    ASSUME CommandsStandard, CallsFit, NEW o \in Ops, o.do \in PointReads \cup PointWrites,
           NEW s \in {"Q", "R"}, DataFor(o, s) # Failed
    PROVE  PointRequest(o, s, DataFor(o, s))
<1> DEFINE spec == CommandOf(o)
           fields == spec.fields
           params == ParamsOf(o)
           obj == ObjOf(o, s)
           data == DataFor(o, s)
           rest == Rest(o)
<1>1. /\ CommandId(o) \in DOMAIN Commands /\ IsCommand(spec)
      /\ data = BuildRequest(spec, params, s) /\ data # Failed
  <2>1. o.do # "echo"
    BY DEF PointReads, PointWrites
  <2> QED BY <2>1, CallBuilds
<1>2. /\ PointSpec(o, spec)
      /\ Subcommand(spec.sub, s) = SubFor(o, s)
  BY PointCommand
<1>3. /\ o.sym \in {"D", "M"} /\ NamesPoints(obj) /\ PointOf(obj) = PointSent(o)
      /\ Has(ToSet(fields), obj)
  BY CallPoints
<1>4. obj = Numbers(spec, params, s)
  BY DEF ObjOf
<1>5. rest = IF Len(fields) = 6 THEN FieldBytes(fields[6], obj, s) ELSE << >>
  BY RestIs
<1>6. Len(fields) \in {5, 6} /\ \A i \in 1..5 : fields[i] = PointFields[i]
  BY <1>2, PointFieldsFirst
<1>7. AreFields(fields)
  BY <1>1 DEF IsCommand
<1> HIDE DEF spec, params, obj, data, rest
<1> DEFINE emitted == Emit(fields, obj, s)
<1>8. /\ emitted \in Seq(Byte) /\ rest \in Seq(Byte)
      /\ Len(emitted) = 4 + PointWidth(s) + Len(rest)
      /\ Placed(emitted, 4, obj, s)
      /\ \A q \in 1..Len(rest) : emitted[4 + PointWidth(s) + q] = rest[q]
  <2> HIDE DEF fields
  <2> QED BY <1>3, <1>5, <1>6, <1>7, EmittedPoint
<1>9. data = emitted
  <2>1. spec.templates = << >>
    BY <1>2 DEF PointSpec
  <2> QED BY <1>1, <1>4, <1>8, <2>1, NoTemplates
<1>10. Word(data, 0) = CodeFor(o) /\ Word(data, 2) = SubFor(o, s)
  <2>1. HasCodes(spec)
    BY <1>1, CommandCodes DEF CommandOf, spec
  <2>2. BeginsWithCodes(fields)
    <3>1. /\ Len(fields) >= 2 /\ fields[1] = PointFields[1] /\ fields[2] = PointFields[2]
      BY <1>6
    <3> QED BY <3>1, PointFieldsAre DEF BeginsWithCodes
  <2>3. Opens(emitted, spec.code, Subcommand(spec.sub, s))
    BY <1>1, <1>3, <1>4, <2>1, <2>2, CodesFirst
  <2>4. spec.code = CodeFor(o)
    BY <1>2 DEF PointSpec
  <2> HIDE DEF emitted
  <2> QED BY <1>2, <1>9, <2>3, <2>4 DEF Opens
<1>11. ForR(data) <=> s = "R"
  <2>1. ForR(data) <=> SubFor(o, s) \in {2, 3}
    BY <1>10 DEF ForR
  <2> QED BY <2>1 DEF SubFor
<1>12. PointLen(data) = PointWidth(s)
  BY <1>11 DEF PointLen, PointWidth
<1> HIDE DEF emitted
<1>13. PointAt(data, 4) = PointSent(o)
  <2>1. PointAt(data, 4) = PointOf(obj)
    BY <1>3, <1>8, <1>9, <1>11, PointRead
  <2> QED BY <1>3, <2>1
<1>14. PointRequest(o, s, data)
  BY <1>8, <1>9, <1>10, <1>11, <1>12, <1>13 DEF PointRequest, rest
<1> QED BY <1>14 DEF data

(***************************************************************************)
(* The requests of the commands, place by place: blocks.                   *)
(***************************************************************************)
LEMMA ThreeParts ==
    ASSUME NEW S, NEW t, Parts(t, 3, S)
    PROVE  Lays(FlattenSeq(t), t, 3, <<0, Len(t[1]), Len(t[1]) + Len(t[2]),
                                       Len(t[1]) + Len(t[2]) + Len(t[3])>>)
           /\ FlattenSeq(t) \in Seq(S)
<1> DEFINE at == <<0, Len(t[1]), Len(t[1]) + Len(t[2]),
                   Len(t[1]) + Len(t[2]) + Len(t[3])>>
<1>1. Len(t[1]) \in Nat /\ Len(t[2]) \in Nat /\ Len(t[3]) \in Nat
  <2>1. t[1] \in Seq(S) /\ t[2] \in Seq(S) /\ t[3] \in Seq(S)
    BY DEF Parts
  <2> QED BY <2>1
<1>2. /\ at[1] = 0 /\ at[2] = Len(t[1]) /\ at[3] = Len(t[1]) + Len(t[2])
      /\ at[4] = Len(t[1]) + Len(t[2]) + Len(t[3])
  OBVIOUS
<1> HIDE DEF at
<1>3. Starts(at, t, 3)
  <2>1. at[2] = at[1] + Len(t[1]) /\ at[3] = at[2] + Len(t[2]) /\ at[4] = at[3] + Len(t[3])
    <3> DEFINE x == Len(t[1])
               y == Len(t[2])
               z == Len(t[3])
    <3>1. x \in Nat /\ at[1] = 0 /\ at[2] = x /\ at[3] = x + y /\ at[4] = x + y + z
      BY <1>1, <1>2
    <3> HIDE DEF x, y, z
    <3>2. at[2] = at[1] + x /\ at[3] = at[2] + y /\ at[4] = at[3] + z
      BY <3>1
    <3> QED BY <3>2 DEF x, y, z
  <2>2. \A i \in 1..3 : at[i + 1] = at[i] + Len(t[i])
    BY <2>1
  <2> QED BY <1>2, <2>2 DEF Starts
<1>4. 3 \in Nat
  OBVIOUS
<1>5. FlattenSeq(t) \in Seq(S) /\ Lays(FlattenSeq(t), t, 3, at)
  BY <1>3, <1>4, PartPlaces
<1> QED BY <1>5 DEF at

\* The fields of a block are those of a point.
LEMMA BlockTemplate ==
    ASSUME NEW key, NEW family, NEW t, t = TemplateOf(key, family)
    PROVE  /\ t.key = key /\ t.family = family /\ Len(t.fields) = 3
           /\ \A i \in 1..3 : t.fields[i] = PointFields[i + 2]
           /\ BlockFields(t) = {PointFields[3], PointFields[4], PointFields[5]}
           /\ \A i \in 1..3 : t.fields[i] \in BlockFields(t)
<1>1. /\ t.key = key /\ t.family = family
      /\ t.fields = <<PointFields[3], PointFields[4], PointFields[5]>>
  BY DEF TemplateOf
<1> DEFINE x == PointFields[3]
           y == PointFields[4]
           z == PointFields[5]
<1>2. x.kind = "fixed" /\ y.kind = "fixed" /\ z.kind = "fixed"
  BY PointFieldsAre
<1> HIDE DEF x, y, z
<1>3. t.fields = <<x, y, z>>
  BY <1>1 DEF x, y, z
<1>4. ToSet(t.fields) = {x, y, z}
  <2>1. DOMAIN <<x, y, z>> = {1, 2, 3}
    OBVIOUS
  <2> QED BY <1>3, <2>1 DEF ToSet
<1>5. BlockFields(t) = {x, y, z}
  BY <1>2, <1>4 DEF BlockFields
<1>6. /\ Len(t.fields) = 3
      /\ t.fields[1] = x /\ t.fields[2] = y /\ t.fields[3] = z
  BY <1>3
<1>7. \A i \in 1..3 : t.fields[i] = PointFields[i + 2] /\ t.fields[i] \in BlockFields(t)
  BY <1>5, <1>6 DEF x, y, z
<1> QED BY <1>1, <1>5, <1>6, <1>7 DEF x, y, z

LEMMA BlockPlaced ==
    ASSUME NEW key, NEW family, NEW block, NamesPoints(block), NEW s
    PROVE  LET e == EmitBlock(TemplateOf(key, family), block, s) IN
           e \in Seq(Byte) /\ Len(e) = PointWidth(s) /\ Placed(e, 0, block, s)
<1> DEFINE tem == TemplateOf(key, family)
           e == EmitBlock(tem, block, s)
           t == [i \in 1..3 |-> FieldBytes(PointFields[i + 2], block, s)]
           a == AddressWidth(s)
           c == CodeWidth(s)
           w == PointWidth(s)
<1>1. e = FlattenSeq(t)
  <2>1. Len(tem.fields) = 3 /\ \A i \in 1..3 : /\ tem.fields[i] = PointFields[i + 2]
                                               /\ tem.fields[i] \in BlockFields(tem)
    BY BlockTemplate
  <2> HIDE DEF tem
  <2>2. e = FlattenSeq([i \in 1..Len(tem.fields) |->
                            IF tem.fields[i] \in BlockFields(tem)
                            THEN FieldBytes(tem.fields[i], block, s) ELSE << >>])
    BY Zenon DEF EmitBlock
  <2>3. [i \in 1..Len(tem.fields) |->
             IF tem.fields[i] \in BlockFields(tem)
             THEN FieldBytes(tem.fields[i], block, s) ELSE << >>] = t
    BY <2>1
  <2> QED BY <2>2, <2>3
<1>2. /\ block["start_addr"] \in Nat /\ block["device_code"] \in Nat
      /\ block["count"] \in Nat
  BY DEF NamesPoints
<1>3. /\ t[1] = FieldBytes(PointFields[3], block, s)
      /\ t[2] = FieldBytes(PointFields[4], block, s)
      /\ t[3] = FieldBytes(PointFields[5], block, s)
  OBVIOUS
<1>4. t = [i \in 1..3 |-> t[i]]
  OBVIOUS
<1> HIDE DEF t, e
<1>5. /\ Len(t[1]) = a /\ Len(t[2]) = c /\ Len(t[3]) = 2
      /\ w = a + c + 2 /\ a \in {3, 4} /\ c \in {1, 2}
  BY <1>2, <1>3, PointWidths
<1>6. t[1] \in Seq(Byte) /\ t[2] \in Seq(Byte) /\ t[3] \in Seq(Byte)
  <2>1. WriteNBytes(a, block["start_addr"], TRUE) \in Seq(Byte)
    BY <1>2, <1>5, LowBytes
  <2>2. WriteNBytes(c, block["device_code"], TRUE) \in Seq(Byte)
    BY <1>2, <1>5, LowBytes
  <2>3. WriteNBytes(2, block["count"], TRUE) \in Seq(Byte)
    BY <1>2, LowBytes
  <2> QED BY <1>3, <2>1, <2>2, <2>3, PointFieldBytes
<1>7. Parts(t, 3, Byte)
  <2>1. \A i \in 1..3 : t[i] \in Seq(Byte)
    BY <1>6
  <2> QED BY <1>4, <2>1 DEF Parts
<1> DEFINE at == <<0, Len(t[1]), Len(t[1]) + Len(t[2]), Len(t[1]) + Len(t[2]) + Len(t[3])>>
<1>8. e \in Seq(Byte) /\ Lays(e, t, 3, at)
  BY <1>1, <1>7, ThreeParts
<1>9. at[1] = 0 /\ at[2] = a /\ at[3] = a + c /\ at[4] = w
  BY <1>5
<1> HIDE DEF at, a, c, w
<1>10. Len(e) = w
  <2>1. Len(e) = at[3 + 1]
    BY <1>8 DEF Lays
  <2> QED BY <1>9, <2>1
<1>11. /\ \A q \in 1..a : e[0 + q] = t[1][q]
       /\ \A q \in 1..c : e[a + q] = t[2][q]
       /\ \A q \in 1..2 : e[(a + c) + q] = t[3][q]
  <2>1. \A i \in 1..3 : \A q \in 1..Len(t[i]) : e[at[i] + q] = t[i][q]
    BY <1>8 DEF Lays
  <2>2. /\ \A q \in 1..Len(t[1]) : e[at[1] + q] = t[1][q]
        /\ \A q \in 1..Len(t[2]) : e[at[2] + q] = t[2][q]
        /\ \A q \in 1..Len(t[3]) : e[at[3] + q] = t[3][q]
    BY <2>1
  <2> QED BY <1>5, <1>9, <2>2
<1>12. Placed(e, 0, block, s)
  <2>1. 0 + w - 2 = a + c /\ 0 + a = a
    BY <1>5
  <2> QED BY <1>3, <1>11, <2>1 DEF Placed, a, c, w
<1> QED BY <1>8, <1>10, <1>12 DEF e, w

\* A piece of data that is somewhere else, too.
Copied(data, i, e, j, n) == \A q \in 1..n : data[i + q] = e[j + q]

LEMMA PlacedCopy ==
    ASSUME NEW e, NEW j \in Nat, NEW obj, NEW s, Placed(e, j, obj, s),
           NEW data, NEW i \in Nat, Copied(data, i, e, j, PointWidth(s))
    PROVE  Placed(data, i, obj, s)
<1> DEFINE a == AddressWidth(s)
           c == CodeWidth(s)
           w == PointWidth(s)
           address == FieldBytes(PointFields[3], obj, s)
           code == FieldBytes(PointFields[4], obj, s)
           count == FieldBytes(PointFields[5], obj, s)
<1>1. w = a + c + 2 /\ a \in {3, 4} /\ c \in {1, 2}
  BY DEF AddressWidth, CodeWidth, PointWidth
<1>2. \A q \in 1..w : data[i + q] = e[j + q]
  BY DEF Copied
<1>3. /\ \A q \in 1..a : e[j + q] = address[q]
      /\ \A q \in 1..c : e[j + a + q] = code[q]
      /\ \A q \in 1..2 : e[j + w - 2 + q] = count[q]
  BY DEF Placed
<1> HIDE DEF a, c, w, address, code, count
<1>4. ASSUME NEW q \in 1..a PROVE data[i + q] = address[q]
  <2>1. q \in 1..w
    BY <1>1
  <2> QED BY <1>2, <1>3, <2>1
<1>5. ASSUME NEW q \in 1..c PROVE data[i + a + q] = code[q]
  <2>1. a + q \in 1..w /\ i + a + q = i + (a + q) /\ j + a + q = j + (a + q)
    BY <1>1
  <2> QED BY <1>2, <1>3, <2>1
<1>6. ASSUME NEW q \in 1..2 PROVE data[i + w - 2 + q] = count[q]
  <2>1. w - 2 + q \in 1..w /\ i + w - 2 + q = i + (w - 2 + q)
        /\ j + w - 2 + q = j + (w - 2 + q)
    BY <1>1
  <2> QED BY <1>2, <1>3, <2>1
<1> QED BY <1>4, <1>5, <1>6 DEF Placed, a, c, w, address, code, count

BlocksPlaced(e, i, blocks, s) ==
    \A k \in 1..Len(blocks) : Placed(e, i + PointWidth(s) * (k - 1), blocks[k], s)

LEMMA BlocksEmitted ==
    ASSUME NEW key, NEW family, NEW blocks, IsArray(blocks),
           \A k \in 1..Len(blocks) : NamesPoints(blocks[k]),
           NEW params, params[key] = blocks, NEW s
    PROVE  LET e == EmitBlocks(TemplateOf(key, family), params, s) IN
           /\ e \in Seq(Byte) /\ Len(e) = PointWidth(s) * Len(blocks)
           /\ BlocksPlaced(e, 0, blocks, s)
<1> DEFINE tem == TemplateOf(key, family)
           e == EmitBlocks(tem, params, s)
           n == Len(blocks)
           w == PointWidth(s)
           t == [i \in 1..n |-> EmitBlock(tem, blocks[i], s)]
<1>1. n \in Nat /\ w \in Nat
  BY DEF IsArray, PointWidth
<1>2. e = FlattenSeq(t)
  <2>1. tem.key = key
    BY BlockTemplate
  <2> HIDE DEF tem
  <2> QED BY <2>1, Zenon DEF EmitBlocks
<1>3. ASSUME NEW i \in 1..n
      PROVE  t[i] \in Seq(Byte) /\ Len(t[i]) = w /\ Placed(t[i], 0, blocks[i], s)
  BY BlockPlaced
<1>4. t = [i \in 1..n |-> t[i]]
  OBVIOUS
<1> HIDE DEF t, w, n, e
<1>5. Parts(t, n, Byte) /\ Even(t, n, w)
  BY <1>3, <1>4 DEF Parts, Even
<1>6. e \in Seq(Byte) /\ LaysEvenly(e, t, n, w)
  BY <1>1, <1>2, <1>5, EvenParts
<1>7. Len(e) = w * n /\ \A i \in 1..n : \A q \in 1..w : e[w * (i - 1) + q] = t[i][q]
  BY <1>6 DEF LaysEvenly
<1>8. ASSUME NEW k \in 1..n PROVE Placed(e, 0 + w * (k - 1), blocks[k], s)
  <2> DEFINE at == 0 + w * (k - 1)
  <2>1. at = w * (k - 1) /\ at \in Nat
    <3>1. k - 1 \in Nat
      BY <1>1
    <3> QED BY <1>1, <3>1
  <2> HIDE DEF at
  <2>2. \A q \in 1..w : e[at + q] = t[k][q] /\ 0 + q = q
    BY <1>7, <2>1
  <2>3. Copied(e, at, t[k], 0, w)
    BY <2>2 DEF Copied
  <2>4. Placed(e, at, blocks[k], s)
    BY <1>3, <2>1, <2>3, PlacedCopy DEF w
  <2> QED BY <2>4 DEF at
<1>9. BlocksPlaced(e, 0, blocks, s)
  BY <1>8 DEF BlocksPlaced, n, w
<1> QED BY <1>6, <1>7, <1>9 DEF e, n, w

\* The sequence of two sequences, joined.
LEMMA TwoParts ==
    ASSUME NEW S, NEW t, Parts(t, 2, S)
    PROVE  /\ FlattenSeq(t) \in Seq(S) /\ t[1] \in Seq(S) /\ t[2] \in Seq(S)
           /\ IsJoin(FlattenSeq(t), t[1], t[2])
<1> DEFINE x == Len(t[1])
           y == Len(t[2])
           at == <<0, x, x + y>>
<1>1. t[1] \in Seq(S) /\ t[2] \in Seq(S) /\ x \in Nat /\ y \in Nat
  BY DEF Parts
<1> HIDE DEF x, y
<1>2. at[1] = 0 /\ at[2] = x /\ at[3] = x + y
  OBVIOUS
<1> HIDE DEF at
<1>3. Starts(at, t, 2)
  <2>1. at[2] = at[1] + x /\ at[3] = at[2] + y
    BY <1>1, <1>2
  <2>2. \A i \in 1..2 : at[i + 1] = at[i] + Len(t[i])
    BY <2>1 DEF x, y
  <2> QED BY <1>2, <2>2 DEF Starts
<1>4. 2 \in Nat
  OBVIOUS
<1>5. FlattenSeq(t) \in Seq(S) /\ Lays(FlattenSeq(t), t, 2, at)
  BY <1>3, <1>4, PartPlaces
<1>6. /\ Len(FlattenSeq(t)) = at[2 + 1]
      /\ \A q \in 1..Len(t[1]) : FlattenSeq(t)[at[1] + q] = t[1][q]
      /\ \A q \in 1..Len(t[2]) : FlattenSeq(t)[at[2] + q] = t[2][q]
  BY <1>5 DEF Lays
<1>7. IsJoin(FlattenSeq(t), t[1], t[2])
  <2> DEFINE c == FlattenSeq(t)
  <2> HIDE DEF c
  <2>1. Len(c) = x + y
    BY <1>2, <1>6 DEF c
  <2>2. \A q \in 1..x : c[q] = t[1][q]
    <3>1. \A q \in 1..x : c[0 + q] = t[1][q] /\ 0 + q = q
      BY <1>2, <1>6 DEF c, x
    <3> QED BY <3>1
  <2>3. \A q \in 1..y : c[x + q] = t[2][q]
    BY <1>2, <1>6 DEF c, y
  <2> QED BY <2>1, <2>2, <2>3 DEF IsJoin, x, y, c
<1> QED BY <1>1, <1>5, <1>7

\* Codes and numbers of blocks take six bytes.
LEMMA CountsEmitted ==
    ASSUME AreFields(CountFields), NEW obj, NEW s, Has(ToSet(CountFields), obj),
           NEW v \in Nat, v <= 255, obj["word_block_count"] = v,
           NEW z \in Nat, z <= 255, obj["bit_block_count"] = z
    PROVE  LET e == Emit(CountFields, obj, s) IN
           e \in Seq(Byte) /\ Len(e) = 6 /\ e[5] = v /\ e[6] = z
<1> DEFINE e == Emit(CountFields, obj, s)
           t == [i \in 1..4 |-> FieldBytes(CountFields[i], obj, s)]
           at == <<0, 2, 4, 5, 6>>
<1>1. /\ Len(CountFields) = 4
      /\ CountFields[1] = PointFields[1] /\ CountFields[2] = PointFields[2]
      /\ CountFields[3] = Field("word_block_count", "fixed", 1, TRUE)
      /\ CountFields[4] = Field("bit_block_count", "fixed", 1, TRUE)
  BY DEF CountFields
<1>2. ASSUME NEW i \in 1..4
      PROVE  /\ FieldBytes(CountFields[i], obj, s) \in Seq(Byte)
             /\ CountFields[i].kind = "fixed" =>
                   /\ CountFields[i].name \in DOMAIN obj
                   /\ obj[CountFields[i].name] \in Nat
  BY <1>1, FieldHas
<1>3. obj["command"] \in Nat /\ obj["subcommand"] \in Nat
  BY <1>1, <1>2, PointFieldsAre
<1>4. t[1] = FieldBytes(PointFields[1], obj, s) /\ t[2] = FieldBytes(PointFields[2], obj, s)
  BY <1>1
<1>5. Len(t[1]) = 2 /\ Len(t[2]) = 2
  <2>1. /\ Len(FieldBytes(PointFields[1], obj, s)) = 2
        /\ Len(FieldBytes(PointFields[2], obj, s)) = 2
    BY <1>3, PointFieldsAre, CodeBytes
  <2> HIDE DEF t
  <2> QED BY <1>4, <2>1
<1>6. t[3] = WriteNBytes(1, v, TRUE) /\ t[4] = WriteNBytes(1, z, TRUE)
  <2>1. ASSUME NEW name \in {"word_block_count", "bit_block_count"}
        PROVE  FieldBytes(Field(name, "fixed", 1, TRUE), obj, s)
                  = WriteNBytes(1, obj[name], TRUE)
    <3> DEFINE f == Field(name, "fixed", 1, TRUE)
    <3>1. f.kind = "fixed" /\ f.le = TRUE /\ f.name = name /\ f.n = 1
      BY DEF Field
    <3> HIDE DEF f
    <3>2. FieldWidth(f, s) = 1
      BY <3>1 DEF FieldWidth
    <3>3. FieldBytes(f, obj, s) = WriteNBytes(1, obj[name], TRUE)
      BY <3>1, <3>2, FixedBytes
    <3> QED BY <3>3 DEF f
  <2>2. /\ FieldBytes(CountFields[3], obj, s) = WriteNBytes(1, v, TRUE)
        /\ FieldBytes(CountFields[4], obj, s) = WriteNBytes(1, z, TRUE)
    BY <1>1, <2>1
  <2>3. t[3] = FieldBytes(CountFields[3], obj, s) /\ t[4] = FieldBytes(CountFields[4], obj, s)
    OBVIOUS
  <2> HIDE DEF t
  <2> QED BY <2>2, <2>3
<1>7. ASSUME NEW x \in Nat, x <= 255
      PROVE  WriteNBytes(1, x, TRUE)[1] = x /\ Len(WriteNBytes(1, x, TRUE)) = 1
  <2> DEFINE one == 1
             bytes == WriteNBytes(one, x, TRUE)
  <2>1. one \in Nat
    OBVIOUS
  <2> HIDE DEF one
  <2>2. PICK f : Shifts(f, x, one) /\ ByShifts(bytes, f, one)
    BY <2>1, ShiftedBytes
  <2>3. Len(bytes) = one
    BY <2>1, BytesLength
  <2> HIDE DEF bytes
  <2>4. f[0] = x
    BY <2>1, <2>2 DEF Shifts
  <2>5. bytes[1] = f[1 - 1] % 256
    BY <2>2 DEF one, ByShifts
  <2>6. bytes[1] = x
    BY <1>7, <2>4, <2>5
  <2> QED BY <2>3, <2>6 DEF one, bytes
<1>8. \A i \in 1..4 : t[i] \in Seq(Byte)
  BY <1>2
<1>9. t = [i \in 1..4 |-> t[i]]
  OBVIOUS
<1>10. e = FlattenSeq(t)
  BY <1>1, Zenon DEF Emit
<1> HIDE DEF t, e
<1>11. /\ Len(t[3]) = 1 /\ Len(t[4]) = 1 /\ t[3][1] = v /\ t[4][1] = z
  BY <1>6, <1>7
<1>12. at[1] = 0 /\ at[2] = 2 /\ at[3] = 4 /\ at[4] = 5 /\ at[5] = 6
  OBVIOUS
<1> HIDE DEF at
<1>13. Starts(at, t, 4)
  <2>1. /\ at[1 + 1] = at[1] + Len(t[1]) /\ at[2 + 1] = at[2] + Len(t[2])
        /\ at[3 + 1] = at[3] + Len(t[3]) /\ at[4 + 1] = at[4] + Len(t[4])
    BY <1>5, <1>11, <1>12
  <2>2. \A i \in 1..4 : at[i + 1] = at[i] + Len(t[i])
    BY <2>1
  <2> QED BY <1>12, <2>2 DEF Starts
<1>14. Parts(t, 4, Byte) /\ 4 \in Nat
  BY <1>8, <1>9 DEF Parts
<1>15. e \in Seq(Byte) /\ Lays(e, t, 4, at)
  BY <1>10, <1>13, <1>14, PartPlaces
<1>16. /\ Len(e) = at[4 + 1]
       /\ \A q \in 1..Len(t[3]) : e[at[3] + q] = t[3][q]
       /\ \A q \in 1..Len(t[4]) : e[at[4] + q] = t[4][q]
  BY <1>15 DEF Lays
<1>17. e[4 + 1] = v /\ e[5 + 1] = z /\ Len(e) = 6
  BY <1>11, <1>12, <1>16
<1> QED BY <1>15, <1>17 DEF e

WordTemplate == TemplateOf("word_blocks", "Word")
BitTemplate == TemplateOf("bit_blocks", "Bit")

LEMMA BlocksCommand ==
    ASSUME CommandsStandard, NEW o \in Ops, o.do = "read_blocks"
    PROVE  LET spec == CommandOf(o) IN
           /\ CommandId(o) \in DOMAIN Commands
           /\ spec.code = BlocksCode /\ spec.fields = CountFields
           /\ spec.templates = <<WordTemplate, BitTemplate>>
           /\ spec.entries = <<Entry("word_blocks", "words", TRUE),
                               Entry("bit_blocks", "bits", TRUE)>>
           /\ \A s \in {"Q", "R"} : Subcommand(spec.sub, s) = IF s = "R" THEN 2 ELSE 0
<1> DEFINE spec == CommandOf(o)
<1>1. CommandId(o) \in DOMAIN Commands /\ Follows(spec, Layouts[CommandId(o)])
  BY StandardCommand
<1> HIDE DEF spec
<1>2. CommandId(o) = "read_blocks"
  BY DEF CommandId
<1>3. Layouts["read_blocks"]
        = Layout(BlocksCode, [Q |-> 0, R |-> 2], "Any", CountFields,
                 <<Entry("word_blocks", "words", TRUE), Entry("bit_blocks", "bits", TRUE)>>,
                 <<WordTemplate, BitTemplate>>)
  BY Zenon DEF Layouts, WordTemplate, BitTemplate
<1> DEFINE entries == <<Entry("word_blocks", "words", TRUE), Entry("bit_blocks", "bits", TRUE)>>
           templates == <<WordTemplate, BitTemplate>>
           sub == [Q |-> 0, R |-> 2]
<1> HIDE DEF entries, templates, sub
<1>4. /\ spec.code = BlocksCode /\ spec.sub = [of |-> sub] /\ spec.fields = CountFields
      /\ spec.entries = entries /\ spec.templates = templates
  <2>1. Follows(spec, Layout(BlocksCode, sub, "Any", CountFields, entries, templates))
    BY <1>1, <1>2, <1>3 DEF entries, templates, sub
  <2> QED BY <2>1 DEF Follows, Layout
<1>5. /\ spec.code = BlocksCode /\ spec.sub = [of |-> [Q |-> 0, R |-> 2]]
      /\ spec.fields = CountFields
      /\ spec.entries = <<Entry("word_blocks", "words", TRUE),
                          Entry("bit_blocks", "bits", TRUE)>>
      /\ spec.templates = <<WordTemplate, BitTemplate>>
  BY <1>4 DEF entries, templates, sub
<1>6. \A s \in {"Q", "R"} : Subcommand(spec.sub, s) = IF s = "R" THEN 2 ELSE 0
  BY <1>5, SeriesSub
<1> QED BY <1>1, <1>5, <1>6 DEF spec

\* A block that is sent, and the point the PLC finds.
BlockOf(b, sym) ==
    /\ NamesPoints(b) /\ b["count"] <= MaxWord
    /\ "start_addr" \in DOMAIN b /\ "device_code" \in DOMAIN b /\ "count" \in DOMAIN b
    /\ b["device_code"] = IF sym = "D" THEN 168 ELSE 144
PointOfBlock(b, sym) == [addr |-> b["start_addr"], sym |-> sym, count |-> b["count"]]

LEMMA BlockIs ==
    ASSUME NEW b, BlockFits(b), NEW sym \in {"D", "M"}, NEW key, NEW family,
           family = IF sym = "D" THEN "Word" ELSE "Bit",
           Has(BlockFields(TemplateOf(key, family)), b), CodeAllowed(family, b)
    PROVE  BlockOf(b, sym) /\ PointOf(b) = PointOfBlock(b, sym)
<1>1. BlockFields(TemplateOf(key, family)) = {PointFields[3], PointFields[4], PointFields[5]}
  BY BlockTemplate
<1>2. /\ "start_addr" \in DOMAIN b /\ b["start_addr"] \in Nat
      /\ "device_code" \in DOMAIN b /\ b["device_code"] \in Nat
      /\ "count" \in DOMAIN b /\ b["count"] \in Nat
  <2>1. \A i \in {3, 4, 5} : PointFields[i].kind = "fixed" =>
           PointFields[i].name \in DOMAIN b /\ b[PointFields[i].name] \in Nat
    BY <1>1 DEF Has
  <2> QED BY <2>1, PointFieldsAre
<1>3. Devices.D.code = 168 /\ Devices.M.code = 144
  BY DEF Devices
<1>4. /\ b["start_addr"] <= MaxAddress /\ b["count"] <= MaxWord
      /\ b["device_code"] \in {168, 144}
  BY <1>2, <1>3, Zenon DEF BlockFits, Get
<1>5. NamesPoints(b)
  BY <1>2, <1>4 DEF NamesPoints
<1>6. ASSUME NEW code \in {168, 144}, b["device_code"] = code
      PROVE  Allows(family, IF code = 168 THEN "Word" ELSE "Bit")
  <2>1. DeviceOf(b) = ByCode(code)
    BY <1>2, <1>6 DEF DeviceOf
  <2>2. [code |-> code, category |-> IF code = 168 THEN "Word" ELSE "Bit"] \in ByCode(code)
    BY DEF ByCode, Devices
  <2> QED BY <2>1, <2>2 DEF CodeAllowed
<1>7. b["device_code"] = IF sym = "D" THEN 168 ELSE 144
  <2>1. CASE sym = "D"
    <3>1. family = "Word"
      BY <2>1
    <3>2. b["device_code"] # 144
      BY <1>6, <3>1 DEF Allows
    <3> QED BY <1>4, <2>1, <3>2
  <2>2. CASE sym = "M"
    <3>1. family = "Bit"
      BY <2>2
    <3>2. b["device_code"] # 168
      BY <1>6, <3>1 DEF Allows
    <3> QED BY <1>4, <2>2, <3>2
  <2> QED BY <2>1, <2>2
<1>8. PointOf(b) = PointOfBlock(b, sym)
  <2>1. b["count"] % Memory!WordRange = b["count"]
    <3>1. b["count"] <= 65535
      BY <1>2, <1>4, SMT DEF MaxWord
    <3> QED BY <1>2, <3>1, SMT DEF Memory!WordRange
  <2>2. (IF b["device_code"] = 168 THEN "D" ELSE "M") = sym
    BY <1>7
  <2> QED BY <2>1, <2>2 DEF PointOf, PointOfBlock
<1> QED BY <1>2, <1>4, <1>5, <1>7, <1>8 DEF BlockOf

\* The request of read_blocks, as the PLC takes it.
BlocksRequest(o, s, data) ==
    /\ data \in Seq(Byte)
    /\ Len(o.words) \in Nat /\ Len(o.bits) \in Nat
    /\ \A i \in 1..Len(o.words) : BlockOf(o.words[i], "D")
    /\ \A i \in 1..Len(o.bits) : BlockOf(o.bits[i], "M")
    /\ Word(data, 0) = BlocksCode
    /\ ForR(data) <=> s = "R"
    /\ PointLen(data) = PointWidth(s)
    /\ data[5] = Len(o.words) /\ data[6] = Len(o.bits)
    /\ Len(data) = 6 + PointWidth(s) * (Len(o.words) + Len(o.bits))
    /\ \A i \in 1..Len(o.words) :
           PointAt(data, 6 + PointWidth(s) * (i - 1)) = PointOfBlock(o.words[i], "D")
    /\ \A i \in 1..Len(o.bits) :
           PointAt(data, 6 + PointWidth(s) * (Len(o.words) + i - 1))
               = PointOfBlock(o.bits[i], "M")

\* The blocks of a call have passed the checks.
LEMMA BlocksPass ==
    ASSUME CommandsStandard, CallsFit, NEW o \in Ops, o.do = "read_blocks",
           NEW s, DataFor(o, s) # Failed
    PROVE  /\ IsArray(o.words) /\ IsArray(o.bits)
           /\ Len(o.words) <= 255 /\ Len(o.bits) <= 255
           /\ \A i \in 1..Len(o.words) : /\ BlockOf(o.words[i], "D")
                                         /\ PointOf(o.words[i]) = PointOfBlock(o.words[i], "D")
           /\ \A i \in 1..Len(o.bits) : /\ BlockOf(o.bits[i], "M")
                                        /\ PointOf(o.bits[i]) = PointOfBlock(o.bits[i], "M")
<1> DEFINE spec == CommandOf(o)
           params == ParamsOf(o)
<1>1. /\ IsArray(o.words) /\ IsArray(o.bits)
      /\ Len(o.words) <= 255 /\ Len(o.bits) <= 255
      /\ \A b \in ToSet(o.words) \cup ToSet(o.bits) : BlockFits(b)
  BY DEF CallsFit
<1>2. Passes(spec, params, s)
  BY CallBuilds
<1>3. spec.templates = <<WordTemplate, BitTemplate>>
  BY BlocksCommand
<1>4. params = [word_blocks |-> o.words, bit_blocks |-> o.bits]
  BY Zenon DEF ParamsOf
<1>5. Blocks(params, "word_blocks") = o.words /\ Blocks(params, "bit_blocks") = o.bits
  BY <1>4 DEF Blocks, Get
<1> HIDE DEF spec, params
<1>6. /\ WordTemplate \in ToSet(spec.templates) /\ BitTemplate \in ToSet(spec.templates)
  <2>1. \A x, y : x \in ToSet(<<x, y>>) /\ y \in ToSet(<<x, y>>)
    <3> TAKE x, y
    <3>1. DOMAIN <<x, y>> = {1, 2} /\ <<x, y>>[1] = x /\ <<x, y>>[2] = y
      OBVIOUS
    <3> QED BY <3>1 DEF ToSet
  <2> QED BY <1>3, <2>1
<1>7. /\ WordTemplate.key = "word_blocks" /\ WordTemplate.family = "Word"
      /\ BitTemplate.key = "bit_blocks" /\ BitTemplate.family = "Bit"
  BY BlockTemplate DEF WordTemplate, BitTemplate
<1>8. /\ \A b \in ToSet(o.words) : Has(BlockFields(WordTemplate), b) /\ CodeAllowed("Word", b)
      /\ \A b \in ToSet(o.bits) : Has(BlockFields(BitTemplate), b) /\ CodeAllowed("Bit", b)
  <2>1. ASSUME NEW t \in ToSet(spec.templates), t.family # ""
        PROVE  \A b \in ToSet(Blocks(params, t.key)) :
                   Has(BlockFields(t), b) /\ CodeAllowed(t.family, b)
    BY <1>2, <2>1 DEF Passes, FamiliesMatch
  <2>2. \A b \in ToSet(Blocks(params, WordTemplate.key)) :
            Has(BlockFields(WordTemplate), b) /\ CodeAllowed(WordTemplate.family, b)
    BY <1>6, <1>7, <2>1
  <2>3. \A b \in ToSet(Blocks(params, BitTemplate.key)) :
            Has(BlockFields(BitTemplate), b) /\ CodeAllowed(BitTemplate.family, b)
    BY <1>6, <1>7, <2>1
  <2> QED BY <1>5, <1>7, <2>2, <2>3
<1>9. /\ \A i \in 1..Len(o.words) : o.words[i] \in ToSet(o.words)
      /\ \A i \in 1..Len(o.bits) : o.bits[i] \in ToSet(o.bits)
  BY <1>1 DEF IsArray, ToSet
<1>10. ASSUME NEW i \in 1..Len(o.words)
       PROVE  BlockOf(o.words[i], "D") /\ PointOf(o.words[i]) = PointOfBlock(o.words[i], "D")
  <2>1. /\ BlockFits(o.words[i]) /\ CodeAllowed("Word", o.words[i])
        /\ Has(BlockFields(TemplateOf("word_blocks", "Word")), o.words[i])
    BY <1>1, <1>8, <1>9 DEF WordTemplate
  <2> QED BY <2>1, BlockIs
<1>11. ASSUME NEW i \in 1..Len(o.bits)
       PROVE  BlockOf(o.bits[i], "M") /\ PointOf(o.bits[i]) = PointOfBlock(o.bits[i], "M")
  <2>1. /\ BlockFits(o.bits[i]) /\ CodeAllowed("Bit", o.bits[i])
        /\ Has(BlockFields(TemplateOf("bit_blocks", "Bit")), o.bits[i])
    BY <1>1, <1>8, <1>9 DEF BitTemplate
  <2> QED BY <2>1, BlockIs
<1> QED BY <1>1, <1>10, <1>11

\* Blocks that are placed in data are still placed where these are copied to.
LEMMA BlocksCopy ==
    ASSUME NEW e, NEW blocks, Len(blocks) \in Nat, NEW s, BlocksPlaced(e, 0, blocks, s),
           NEW data, NEW i \in Nat, Copied(data, i, e, 0, PointWidth(s) * Len(blocks))
    PROVE  BlocksPlaced(data, i, blocks, s)
<1> DEFINE w == PointWidth(s)
           n == Len(blocks)
<1>1. w \in {6, 8}
  BY DEF PointWidth
<1>2. \A q \in 1..(w * n) : data[i + q] = e[0 + q]
  BY DEF Copied
<1>3. \A k \in 1..n : Placed(e, 0 + w * (k - 1), blocks[k], s)
  BY DEF BlocksPlaced
<1> HIDE DEF w, n
<1>4. ASSUME NEW k \in 1..n PROVE Placed(data, i + w * (k - 1), blocks[k], s)
  <2> DEFINE at == w * (k - 1)
  <2>0. n \in Nat
    BY DEF n
  <2>1. at \in Nat /\ 0 + at = at /\ i + at \in Nat
    <3>1. CASE w = 6
      BY <2>0, <3>1
    <3>2. CASE w = 8
      BY <2>0, <3>2
    <3> QED BY <1>1, <3>1, <3>2
  <2>2. at + w <= w * n
    <3>1. CASE w = 6
      BY <2>0, <3>1
    <3>2. CASE w = 8
      BY <2>0, <3>2
    <3> QED BY <1>1, <3>1, <3>2
  <2>3. Placed(e, at, blocks[k], s)
    BY <1>3, <2>1
  <2> HIDE DEF at
  <2>4. ASSUME NEW q \in 1..w PROVE data[(i + at) + q] = e[at + q]
    <3>1. /\ at + q \in 1..(w * n) /\ (i + at) + q = i + (at + q)
          /\ 0 + (at + q) = at + q
      <4> DEFINE top == w * n
      <4>1. at + w <= top /\ top \in Int
        <5>1. w \in Int /\ n \in Int
          BY <1>1, <2>0
        <5> QED BY <2>2, <5>1
      <4> HIDE DEF top
      <4>2. at + q \in 1..top /\ (i + at) + q = i + (at + q) /\ 0 + (at + q) = at + q
        BY <1>1, <2>1, <4>1
      <4> QED BY <4>2 DEF top
    <3> QED BY <1>2, <3>1
  <2>5. Copied(data, i + at, e, at, w)
    BY <2>4 DEF Copied
  <2>6. Placed(data, i + at, blocks[k], s)
    BY <2>1, <2>3, <2>5, PlacedCopy DEF w
  <2> QED BY <2>6 DEF at
<1> QED BY <1>4 DEF BlocksPlaced, w, n

LEMMA BlocksData ==
    ASSUME CommandsStandard, CallsFit, NEW o \in Ops, o.do = "read_blocks",
           NEW s \in {"Q", "R"}, DataFor(o, s) # Failed
    PROVE  BlocksRequest(o, s, DataFor(o, s))
<1> DEFINE spec == CommandOf(o)
           params == ParamsOf(o)
           obj == Numbers(spec, params, s)
           data == DataFor(o, s)
           head == Emit(spec.fields, obj, s)
           ws == EmitBlocks(WordTemplate, params, s)
           bs == EmitBlocks(BitTemplate, params, s)
           t == [i \in 1..2 |-> EmitBlocks(spec.templates[i], params, s)]
           nw == Len(o.words)
           nb == Len(o.bits)
           w == PointWidth(s)
<1>1. /\ CommandId(o) \in DOMAIN Commands /\ IsCommand(spec)
      /\ data = BuildRequest(spec, params, s) /\ data # Failed
      /\ Passes(spec, params, s)
  BY CallBuilds
<1>2. /\ spec.code = BlocksCode /\ spec.fields = CountFields
      /\ spec.templates = <<WordTemplate, BitTemplate>>
      /\ Subcommand(spec.sub, s) = IF s = "R" THEN 2 ELSE 0
  BY BlocksCommand
<1>3. /\ IsArray(o.words) /\ IsArray(o.bits) /\ nw <= 255 /\ nb <= 255
      /\ \A i \in 1..nw : BlockOf(o.words[i], "D")
                          /\ PointOf(o.words[i]) = PointOfBlock(o.words[i], "D")
      /\ \A i \in 1..nb : BlockOf(o.bits[i], "M")
                          /\ PointOf(o.bits[i]) = PointOfBlock(o.bits[i], "M")
  BY BlocksPass
<1>4. nw \in Nat /\ nb \in Nat /\ w \in {6, 8}
  BY <1>3 DEF IsArray, PointWidth
<1>5. params = [word_blocks |-> o.words, bit_blocks |-> o.bits]
  BY Zenon DEF ParamsOf
<1>6. /\ params["word_blocks"] = o.words /\ params["bit_blocks"] = o.bits
      /\ Blocks(params, "word_blocks") = o.words /\ Blocks(params, "bit_blocks") = o.bits
  BY <1>5 DEF Blocks, Get
<1> HIDE DEF spec, params
<1>7. obj["word_block_count"] = nw /\ obj["bit_block_count"] = nb
  BY <1>6 DEF Numbers
<1>8. Has(ToSet(spec.fields), obj)
  BY <1>1 DEF Passes
<1> HIDE DEF obj
<1>9. head \in Seq(Byte) /\ Len(head) = 6 /\ head[5] = nw /\ head[6] = nb
  <2>1. AreFields(CountFields)
    BY <1>1, <1>2 DEF IsCommand
  <2> HIDE DEF nw, nb
  <2> QED BY <1>2, <1>3, <1>4, <1>7, <1>8, <2>1, CountsEmitted
<1>10. Opens(head, BlocksCode, IF s = "R" THEN 2 ELSE 0)
  <2>1. HasCodes(spec)
    BY <1>1, CommandCodes DEF CommandOf, spec
  <2>2. BeginsWithCodes(spec.fields)
    <3>1. /\ Len(CountFields) = 4 /\ CountFields[1] = PointFields[1]
          /\ CountFields[2] = PointFields[2]
      BY DEF CountFields
    <3> QED BY <1>2, <3>1, PointFieldsAre DEF BeginsWithCodes
  <2>3. Opens(head, spec.code, Subcommand(spec.sub, s))
    BY <1>1, <1>8, <2>1, <2>2, CodesFirst DEF obj
  <2> QED BY <1>2, <2>3
<1>11. ws \in Seq(Byte) /\ Len(ws) = w * nw /\ BlocksPlaced(ws, 0, o.words, s)
  <2>1. \A k \in 1..Len(o.words) : NamesPoints(o.words[k])
    BY <1>3 DEF BlockOf
  <2> QED BY <1>3, <1>6, <2>1, BlocksEmitted DEF WordTemplate
<1>12. bs \in Seq(Byte) /\ Len(bs) = w * nb /\ BlocksPlaced(bs, 0, o.bits, s)
  <2>1. \A k \in 1..Len(o.bits) : NamesPoints(o.bits[k])
    BY <1>3 DEF BlockOf
  <2> QED BY <1>3, <1>6, <2>1, BlocksEmitted DEF BitTemplate
<1>13. t[1] = ws /\ t[2] = bs /\ t = [i \in 1..2 |-> t[i]]
  BY <1>2
<1>14. data = head \o FlattenSeq(t)
  <2>1. Len(spec.templates) = 2
    BY <1>2
  <2>2. data = head \o FlattenSeq([i \in 1..Len(spec.templates) |->
                                       EmitBlocks(spec.templates[i], params, s)])
    BY <1>1, Accepted DEF obj
  <2> QED BY <2>1, <2>2
<1> HIDE DEF t, head, ws, bs, data, nw, nb, w
<1> DEFINE tail == FlattenSeq(t)
<1>15. tail \in Seq(Byte) /\ IsJoin(tail, ws, bs)
  <2>1. Parts(t, 2, Byte)
    BY <1>11, <1>12, <1>13 DEF Parts
  <2> QED BY <1>13, <2>1, TwoParts
<1> HIDE DEF tail
<1>16. data \in Seq(Byte) /\ IsJoin(data, head, tail)
  BY <1>9, <1>14, <1>15, Appended DEF tail
<1>17. Len(tail) = Len(ws) + Len(bs) /\ Len(data) = 6 + Len(tail)
  BY <1>9, <1>15, <1>16 DEF IsJoin
<1>18. Len(ws) \in Nat /\ Len(bs) \in Nat /\ Len(tail) \in Nat
  BY <1>11, <1>12, <1>15
<1>19. Copied(data, 6, ws, 0, Len(ws))
  <2>1. ASSUME NEW q \in 1..Len(ws) PROVE data[6 + q] = ws[0 + q]
    <3>1. q \in 1..Len(tail) /\ 0 + q = q
      BY <1>17, <1>18
    <3>2. data[6 + q] = tail[q] /\ tail[q] = ws[q]
      BY <1>9, <1>15, <1>16, <3>1 DEF IsJoin
    <3> QED BY <3>1, <3>2
  <2> QED BY <2>1 DEF Copied
<1>20. Copied(data, 6 + Len(ws), bs, 0, Len(bs))
  <2>1. ASSUME NEW q \in 1..Len(bs) PROVE data[6 + Len(ws) + q] = bs[0 + q]
    <3>1. /\ Len(ws) + q \in 1..Len(tail) /\ 0 + q = q
          /\ 6 + (Len(ws) + q) = 6 + Len(ws) + q
      BY <1>17, <1>18
    <3>2. data[6 + (Len(ws) + q)] = tail[Len(ws) + q] /\ tail[Len(ws) + q] = bs[q]
      BY <1>9, <1>15, <1>16, <3>1 DEF IsJoin
    <3> QED BY <3>1, <3>2
  <2> QED BY <2>1 DEF Copied
<1>21. BlocksPlaced(data, 6, o.words, s) /\ BlocksPlaced(data, 6 + Len(ws), o.bits, s)
  <2>1. 6 \in Nat /\ 6 + Len(ws) \in Nat
    BY <1>18
  <2> QED BY <1>4, <1>11, <1>12, <1>19, <1>20, <2>1, BlocksCopy DEF nw, nb, w
<1>22. Word(data, 0) = BlocksCode /\ Word(data, 2) = (IF s = "R" THEN 2 ELSE 0)
  <2>1. Begins(data, head)
    BY <1>9, <1>14, <1>15, JoinBegins DEF tail
  <2>2. Len(head) \in Nat /\ Len(data) \in Nat
    BY <1>9, <1>16
  <2>3. Opens(data, BlocksCode, IF s = "R" THEN 2 ELSE 0)
    BY <1>10, <2>1, <2>2, OpensLonger
  <2> QED BY <2>3 DEF Opens
<1>23. ForR(data) <=> s = "R"
  BY <1>22 DEF ForR
<1>24. PointLen(data) = w
  BY <1>23 DEF PointLen, PointWidth, w
<1>25. data[5] = nw /\ data[6] = nb
  <2>1. 5 \in 1..Len(head) /\ 6 \in 1..Len(head)
    BY <1>9
  <2> QED BY <1>9, <1>16, <2>1 DEF IsJoin
<1>26. Len(data) = 6 + w * (nw + nb)
  <2>1. CASE w = 6
    BY <1>4, <1>11, <1>12, <1>17, <2>1
  <2>2. CASE w = 8
    BY <1>4, <1>11, <1>12, <1>17, <2>2
  <2> QED BY <1>4, <2>1, <2>2
<1>27. ASSUME NEW i \in 1..nw
       PROVE  PointAt(data, 6 + w * (i - 1)) = PointOfBlock(o.words[i], "D")
  <2>1. 6 + w * (i - 1) \in Nat
    <3>1. CASE w = 6
      BY <1>4, <3>1
    <3>2. CASE w = 8
      BY <1>4, <3>2
    <3> QED BY <1>4, <3>1, <3>2
  <2>2. Placed(data, 6 + w * (i - 1), o.words[i], s)
    BY <1>21 DEF BlocksPlaced, nw, w
  <2>3. NamesPoints(o.words[i]) /\ PointOf(o.words[i]) = PointOfBlock(o.words[i], "D")
    BY <1>3 DEF BlockOf, nw
  <2>4. PointAt(data, 6 + w * (i - 1)) = PointOf(o.words[i])
    BY <1>23, <2>1, <2>2, <2>3, PointRead
  <2> QED BY <2>3, <2>4
<1>28. ASSUME NEW i \in 1..nb
       PROVE  PointAt(data, 6 + w * (nw + i - 1)) = PointOfBlock(o.bits[i], "M")
  <2> DEFINE at == 6 + Len(ws) + w * (i - 1)
  <2>1. at \in Nat /\ at = 6 + w * (nw + i - 1)
    <3>1. CASE w = 6
      BY <1>4, <1>11, <3>1
    <3>2. CASE w = 8
      BY <1>4, <1>11, <3>2
    <3> QED BY <1>4, <3>1, <3>2
  <2>2. Placed(data, at, o.bits[i], s)
    BY <1>21 DEF BlocksPlaced, nb, w
  <2>3. NamesPoints(o.bits[i]) /\ PointOf(o.bits[i]) = PointOfBlock(o.bits[i], "M")
    BY <1>3 DEF BlockOf, nb
  <2> HIDE DEF at
  <2>4. PointAt(data, at) = PointOf(o.bits[i])
    BY <1>23, <2>1, <2>2, <2>3, PointRead
  <2> QED BY <2>1, <2>3, <2>4
<1>29. BlocksRequest(o, s, data)
  BY <1>3, <1>4, <1>16, <1>22, <1>23, <1>24, <1>25, <1>26, <1>27, <1>28
     DEF BlocksRequest, nw, nb, w
<1> QED BY <1>29 DEF data

(***************************************************************************)
(* Limits: what the blocks of a request ask for, summed up by build_request*)
(* and by the PLC.                                                         *)
(***************************************************************************)

\* The equation of a function that sums up the first numbers.
Sums(g, numbers, n) == g = [i \in 0..n |-> IF i = 0 THEN 0 ELSE g[i - 1] + numbers[i]]

AllNat(numbers, n) == \A k \in 1..n : numbers[k] \in Nat

LEMMA SumsExists ==
    ASSUME NEW n \in Nat, NEW numbers, AllNat(numbers, n)
    PROVE  \E g : Sums(g, numbers, n)
<1>1. PICK g : Horner(g, 1, numbers, n)
  BY HornerExists
<1>2. \A k \in 0..n : g[k] \in Nat
  BY <1>1, HornerType DEF AllNat
<1>3. ASSUME NEW k \in 1..n PROVE 1 * g[k - 1] + numbers[k] = g[k - 1] + numbers[k]
  <2>1. k - 1 \in 0..n
    OBVIOUS
  <2> QED BY <1>2, <2>1
<1>4. g = [k \in 0..n |-> IF k = 0 THEN 0 ELSE 1 * g[k - 1] + numbers[k]]
  BY <1>1 DEF Horner
<1>5. [k \in 0..n |-> IF k = 0 THEN 0 ELSE 1 * g[k - 1] + numbers[k]]
        = [k \in 0..n |-> IF k = 0 THEN 0 ELSE g[k - 1] + numbers[k]]
  <2> SUFFICES ASSUME NEW k \in 0..n, k # 0
               PROVE  1 * g[k - 1] + numbers[k] = g[k - 1] + numbers[k]
    BY Zenon
  <2>1. k \in 1..n
    OBVIOUS
  <2> QED BY <1>3, <2>1
<1> QED BY <1>4, <1>5, Zenon DEF Sums

LEMMA SumsAre ==
    ASSUME NEW n \in Nat, NEW numbers, AllNat(numbers, n), NEW g, Sums(g, numbers, n)
    PROVE  /\ g[0] = 0
           /\ \A k \in 1..n : g[k] = g[k - 1] + numbers[k]
           /\ \A k \in 0..n : g[k] \in Nat
<1>1. \A k \in 0..n : g[k] = IF k = 0 THEN 0 ELSE g[k - 1] + numbers[k]
  BY DEF Sums
<1>2. g[0] = 0 /\ \A k \in 1..n : g[k] = g[k - 1] + numbers[k]
  BY <1>1
<1> DEFINE N == {k \in Nat : k \in 0..n => g[k] \in Nat}
<1>3. 0 \in N
  BY <1>2
<1>4. ASSUME NEW k \in Nat, k \in N PROVE k + 1 \in N
  <2> SUFFICES ASSUME k + 1 \in 0..n PROVE g[k + 1] \in Nat
    OBVIOUS
  <2>1. k + 1 \in 1..n /\ (k + 1) - 1 = k /\ k \in 0..n
    OBVIOUS
  <2>2. g[k + 1] = g[k] + numbers[k + 1] /\ numbers[k + 1] \in Nat /\ g[k] \in Nat
    BY <1>2, <1>4, <2>1 DEF AllNat
  <2> QED BY <2>2
<1> HIDE DEF N
<1>5. Nat \subseteq N
  BY <1>3, <1>4, Induction
<1> QED BY <1>2, <1>5 DEF N

LEMMA SumsAgree ==
    ASSUME NEW n \in Nat, NEW numbers, AllNat(numbers, n),
           NEW g, Sums(g, numbers, n), NEW h, Sums(h, numbers, n)
    PROVE  \A k \in 0..n : g[k] = h[k]
<1>1. /\ g[0] = 0 /\ \A k \in 1..n : g[k] = g[k - 1] + numbers[k]
      /\ h[0] = 0 /\ \A k \in 1..n : h[k] = h[k - 1] + numbers[k]
  BY SumsAre
<1> DEFINE N == {k \in Nat : k \in 0..n => g[k] = h[k]}
<1>2. 0 \in N
  BY <1>1
<1>3. ASSUME NEW k \in Nat, k \in N PROVE k + 1 \in N
  <2> SUFFICES ASSUME k + 1 \in 0..n PROVE g[k + 1] = h[k + 1]
    OBVIOUS
  <2>1. k + 1 \in 1..n /\ (k + 1) - 1 = k /\ k \in 0..n
    OBVIOUS
  <2> QED BY <1>1, <1>3, <2>1
<1> HIDE DEF N
<1>4. Nat \subseteq N
  BY <1>2, <1>3, Induction
<1> QED BY <1>4 DEF N

\* Total is the last of the sums.
LEMMA TotalIs ==
    ASSUME NEW numbers, Len(numbers) \in Nat, AllNat(numbers, Len(numbers)),
           NEW g, Sums(g, numbers, Len(numbers))
    PROVE  Total(numbers) = g[Len(numbers)]
<1> DEFINE n == Len(numbers)
           eq(h) == [i \in 0..n |-> IF i = 0 THEN 0 ELSE h[i - 1] + numbers[i]]
           f == CHOOSE h : h = eq(h)
<1>1. Total(numbers) = f[n]
  BY ZenonT(50), SMTT(30) DEF Total
<1>2. g = eq(g)
  BY DEF Sums
<1> HIDE DEF eq
<1>3. f = eq(f)
  BY ZenonT(50), <1>2
<1> HIDE DEF f
<1>4. Sums(f, numbers, n)
  BY <1>3, Zenon DEF Sums, eq
<1>5. n \in 0..n
  OBVIOUS
<1> QED BY <1>1, <1>4, <1>5, SumsAgree

LEMMA TotalOfNone ==
    ASSUME NEW n \in Nat
    PROVE  Total([i \in 1..n |-> 0]) = 0
<1> DEFINE numbers == [i \in 1..n |-> 0]
           g == [i \in 0..n |-> 0]
<1>1. Len(numbers) = n /\ AllNat(numbers, n)
  BY DEF AllNat
<1>2. Sums(g, numbers, n)
  BY DEF Sums
<1>3. g[n] = 0
  OBVIOUS
<1> HIDE DEF numbers, g
<1>4. Total(numbers) = g[Len(numbers)]
  BY <1>1, <1>2, TotalIs
<1> QED BY <1>1, <1>3, <1>4 DEF numbers

LEMMA TotalOfTwo ==
    ASSUME NEW numbers, Len(numbers) = 2, numbers[1] \in Nat, numbers[2] \in Nat
    PROVE  Total(numbers) = numbers[1] + numbers[2]
<1>1. AllNat(numbers, 2)
  BY DEF AllNat
<1>2. 2 \in Nat
  OBVIOUS
<1>3. PICK g : Sums(g, numbers, 2)
  BY <1>1, <1>2, SumsExists
<1>4. /\ g[0] = 0 /\ \A k \in 1..2 : g[k] = g[k - 1] + numbers[k]
      /\ \A k \in 0..2 : g[k] \in Nat
  BY <1>1, <1>2, <1>3, SumsAre
<1>5. g[1] = g[1 - 1] + numbers[1] /\ g[2] = g[2 - 1] + numbers[2]
  BY <1>4
<1>6. g[2] = numbers[1] + numbers[2]
  BY <1>4, <1>5
<1>7. Total(numbers) = g[2]
  BY <1>1, <1>2, <1>3, TotalIs
<1> QED BY <1>6, <1>7

\* The numbers of points of some blocks.
CountsOf(blocks) == [i \in 1..Len(blocks) |-> blocks[i].count]

LEMMA CodeDevice ==
    /\ ByCode(168) = {[code |-> 168, category |-> "Word"]}
    /\ ByCode(144) = {[code |-> 144, category |-> "Bit"]}
BY DEF ByCode, Devices

\* What build_request counts are the points of the word blocks and of the bit
\* blocks.
LEMMA AskedFor ==
    ASSUME CommandsStandard, CallsFit, NEW o \in Ops, o.do = "read_blocks",
           NEW s, DataFor(o, s) # Failed
    PROVE  /\ PointsAsked(CommandOf(o), ParamsOf(o), "Word") = Total(CountsOf(o.words))
           /\ PointsAsked(CommandOf(o), ParamsOf(o), "Bit") = Total(CountsOf(o.bits))
           /\ Len(CountsOf(o.words)) = Len(o.words) /\ AllNat(CountsOf(o.words), Len(o.words))
           /\ Len(CountsOf(o.bits)) = Len(o.bits) /\ AllNat(CountsOf(o.bits), Len(o.bits))
<1> DEFINE spec == CommandOf(o)
           params == ParamsOf(o)
           nw == Len(o.words)
           nb == Len(o.bits)
           asked(b, category) == IF \E d \in DeviceOf(b) : d.category = category
                                 THEN Get(b, "count", 0) ELSE 0
           points(blocks, category) == Total([i \in 1..Len(blocks) |-> asked(blocks[i], category)])
           all(category) == [i \in 1..Len(spec.templates) |->
                                 points(Blocks(params, spec.templates[i].key), category)]
<1>1. /\ nw \in Nat /\ nb \in Nat
      /\ \A i \in 1..nw : BlockOf(o.words[i], "D")
      /\ \A i \in 1..nb : BlockOf(o.bits[i], "M")
  BY BlocksPass DEF IsArray
<1>2. spec.templates = <<WordTemplate, BitTemplate>>
  BY BlocksCommand
<1>3. params = [word_blocks |-> o.words, bit_blocks |-> o.bits]
  BY Zenon DEF ParamsOf
<1>4. Blocks(params, "word_blocks") = o.words /\ Blocks(params, "bit_blocks") = o.bits
  BY <1>3 DEF Blocks, Get
<1>5. WordTemplate.key = "word_blocks" /\ BitTemplate.key = "bit_blocks"
  BY BlockTemplate DEF WordTemplate, BitTemplate
<1>6. ASSUME NEW category PROVE PointsAsked(spec, params, category) = Total(all(category))
  BY ZenonT(30) DEF PointsAsked
<1> HIDE DEF spec, params
<1>7. ASSUME NEW category
      PROVE  /\ Len(all(category)) = 2
             /\ all(category)[1] = points(o.words, category)
             /\ all(category)[2] = points(o.bits, category)
  <2>1. Len(spec.templates) = 2 /\ spec.templates[1] = WordTemplate
        /\ spec.templates[2] = BitTemplate
    BY <1>2
  <2> HIDE DEF points
  <2> QED BY <1>4, <1>5, <2>1
<1>8. ASSUME NEW b, NEW sym \in {"D", "M"}, BlockOf(b, sym), NEW category \in {"Word", "Bit"}
      PROVE  asked(b, category) = IF (sym = "D") = (category = "Word") THEN b.count ELSE 0
  <2>1. DeviceOf(b) = {[code |-> b.device_code,
                        category |-> IF sym = "D" THEN "Word" ELSE "Bit"]}
    BY <1>8, CodeDevice DEF BlockOf, DeviceOf
  <2>2. (\E d \in DeviceOf(b) : d.category = category)
           <=> (sym = "D") = (category = "Word")
    BY <2>1
  <2>3. Get(b, "count", 0) = b.count
    BY <1>8 DEF BlockOf, Get
  <2> QED BY <2>2, <2>3
<1> HIDE DEF asked
<1>9. /\ points(o.words, "Word") = Total(CountsOf(o.words))
      /\ points(o.bits, "Bit") = Total(CountsOf(o.bits))
  <2>1. \A i \in 1..nw : asked(o.words[i], "Word") = o.words[i].count
    BY <1>1, <1>8
  <2>2. \A i \in 1..nb : asked(o.bits[i], "Bit") = o.bits[i].count
    BY <1>1, <1>8
  <2>3. [i \in 1..nw |-> asked(o.words[i], "Word")] = CountsOf(o.words)
    BY <2>1 DEF CountsOf
  <2>4. [i \in 1..nb |-> asked(o.bits[i], "Bit")] = CountsOf(o.bits)
    BY <2>2 DEF CountsOf
  <2> QED BY <2>3, <2>4
<1>10. points(o.words, "Bit") = 0 /\ points(o.bits, "Word") = 0
  <2>1. \A i \in 1..nw : asked(o.words[i], "Bit") = 0
    BY <1>1, <1>8
  <2>2. \A i \in 1..nb : asked(o.bits[i], "Word") = 0
    BY <1>1, <1>8
  <2>3. [i \in 1..nw |-> asked(o.words[i], "Bit")] = [i \in 1..nw |-> 0]
    BY <2>1
  <2>4. [i \in 1..nb |-> asked(o.bits[i], "Word")] = [i \in 1..nb |-> 0]
    BY <2>2
  <2>5. Total([i \in 1..nw |-> 0]) = 0 /\ Total([i \in 1..nb |-> 0]) = 0
    BY <1>1, TotalOfNone
  <2> QED BY <2>3, <2>4, <2>5
<1>11. /\ Len(CountsOf(o.words)) = nw /\ AllNat(CountsOf(o.words), nw)
       /\ Len(CountsOf(o.bits)) = nb /\ AllNat(CountsOf(o.bits), nb)
  BY <1>1 DEF CountsOf, AllNat, BlockOf, NamesPoints
<1>12. Total(CountsOf(o.words)) \in Nat /\ Total(CountsOf(o.bits)) \in Nat
  <2>1. ASSUME NEW numbers, NEW n \in Nat, Len(numbers) = n, AllNat(numbers, n)
        PROVE  Total(numbers) \in Nat
    <3>1. PICK g : Sums(g, numbers, n)
      BY <2>1, SumsExists
    <3>2. Total(numbers) = g[n] /\ n \in 0..n
      BY <2>1, <3>1, TotalIs
    <3> QED BY <2>1, <3>1, <3>2, SumsAre
  <2> QED BY <1>1, <1>11, <2>1
<1> HIDE DEF points, all
<1>13. PointsAsked(spec, params, "Word") = Total(CountsOf(o.words))
  <2> DEFINE numbers == all("Word")
  <2>1. /\ Len(numbers) = 2 /\ numbers[1] = Total(CountsOf(o.words)) /\ numbers[2] = 0
    BY <1>7, <1>9, <1>10
  <2>2. Total(numbers) = numbers[1] + numbers[2]
    <3> HIDE DEF numbers
    <3> QED BY <1>12, <2>1, TotalOfTwo
  <2> QED BY <1>6, <1>12, <2>1, <2>2
<1>14. PointsAsked(spec, params, "Bit") = Total(CountsOf(o.bits))
  <2> DEFINE numbers == all("Bit")
  <2>1. /\ Len(numbers) = 2 /\ numbers[1] = 0 /\ numbers[2] = Total(CountsOf(o.bits))
    BY <1>7, <1>9, <1>10
  <2>2. Total(numbers) = numbers[1] + numbers[2]
    <3> HIDE DEF numbers
    <3> QED BY <1>12, <2>1, TotalOfTwo
  <2> QED BY <1>6, <1>12, <2>1, <2>2
<1> QED BY <1>11, <1>13, <1>14 DEF spec, params, nw, nb

\* Row t of sums, a function that satisfies the equation of such a row.
PointSums(t, points, n) ==
    t = [i \in 0..n |-> IF i = 0 THEN [D |-> 0, M |-> 0]
                        ELSE [t[i - 1] EXCEPT ![points[i].sym] = @ + points[i].count]]

\* Points of words, then points of bits.
WordsThenBits(points, wc, nw, bc, nb) ==
    /\ \A i \in 1..nw : points[i].sym = "D" /\ points[i].count = wc[i]
    /\ \A i \in 1..nb : points[nw + i].sym = "M" /\ points[nw + i].count = bc[i]

LEMMA PointSumsExist ==
    ASSUME NEW nw \in Nat, NEW wc, AllNat(wc, nw), NEW w, Sums(w, wc, nw),
           NEW nb \in Nat, NEW bc, AllNat(bc, nb), NEW b, Sums(b, bc, nb),
           NEW points, WordsThenBits(points, wc, nw, bc, nb)
    PROVE  \E t : PointSums(t, points, nw + nb)
<1> DEFINE row(i) == IF i <= nw THEN [D |-> w[i], M |-> 0] ELSE [D |-> w[nw], M |-> b[i - nw]]
           t == [i \in 0..(nw + nb) |-> row(i)]
           next(i) == [t[i - 1] EXCEPT ![points[i].sym] = @ + points[i].count]
<1>1. /\ w[0] = 0 /\ \A k \in 1..nw : w[k] = w[k - 1] + wc[k]
      /\ b[0] = 0 /\ \A k \in 1..nb : b[k] = b[k - 1] + bc[k]
  BY SumsAre
<1>2. row(0) = [D |-> 0, M |-> 0]
  BY <1>1
<1>3. ASSUME NEW i \in 1..nw PROVE row(i) = next(i)
  <2>1. t[i - 1] = [D |-> w[i - 1], M |-> 0]
    <3>1. i - 1 \in 0..(nw + nb) /\ i - 1 <= nw
      OBVIOUS
    <3> QED BY <3>1
  <2>2. row(i) = [D |-> w[i - 1] + wc[i], M |-> 0]
    BY <1>1
  <2>3. points[i].sym = "D" /\ points[i].count = wc[i]
    BY DEF WordsThenBits
  <2> HIDE DEF t, row
  <2> QED BY <2>1, <2>2, <2>3
<1>4. ASSUME NEW i \in (nw + 1)..(nw + nb) PROVE row(i) = next(i)
  <2>1. i - nw \in 1..nb /\ nw + (i - nw) = i /\ (i - 1) - nw = (i - nw) - 1
    OBVIOUS
  <2>2. t[i - 1] = [D |-> w[nw], M |-> b[(i - nw) - 1]]
    <3>1. i - 1 \in 0..(nw + nb)
      OBVIOUS
    <3>2. CASE i - 1 <= nw
      <4>1. i - 1 = nw /\ (i - nw) - 1 = 0
        BY <3>2
      <4> QED BY <1>1, <3>1, <4>1
    <3>3. CASE ~(i - 1 <= nw)
      BY <2>1, <3>1, <3>3
    <3> QED BY <3>2, <3>3
  <2>3. row(i) = [D |-> w[nw], M |-> b[(i - nw) - 1] + bc[i - nw]]
    BY <1>1, <2>1
  <2>4. points[i].sym = "M" /\ points[i].count = bc[i - nw]
    BY <2>1 DEF WordsThenBits
  <2> HIDE DEF t, row
  <2> QED BY <2>2, <2>3, <2>4
<1>5. \A i \in 0..(nw + nb) : row(i) = IF i = 0 THEN [D |-> 0, M |-> 0] ELSE next(i)
  <2> SUFFICES ASSUME NEW i \in 0..(nw + nb), i # 0 PROVE row(i) = next(i)
    BY <1>2
  <2>1. i \in 1..nw \/ i \in (nw + 1)..(nw + nb)
    OBVIOUS
  <2> HIDE DEF row, next
  <2> QED BY <1>3, <1>4, <2>1
<1>6. t = [i \in 0..(nw + nb) |-> IF i = 0 THEN [D |-> 0, M |-> 0] ELSE next(i)]
  <2> HIDE DEF row, next
  <2> QED BY <1>5
<1>7. PointSums(t, points, nw + nb)
  <2> HIDE DEF t
  <2> QED BY <1>6, Zenon DEF PointSums
<1> QED BY <1>7

LEMMA PointSumsAre ==
    ASSUME NEW nw \in Nat, NEW wc, AllNat(wc, nw), NEW w, Sums(w, wc, nw),
           NEW nb \in Nat, NEW bc, AllNat(bc, nb), NEW b, Sums(b, bc, nb),
           NEW points, WordsThenBits(points, wc, nw, bc, nb),
           NEW t, PointSums(t, points, nw + nb)
    PROVE  t[nw + nb] = [D |-> w[nw], M |-> b[nb]]
<1>1. /\ w[0] = 0 /\ \A k \in 1..nw : w[k] = w[k - 1] + wc[k]
      /\ b[0] = 0 /\ \A k \in 1..nb : b[k] = b[k - 1] + bc[k]
  BY SumsAre
<1>2. /\ t[0] = [D |-> 0, M |-> 0]
      /\ \A i \in 1..(nw + nb) :
            t[i] = [t[i - 1] EXCEPT ![points[i].sym] = @ + points[i].count]
  <2> DEFINE next(i) == [t[i - 1] EXCEPT ![points[i].sym] = @ + points[i].count]
             zero == [D |-> 0, M |-> 0]
  <2>1. t = [i \in 0..(nw + nb) |-> IF i = 0 THEN zero ELSE next(i)]
    BY Zenon DEF PointSums
  <2> HIDE DEF next, zero
  <2>2. t[0] = zero
    <3>1. 0 \in 0..(nw + nb)
      OBVIOUS
    <3> QED BY <2>1, <3>1
  <2>3. ASSUME NEW i \in 1..(nw + nb) PROVE t[i] = next(i)
    <3>1. i \in 0..(nw + nb) /\ i # 0
      OBVIOUS
    <3> QED BY <2>1, <3>1
  <2> QED BY <2>2, <2>3, Zenon DEF next, zero
<1> DEFINE N == {i \in Nat : i \in 0..nw => t[i] = [D |-> w[i], M |-> 0]}
           L == {i \in Nat : i \in 0..nb => t[nw + i] = [D |-> w[nw], M |-> b[i]]}
<1>3. 0 \in N
  BY <1>1, <1>2
<1>4. ASSUME NEW i \in Nat, i \in N PROVE i + 1 \in N
  <2> SUFFICES ASSUME i + 1 \in 0..nw PROVE t[i + 1] = [D |-> w[i + 1], M |-> 0]
    OBVIOUS
  <2>1. i + 1 \in 1..nw /\ i + 1 \in 1..(nw + nb) /\ (i + 1) - 1 = i /\ i \in 0..nw
    OBVIOUS
  <2>2. points[i + 1].sym = "D" /\ points[i + 1].count = wc[i + 1]
    BY <2>1 DEF WordsThenBits
  <2>3. t[i] = [D |-> w[i], M |-> 0] /\ w[i + 1] = w[i] + wc[i + 1]
    BY <1>1, <1>4, <2>1
  <2>4. t[i + 1] = [t[i] EXCEPT ![points[i + 1].sym] = @ + points[i + 1].count]
    BY <1>2, <2>1
  <2> QED BY <2>2, <2>3, <2>4
<1>5. N = Nat
  <2> HIDE DEF N
  <2>1. Nat \subseteq N
    BY <1>3, <1>4, Induction
  <2> QED BY <2>1 DEF N
<1>6. 0 \in L
  <2>0. nw \in N /\ nw + 0 = nw
    <3> HIDE DEF N
    <3> QED BY <1>5
  <2>1. nw \in 0..nw /\ nw + 0 = nw
    OBVIOUS
  <2>2. t[nw] = [D |-> w[nw], M |-> 0]
    BY <2>0, <2>1
  <2> QED BY <1>1, <2>1, <2>2
<1>7. ASSUME NEW i \in Nat, i \in L PROVE i + 1 \in L
  <2> SUFFICES ASSUME i + 1 \in 0..nb PROVE t[nw + (i + 1)] = [D |-> w[nw], M |-> b[i + 1]]
    OBVIOUS
  <2>1. /\ i + 1 \in 1..nb /\ nw + (i + 1) \in 1..(nw + nb) /\ (i + 1) - 1 = i
        /\ (nw + (i + 1)) - 1 = nw + i /\ i \in 0..nb
    OBVIOUS
  <2> DEFINE next == nw + (i + 1)
  <2>2. points[next].sym = "M" /\ points[next].count = bc[i + 1]
    BY <2>1 DEF WordsThenBits
  <2>3. t[nw + i] = [D |-> w[nw], M |-> b[i]] /\ b[i + 1] = b[i] + bc[i + 1]
    BY <1>1, <1>7, <2>1
  <2>4. t[next] = [t[next - 1] EXCEPT ![points[next].sym] = @ + points[next].count]
    BY <1>2, <2>1
  <2>5. next - 1 = nw + i
    BY <2>1
  <2> HIDE DEF next
  <2>6. t[next] = [D |-> w[nw], M |-> b[i + 1]]
    BY <2>2, <2>3, <2>4, <2>5
  <2> QED BY <2>6 DEF next
<1>8. nb \in L
  <2> HIDE DEF L
  <2>1. Nat \subseteq L
    BY <1>6, <1>7, Induction
  <2> QED BY <2>1
<1> QED BY <1>8

\* What OnlyAllowedPointsSent says of the data of a request: n points, the first
\* of them at this offset.
Allowed(o, data, n, first) ==
    LET limits == CommandOf(o).limits
        p(i) == PointAt(data, first + PointLen(data) * (i - 1))
        total[i \in 0..n] ==
            IF i = 0 THEN [D |-> 0, M |-> 0]
            ELSE [total[i - 1] EXCEPT ![p(i).sym] = @ + p(i).count]
    IN  IF o.do = "read_blocks"
        THEN /\ \A i \in 1..n : p(i).sym = IF i <= data[5] THEN "D" ELSE "M"
             /\ "Word" \in DOMAIN limits => total[n].D <= limits.Word
             /\ "Bit" \in DOMAIN limits => total[n].M <= limits.Bit
        ELSE p(1).sym = "M"

LEMMA AllowedPoints ==
    ASSUME CommandsStandard, CallsFit, NEW o \in Ops, o.do \in BitCalls,
           NEW s \in {"Q", "R"}, DataFor(o, s) # Failed
    PROVE  Allowed(o, DataFor(o, s), 1, 4)
<1> DEFINE data == DataFor(o, s)
<1>1. o.do \in PointReads \cup PointWrites /\ o.do # "read_blocks"
  BY DEF BitCalls, PointReads, PointWrites
<1>2. PointAt(data, 4) = PointSent(o) /\ PointLen(data) = PointWidth(s) /\ o.sym = "M"
  BY <1>1, PointData, CallPoints DEF PointRequest
<1> HIDE DEF data
<1>3. 4 + PointLen(data) * (1 - 1) = 4
  BY <1>2 DEF PointWidth
<1>4. PointAt(data, 4 + PointLen(data) * (1 - 1)).sym = "M"
  BY <1>2, <1>3 DEF PointSent
<1> QED BY <1>1, <1>4, Zenon DEF Allowed, data

LEMMA AllowedBlocks ==
    ASSUME CommandsStandard, CallsFit, NEW o \in Ops, o.do = "read_blocks",
           NEW s \in {"Q", "R"}, DataFor(o, s) # Failed,
           NEW data, data = DataFor(o, s)
    PROVE  Allowed(o, data, data[5] + data[6], 6)
<1> DEFINE limits == CommandOf(o).limits
           nw == Len(o.words)
           nb == Len(o.bits)
           n == data[5] + data[6]
           p(i) == PointAt(data, 6 + PointLen(data) * (i - 1))
           points == [i \in 1..n |-> p(i)]
           zero == [D |-> 0, M |-> 0]
           eq(t) == [i \in 0..n |-> IF i = 0 THEN zero
                                    ELSE [t[i - 1] EXCEPT ![p(i).sym] = @ + p(i).count]]
           total == CHOOSE t : t = eq(t)
<1>1. BlocksRequest(o, s, data)
  BY BlocksData
<1>2. nw \in Nat /\ nb \in Nat /\ data[5] = nw /\ data[6] = nb /\ PointLen(data) = PointWidth(s)
  BY <1>1 DEF BlocksRequest
<1>3. n = nw + nb
  BY <1>2
<1>4. ASSUME NEW i \in 1..nw PROVE p(i) = PointOfBlock(o.words[i], "D")
  BY <1>1, <1>2 DEF BlocksRequest
<1>5. ASSUME NEW i \in 1..nb PROVE p(nw + i) = PointOfBlock(o.bits[i], "M")
  BY <1>1, <1>2 DEF BlocksRequest
<1> DEFINE wc == CountsOf(o.words)
           bc == CountsOf(o.bits)
<1>6. /\ PointsAsked(CommandOf(o), ParamsOf(o), "Word") = Total(wc)
      /\ PointsAsked(CommandOf(o), ParamsOf(o), "Bit") = Total(bc)
      /\ Len(wc) = nw /\ AllNat(wc, nw) /\ Len(bc) = nb /\ AllNat(bc, nb)
  BY AskedFor
<1>7. /\ \A i \in 1..nw : wc[i] = o.words[i].count
      /\ \A i \in 1..nb : bc[i] = o.bits[i].count
  BY DEF CountsOf
<1> HIDE DEF p, wc, bc, n, nw, nb
<1>8. WordsThenBits(points, wc, nw, bc, nb)
  <2>1. ASSUME NEW i \in 1..nw PROVE points[i].sym = "D" /\ points[i].count = wc[i]
    <3>1. i \in 1..n
      BY <1>2, <1>3
    <3> QED BY <1>4, <1>7, <3>1 DEF PointOfBlock
  <2>2. ASSUME NEW i \in 1..nb PROVE points[nw + i].sym = "M" /\ points[nw + i].count = bc[i]
    <3> DEFINE j == nw + i
    <3>1. j \in 1..n
      BY <1>2, <1>3
    <3>2. p(j) = PointOfBlock(o.bits[i], "M")
      BY <1>5
    <3> HIDE DEF j
    <3>3. points[j] = PointOfBlock(o.bits[i], "M")
      BY <3>1, <3>2
    <3> QED BY <1>7, <3>3 DEF PointOfBlock, j
  <2> QED BY <2>1, <2>2 DEF WordsThenBits
<1>9. PICK w : Sums(w, wc, nw)
  BY <1>2, <1>6, SumsExists
<1>10. PICK b : Sums(b, bc, nb)
  BY <1>2, <1>6, SumsExists
<1>11. Total(wc) = w[nw] /\ Total(bc) = b[nb]
  BY <1>2, <1>6, <1>9, <1>10, TotalIs
<1>12. \A t : t = eq(t) <=> PointSums(t, points, nw + nb)
  <2> TAKE t
  <2>1. eq(t) = [i \in 0..n |-> IF i = 0 THEN zero
                                ELSE [t[i - 1] EXCEPT ![points[i].sym] = @ + points[i].count]]
    <3>1. ASSUME NEW i \in 0..n, i # 0 PROVE points[i] = p(i)
      <4>1. i \in 1..n
        BY <1>2, <1>3, <3>1
      <4> QED BY <4>1
    <3> HIDE DEF zero, points
    <3> QED BY <3>1
  <2> HIDE DEF eq, points
  <2> QED BY <1>3, <2>1, Zenon DEF PointSums, zero
<1> HIDE DEF points, eq
<1>13. \E t : t = eq(t)
  BY <1>2, <1>6, <1>8, <1>9, <1>10, <1>12, PointSumsExist
<1>14. total = eq(total)
  <2>1. total = CHOOSE t : t = eq(t)
    OBVIOUS
  <2> HIDE DEF total
  <2> QED BY ZenonT(50), <1>13, <2>1
<1>15. total[n] = [D |-> w[nw], M |-> b[nb]]
  <2> HIDE DEF total
  <2>1. PointSums(total, points, nw + nb)
    BY <1>12, <1>14
  <2> QED BY <1>2, <1>3, <1>6, <1>8, <1>9, <1>10, <2>1, PointSumsAre
<1>16. \A i \in 1..n : p(i).sym = IF i <= data[5] THEN "D" ELSE "M"
  <2> SUFFICES ASSUME NEW i \in 1..n PROVE p(i).sym = IF i <= nw THEN "D" ELSE "M"
    BY <1>2
  <2>1. CASE i <= nw
    <3>1. i \in 1..nw
      BY <1>2, <1>3, <2>1
    <3> QED BY <1>4, <2>1, <3>1 DEF PointOfBlock
  <2>2. CASE ~(i <= nw)
    <3>1. i - nw \in 1..nb /\ nw + (i - nw) = i
      BY <1>2, <1>3, <2>2
    <3>2. PICK k \in 1..nb : nw + k = i
      BY <3>1
    <3>3. p(nw + k) = PointOfBlock(o.bits[k], "M")
      BY <1>5
    <3>4. p(i) = PointOfBlock(o.bits[k], "M")
      BY <3>2, <3>3
    <3> QED BY <2>2, <3>4 DEF PointOfBlock
  <2> QED BY <2>1, <2>2
<1>17. WithinLimits(CommandOf(o), ParamsOf(o))
  BY CallBuilds DEF Passes
<1>18. /\ "Word" \in DOMAIN limits => w[nw] <= limits.Word
       /\ "Bit" \in DOMAIN limits => b[nb] <= limits.Bit
  BY <1>6, <1>11, <1>17 DEF WithinLimits
<1>19. /\ "Word" \in DOMAIN limits => total[n].D <= limits.Word
       /\ "Bit" \in DOMAIN limits => total[n].M <= limits.Bit
  BY <1>15, <1>18
<1> QED BY <1>16, <1>19, Zenon DEF Allowed, eq, p, n

\* For all memories, all calls that fit and the commands of src/commands.toml with
\* any limits: bit calls and block reads are within the families, and block reads
\* within the limits, in the bytes that a PLC reads, summed up as a PLC would.
THEOREM OnlyAllowedPointsSentCorrect ==
    ASSUME CommandsStandard, CallsFit
    PROVE  Spec => []OnlyAllowedPointsSent
<1>1. SentInv => OnlyAllowedPointsSent
  <2> DEFINE data == TryFromPayload(payload).data
             n == IF op.do = "read_blocks" THEN data[5] + data[6] ELSE 1
             first == IF op.do = "read_blocks" THEN 6 ELSE 4
  <2>1. (pc = "sent" /\ op.do \in {"read_bits", "write_bits", "read_blocks"}
             => Allowed(op, data, n, first)) => OnlyAllowedPointsSent
    BY ZenonT(30) DEF OnlyAllowedPointsSent, Allowed
  <2> SUFFICES ASSUME SentInv, pc = "sent",
                      op.do \in {"read_bits", "write_bits", "read_blocks"}
               PROVE  Allowed(op, data, n, first)
    BY <2>1
  <2>2. /\ op \in Ops /\ series \in {"Q", "R"} /\ RequestData(op) # Failed
        /\ Len(RequestData(op)) + 2 \in Word16
        /\ payload = BuildPayload(Request(Serial, RequestData(op)), "MC4E")
    BY DEF SentInv
  <2>3. RequestData(op) = DataFor(op, series)
    BY DataOf
  <2>4. data = DataFor(op, series)
    <3>1. RequestData(op) \in Seq(Byte)
      BY <2>2, <2>3, DataType
    <3> QED BY <2>2, <2>3, <3>1, RequestGoesThrough DEF GoesThrough
  <2> HIDE DEF data
  <2>5. CASE op.do = "read_blocks"
    <3>1. Allowed(op, data, data[5] + data[6], 6)
      BY <2>2, <2>3, <2>4, <2>5, AllowedBlocks
    <3> QED BY <2>5, <3>1
  <2>6. CASE op.do # "read_blocks"
    <3>1. op.do \in BitCalls
      BY <2>6 DEF BitCalls
    <3>2. Allowed(op, data, 1, 4)
      BY <2>2, <2>3, <2>4, <3>1, AllowedPoints
    <3> QED BY <2>6, <3>2
  <2> QED BY <2>5, <2>6
<1> QED BY <1>1, SentInvariant, PTL

(***************************************************************************)
(* The answers of the PLC, place by place.                                 *)
(***************************************************************************)

\* The words of the memory from address a on, low byte first.
WordsIn(data, n, m, sym, a) ==
    /\ data \in Seq(Byte) /\ Len(data) = 2 * n
    /\ \A j \in 1..n : Word(data, 2 * (j - 1)) = WordAt(m, sym, a, j)

\* Its points, two in a byte, the first one in the high half.
NibbleIn(data, i) ==
    IF i % 2 = 1 THEN data[(i - 1) \div 2 + 1] \div 16 # 0
    ELSE data[(i - 1) \div 2 + 1] % 16 # 0
NibblesIn(data, n, m, a) ==
    /\ data \in Seq(Byte) /\ Len(data) = (n + 1) \div 2
    /\ \A i \in 1..n : NibbleIn(data, i) = m["M"][a + i - 1]

\* Its points, eight in a byte, the first one in the low bit.
BitIn(data, i) == Memory!BitOf(data[(i - 1) \div 8 + 1], (i - 1) % 8)
BitsIn(data, n, m, a) ==
    /\ data \in Seq(Byte) /\ Len(data) = (n + 7) \div 8
    /\ \A i \in 1..n : BitIn(data, i) = m["M"][a + i - 1]

LEMMA WordDataIn ==
    ASSUME IsMemory(mem), NEW p, IsPoint(p), p.sym \in {"D", "M"},
           CanAccess(p, WordPoints(p))
    PROVE  /\ WordsIn(WordData(p), p.count, mem, p.sym, p.addr)
           /\ Area(p.sym, p.addr, p.count) \subseteq DOMAIN mem[p.sym]
<1> DEFINE n == p.count
           word(j) == WordAt(mem, p.sym, p.addr, j)
           t == [i \in 1..n |-> LowHigh(word(i))]
           data == WordData(p)
<1>1. n \in Nat /\ p.addr \in Nat
  BY DEF IsPoint
<1>2. Area(p.sym, p.addr, p.count) \subseteq DOMAIN mem[p.sym]
  BY DEF CanAccess, WordPoints, BitPoints, Area
<1>3. ASSUME NEW j \in 1..n PROVE word(j) \in Word16
  BY <1>1, <1>2, WordAtIs
<1>4. data = FlattenSeq(t)
  BY Zenon DEF WordData, WordAt
<1>5. ASSUME NEW i \in 1..n PROVE t[i] = LowHigh(word(i))
  OBVIOUS
<1>6. t = [i \in 1..n |-> t[i]]
  OBVIOUS
<1> HIDE DEF word, t, data, n
<1>7. ASSUME NEW i \in 1..n
      PROVE  t[i] \in Seq(Byte) /\ Len(t[i]) = 2 /\ t[i][1] + 256 * t[i][2] = word(i)
  BY <1>3, <1>5, WordBytesOf
<1>8. Parts(t, n, Byte) /\ Even(t, n, 2) /\ 2 \in Nat
  BY <1>6, <1>7 DEF Parts, Even
<1>9. data \in Seq(Byte) /\ LaysEvenly(data, t, n, 2)
  BY <1>1, <1>4, <1>8, EvenParts
<1>10. Len(data) = 2 * n /\ \A i \in 1..n : \A q \in 1..2 : data[2 * (i - 1) + q] = t[i][q]
  BY <1>9 DEF LaysEvenly
<1>11. ASSUME NEW j \in 1..n PROVE Word(data, 2 * (j - 1)) = word(j)
  <2>1. data[2 * (j - 1) + 1] = t[j][1] /\ data[2 * (j - 1) + 2] = t[j][2]
    BY <1>10
  <2> QED BY <1>7, <2>1 DEF Word
<1> QED BY <1>2, <1>9, <1>10, <1>11 DEF WordsIn, word, data, n

LEMMA NibbleDataIn ==
    ASSUME IsMemory(mem), NEW p, IsPoint(p), p.sym = "M", CanAccess(p, BitPoints(p)),
           NEW pad
    PROVE  /\ NibblesIn(NibbleData(p, pad), p.count, mem, p.addr)
           /\ p.addr..(p.addr + p.count - 1) \subseteq DOMAIN mem["M"]
<1> DEFINE n == p.count
           on(i) == IF i <= n THEN mem["M"][p.addr + i - 1] ELSE pad
           half(i) == IF on(i) THEN 1 ELSE 0
           data == NibbleData(p, pad)
           size == (n + 1) \div 2
<1>1. n \in Nat /\ p.addr \in Nat
  BY DEF IsPoint
<1>2. p.addr..(p.addr + p.count - 1) \subseteq DOMAIN mem["M"]
  BY DEF CanAccess, BitPoints
<1>3. data = [j \in 1..size |-> 16 * half(2 * j - 1) + half(2 * j)]
  BY Zenon DEF NibbleData
<1>4. \A i : half(i) \in {0, 1}
  OBVIOUS
<1>5. ASSUME NEW i \in 1..n
      PROVE  half(i) # 0 <=> mem["M"][p.addr + i - 1]
  OBVIOUS
<1>6. ASSUME NEW i \in 1..n PROVE mem["M"][p.addr + i - 1] \in BOOLEAN
  <2>1. p.addr + i - 1 \in DOMAIN mem["M"]
    BY <1>1, <1>2
  <2> QED BY <2>1 DEF IsMemory
<1>7. size \in Nat /\ data \in Seq(Byte)
  BY <1>1, NibbleDataType
<1> HIDE DEF half, on
<1>8. Len(data) = size
  BY <1>3, <1>7
<1>9. ASSUME NEW i \in 1..n PROVE NibbleIn(data, i) = mem["M"][p.addr + i - 1]
  <2> DEFINE j == (i - 1) \div 2 + 1
  <2>1. j \in 1..size /\ (i % 2 = 1 => 2 * j - 1 = i) /\ (i % 2 # 1 => 2 * j = i)
    BY <1>1
  <2>2. data[j] = 16 * half(2 * j - 1) + half(2 * j)
    BY <1>3, <2>1
  <2>3. data[j] \div 16 = half(2 * j - 1) /\ data[j] % 16 = half(2 * j)
    BY <1>4, <2>2
  <2> HIDE DEF j, data, size
  <2>4. NibbleIn(data, i) <=> half(i) # 0
    <3>1. NibbleIn(data, i) <=> IF i % 2 = 1 THEN data[j] \div 16 # 0 ELSE data[j] % 16 # 0
      BY DEF NibbleIn, j
    <3> QED BY <2>1, <2>3, <3>1
  <2>5. NibbleIn(data, i) \in BOOLEAN
    BY DEF NibbleIn
  <2> QED BY <1>5, <1>6, <2>4, <2>5
<1> QED BY <1>2, <1>7, <1>8, <1>9 DEF NibblesIn

LEMMA BitDataIn ==
    ASSUME IsMemory(mem), NEW p, IsPoint(p), p.sym = "M", CanAccess(p, BitPoints(p))
    PROVE  BitsIn(BitData(p), p.count, mem, p.addr)
<1> DEFINE n == p.count
           bit(j, k) == /\ k <= 8 /\ 8 * (j - 1) + k <= n
                        /\ mem["M"][p.addr + 8 * (j - 1) + k - 1]
           bits(j) == [k \in 1..16 |-> bit(j, k)]
           data == BitData(p)
           size == (n + 7) \div 8
<1>1. n \in Nat /\ p.addr \in Nat
  BY DEF IsPoint
<1>2. p.addr..(p.addr + n - 1) \subseteq DOMAIN mem["M"]
  BY DEF CanAccess, BitPoints
<1>3. data = [j \in 1..size |-> WordOfBits(bits(j))]
  BY Zenon DEF BitData
<1>4. data \in Seq(Byte) /\ size \in Nat
  BY <1>1, BitDataType
<1>5. Len(data) = size
  <2> HIDE DEF bits
  <2> QED BY <1>3, <1>4
<1>6. ASSUME NEW i \in 1..n PROVE mem["M"][p.addr + i - 1] \in BOOLEAN
  <2>1. p.addr + i - 1 \in DOMAIN mem["M"]
    BY <1>1, <1>2
  <2> QED BY <2>1 DEF IsMemory
<1>7. ASSUME NEW j \in 1..size, NEW k \in 1..16
      PROVE  bit(j, k) \in BOOLEAN
  OBVIOUS
<1>8. ASSUME NEW i \in 1..n PROVE BitIn(data, i) = mem["M"][p.addr + i - 1]
  <2> DEFINE j == (i - 1) \div 8 + 1
             k == (i - 1) % 8
  <2>1. j \in 1..size /\ k \in 0..7 /\ 8 * (j - 1) + (k + 1) = i
    BY <1>1
  <2>2. data[j] = WordOfBits(bits(j))
    BY <1>3, <2>1
  <2>3. k + 1 \in 1..16 /\ k \in 0..15
    BY <2>1
  <2>4. \A l \in 1..16 : bits(j)[l] \in BOOLEAN
    BY <1>7, <2>1
  <2>5. bits(j)[k + 1] = bit(j, k + 1)
    BY <2>3
  <2>6. bit(j, k + 1) = mem["M"][p.addr + i - 1]
    <3>1. p.addr + 8 * (j - 1) + (k + 1) - 1 = p.addr + i - 1 /\ k + 1 <= 8 /\ i <= n
      BY <1>1, <2>1
    <3> HIDE DEF j, k, n
    <3> QED BY <1>6, <2>1, <3>1
  <2> HIDE DEF bits, j, k, data
  <2>7. Memory!BitOf(WordOfBits(bits(j)), k) = bits(j)[k + 1]
    BY <2>3, <2>4, BitsBack
  <2>8. BitIn(data, i) = Memory!BitOf(data[j], k)
    BY DEF BitIn, j, k
  <2> QED BY <2>2, <2>5, <2>6, <2>7, <2>8
<1> QED BY <1>4, <1>5, <1>8 DEF BitsIn

(***************************************************************************)
(* What the PLC answers to a call, in terms of the call.                   *)
(***************************************************************************)

WordsReplied(o, m, reply) ==
    /\ o.sym \in {"D", "M"}
    /\ CountOf(o) \in Nat \ {0}
    /\ Memory!AddressOf(o) \in Nat
    /\ Area(o.sym, Memory!AddressOf(o), CountOf(o)) \subseteq DOMAIN m[o.sym]
    /\ WordsIn(reply, CountOf(o), m, o.sym, Memory!AddressOf(o))

PointsReplied(o, m, reply) ==
    /\ o.sym = "M"
    /\ CountOf(o) \in Nat \ {0}
    /\ Memory!AddressOf(o) \in Nat
    /\ Memory!AddressOf(o)..(Memory!AddressOf(o) + CountOf(o) - 1) \subseteq DOMAIN m["M"]
    /\ NibblesIn(reply, CountOf(o), m, Memory!AddressOf(o))

\* One part of the answer for each block.
BlockParts(o, m, t) ==
    /\ \A i \in 1..Len(o.words) :
           /\ BlockOf(o.words[i], "D")
           /\ Area("D", o.words[i].start_addr, o.words[i].count) \subseteq DOMAIN m["D"]
           /\ WordsIn(t[i], o.words[i].count, m, "D", o.words[i].start_addr)
    /\ \A i \in 1..Len(o.bits) :
           /\ BlockOf(o.bits[i], "M")
           /\ BitsIn(t[Len(o.words) + i], o.bits[i].count, m, o.bits[i].start_addr)
BlocksReplied(o, m, reply) ==
    /\ Len(o.words) \in Nat /\ Len(o.bits) \in Nat
    /\ \E t : /\ Parts(t, Len(o.words) + Len(o.bits), Byte)
              /\ reply = FlattenSeq(t)
              /\ BlockParts(o, m, t)

Replied(o, m, reply) ==
    /\ reply \in Seq(Byte)
    /\ o.do \in {"read_words", "read_words_as"} => WordsReplied(o, m, reply)
    /\ o.do = "read_bits" => PointsReplied(o, m, reply)
    /\ o.do = "read_blocks" => BlocksReplied(o, m, reply)
    /\ o.do \in {"echo", "echo_spec"} =>
           o.values \in Seq(HexDigits) /\ reply = o.values
    /\ o.do \in PointWrites => reply = << >>

\* The answer of the PLC is this reply.
Answered(reply) ==
    /\ Len(reply) + 2 <= MaxWord
    /\ answer' = Answer("MC4E", Serial, 0, reply)

\* The PLC knows by the codes what a call on points is.
LEMMA PointsCarriedOut ==
    ASSUME NEW o, o.do \in PointReads \cup PointWrites, NEW s, NEW data,
           PointRequest(o, s, data), CarriedOut(data)
    PROVE  /\ o.do \in PointReads => ReadReply(data, o.do \in BitCalls)
           /\ o.do \in PointWrites => WriteReply(data, o.do \in BitCalls)
<1>1. Word(data, 0) = CodeFor(o) /\ Word(data, 2) = SubFor(o, s)
  BY DEF PointRequest
<1>2. (Word(data, 2) \in {1, 3}) = (o.do \in BitCalls)
  BY <1>1 DEF SubFor
<1>3. /\ ReadCode # WriteCode /\ ReadCode # BlocksCode /\ ReadCode # EchoCode
      /\ WriteCode # BlocksCode /\ WriteCode # EchoCode
  BY DEF ReadCode, WriteCode, BlocksCode, EchoCode
<1>4. CASE o.do \in PointReads
  <2>1. Word(data, 0) = ReadCode /\ o.do \notin PointWrites
    BY <1>1, <1>4 DEF CodeFor, PointReads, PointWrites
  <2>2. ReadReply(data, Word(data, 2) \in {1, 3})
    BY <1>3, <2>1, Zenon DEF CarriedOut
  <2> QED BY <1>2, <2>1, <2>2
<1>5. CASE o.do \in PointWrites
  <2>1. Word(data, 0) = WriteCode /\ o.do \notin PointReads
    BY <1>1, <1>5 DEF CodeFor, PointReads, PointWrites
  <2>2. WriteReply(data, Word(data, 2) \in {1, 3})
    BY <1>3, <2>1, Zenon DEF CarriedOut
  <2> QED BY <1>2, <2>1, <2>2
<1> QED BY <1>4, <1>5

LEMMA AddressType ==
    ASSUME CallsFit, NEW o \in Ops, o.do \in PointReads \cup PointWrites
    PROVE  Memory!AddressOf(o) \in Nat
<1>1. o.addr \in Nat \cup {Absent}
  BY DEF CallsFit, TypedCall, PointReads, PointWrites
<1> QED BY <1>1 DEF Absent, Memory!AddressOf

LEMMA ReadReplied ==
    ASSUME CommandsStandard, CallsFit, NEW o \in Ops, o.do \in PointReads,
           NEW s \in {"Q", "R"}, DataFor(o, s) # Failed,
           IsMemory(mem), ReadReply(DataFor(o, s), o.do \in BitCalls)
    PROVE  mem' = mem /\ \E reply : Answered(reply) /\ Replied(o, mem, reply)
<1> DEFINE data == DataFor(o, s)
           p == PointAt(data, 4)
<1>1. /\ o.do \in {"read_words", "read_words_as", "read_bits"} /\ o.do \notin PointWrites
      /\ o.do = "read_bits" <=> o.do \in BitCalls
      /\ o.do \in PointReads \cup PointWrites
  BY DEF PointReads, PointWrites, BitCalls
<1>2. p = PointSent(o)
  BY <1>1, PointData DEF PointRequest
<1>3. o.do = "read_words_as" => RequiredWords(o) # Failed
  BY <1>1, CallBuilds
<1>4. CountOf(o) \in Word16
  BY <1>1, <1>3, CountType
<1>5. o.sym \in {"D", "M"} /\ Memory!AddressOf(o) \in Nat
  BY <1>1, CallPoints, AddressType
<1>6. /\ p.sym = o.sym /\ p.addr = Memory!AddressOf(o) /\ p.count = CountOf(o)
      /\ IsPoint(p)
  <2>1. CountOf(o) \in Nat /\ CountOf(o) <= 65535
    BY <1>4, Word16Is
  <2>2. CountOf(o) % Memory!WordRange = CountOf(o)
    BY <2>1, SMT DEF Memory!WordRange
  <2> HIDE DEF p
  <2> QED BY <1>2, <1>5, <2>1, <2>2 DEF PointSent, IsPoint
<1>7. /\ mem' = mem
      /\ CanAccess(p, IF o.do \in BitCalls THEN BitPoints(p) ELSE WordPoints(p))
      /\ IF o.do \in BitCalls
         THEN p.sym = "M" /\ \E pad \in BOOLEAN : Reply(NibbleData(p, pad))
         ELSE Reply(WordData(p))
  BY ZenonT(30) DEF ReadReply
<1> HIDE DEF p, data
<1>8. p.count > 0
  BY <1>7 DEF CanAccess
<1>9. CASE o.do \in BitCalls
  <2>1. PICK pad \in BOOLEAN : Reply(NibbleData(p, pad))
    BY <1>7, <1>9
  <2>2. CanAccess(p, BitPoints(p)) /\ p.sym = "M"
    BY <1>7, <1>9
  <2> DEFINE reply == NibbleData(p, pad)
  <2>3. /\ NibblesIn(reply, p.count, mem, p.addr)
        /\ p.addr..(p.addr + p.count - 1) \subseteq DOMAIN mem["M"]
    BY <1>6, <2>2, NibbleDataIn
  <2>4. Answered(reply)
    BY <2>1 DEF Reply, Answered
  <2> HIDE DEF reply
  <2>5. PointsReplied(o, mem, reply)
    BY <1>4, <1>5, <1>6, <1>8, <2>2, <2>3, Word16Is DEF PointsReplied
  <2>6. reply \in Seq(Byte)
    BY <2>3 DEF NibblesIn
  <2>7. Replied(o, mem, reply)
    BY <1>1, <1>9, <2>5, <2>6 DEF Replied
  <2> QED BY <1>7, <2>4, <2>7
<1>10. CASE o.do \notin BitCalls
  <2>1. CanAccess(p, WordPoints(p)) /\ Reply(WordData(p))
    BY <1>7, <1>10
  <2> DEFINE reply == WordData(p)
  <2>2. /\ WordsIn(reply, p.count, mem, p.sym, p.addr)
        /\ Area(p.sym, p.addr, p.count) \subseteq DOMAIN mem[p.sym]
    BY <1>5, <1>6, <2>1, WordDataIn
  <2>3. Answered(reply)
    BY <2>1 DEF Reply, Answered
  <2> HIDE DEF reply
  <2>4. WordsReplied(o, mem, reply)
    BY <1>4, <1>5, <1>6, <1>8, <2>2, Word16Is DEF WordsReplied
  <2>5. reply \in Seq(Byte)
    BY <2>2 DEF WordsIn
  <2>6. Replied(o, mem, reply)
    BY <1>1, <1>10, <2>4, <2>5 DEF Replied
  <2> QED BY <1>7, <2>3, <2>6
<1> QED BY <1>9, <1>10

LEMMA BlocksReplies ==
    ASSUME CommandsStandard, CallsFit, NEW o \in Ops, o.do = "read_blocks",
           NEW s \in {"Q", "R"}, DataFor(o, s) # Failed,
           IsMemory(mem), CarriedOut(DataFor(o, s))
    PROVE  mem' = mem /\ \E reply : Answered(reply) /\ Replied(o, mem, reply)
<1> DEFINE data == DataFor(o, s)
           nw == Len(o.words)
           nb == Len(o.bits)
           n == data[5] + data[6]
           p == [i \in 1..n |-> PointAt(data, 6 + PointLen(data) * (i - 1))]
           words(i) == i <= data[5]
           t == [i \in 1..n |-> IF words(i) THEN WordData(p[i]) ELSE BitData(p[i])]
           reply == FlattenSeq(t)
<1>1. BlocksRequest(o, s, data)
  BY BlocksData
<1>2. BlocksReply(data)
  <2>1. Word(data, 0) = BlocksCode
    BY <1>1 DEF BlocksRequest
  <2>2. BlocksCode # ReadCode /\ BlocksCode # WriteCode /\ BlocksCode # EchoCode
    BY DEF ReadCode, WriteCode, BlocksCode, EchoCode
  <2> HIDE DEF data
  <2> QED BY <2>1, <2>2, Zenon DEF CarriedOut, data
<1>3. /\ mem' = mem /\ Reply(reply)
      /\ \A i \in 1..n : CanAccess(p[i], IF words(i) THEN WordPoints(p[i]) ELSE BitPoints(p[i]))
  BY <1>2, ZenonT(30) DEF BlocksReply
<1>4. /\ nw \in Nat /\ nb \in Nat /\ data[5] = nw /\ data[6] = nb
      /\ PointLen(data) = PointWidth(s)
      /\ \A i \in 1..nw : BlockOf(o.words[i], "D")
      /\ \A i \in 1..nb : BlockOf(o.bits[i], "M")
      /\ \A i \in 1..nw : PointAt(data, 6 + PointWidth(s) * (i - 1))
                             = PointOfBlock(o.words[i], "D")
      /\ \A i \in 1..nb : PointAt(data, 6 + PointWidth(s) * (nw + i - 1))
                             = PointOfBlock(o.bits[i], "M")
  BY <1>1 DEF BlocksRequest
<1> HIDE DEF data, nw, nb
<1>5. n = nw + nb
  BY <1>4
<1>6. ASSUME NEW i \in 1..nw
      PROVE  /\ i \in 1..n /\ words(i) /\ p[i] = PointOfBlock(o.words[i], "D")
             /\ IsPoint(p[i])
  <2>1. i \in 1..n /\ words(i)
    BY <1>4, <1>5
  <2>2. p[i] = PointOfBlock(o.words[i], "D")
    BY <1>4, <2>1
  <2> HIDE DEF p, words
  <2>3. IsPoint(p[i])
    BY <1>4, <2>2 DEF IsPoint, PointOfBlock, BlockOf, NamesPoints
  <2> QED BY <2>1, <2>2, <2>3
<1>7. ASSUME NEW i \in 1..nb
      PROVE  /\ nw + i \in 1..n /\ ~words(nw + i)
             /\ p[nw + i] = PointOfBlock(o.bits[i], "M") /\ IsPoint(p[nw + i])
  <2>1. nw + i \in 1..n /\ ~words(nw + i)
    BY <1>4, <1>5
  <2>2. p[nw + i] = PointOfBlock(o.bits[i], "M")
    <3>1. p[nw + i] = PointAt(data, 6 + PointWidth(s) * (nw + i - 1))
      BY <1>4, <2>1
    <3> HIDE DEF p
    <3> QED BY <1>4, <3>1
  <2> HIDE DEF p, words
  <2> DEFINE at == p[nw + i]
  <2>3. IsPoint(at)
    <3>1. at = PointOfBlock(o.bits[i], "M") /\ BlockOf(o.bits[i], "M")
      BY <1>4, <2>2
    <3> HIDE DEF at
    <3> QED BY <3>1 DEF IsPoint, PointOfBlock, BlockOf, NamesPoints
  <2> QED BY <2>1, <2>2, <2>3
<1>8. \A i \in 1..n : t[i] = IF words(i) THEN WordData(p[i]) ELSE BitData(p[i])
  OBVIOUS
<1>9. t = [i \in 1..n |-> t[i]]
  OBVIOUS
<1> HIDE DEF p, words, t
<1>10. ASSUME NEW i \in 1..nw
       PROVE  /\ WordsIn(t[i], o.words[i].count, mem, "D", o.words[i].start_addr)
              /\ Area("D", o.words[i].start_addr, o.words[i].count) \subseteq DOMAIN mem["D"]
  <2>1. t[i] = WordData(p[i]) /\ CanAccess(p[i], WordPoints(p[i]))
    BY <1>3, <1>6, <1>8
  <2>2. /\ p[i].sym = "D" /\ p[i].addr = o.words[i].start_addr
        /\ p[i].count = o.words[i].count /\ IsPoint(p[i])
    <3> DEFINE at == p[i]
    <3>1. at = PointOfBlock(o.words[i], "D") /\ IsPoint(at)
      BY <1>6
    <3> HIDE DEF at
    <3>2. /\ at.sym = "D" /\ at.addr = o.words[i].start_addr
          /\ at.count = o.words[i].count
      BY <3>1 DEF PointOfBlock
    <3> QED BY <3>1, <3>2 DEF at
  <2>3. /\ WordsIn(WordData(p[i]), p[i].count, mem, p[i].sym, p[i].addr)
        /\ Area(p[i].sym, p[i].addr, p[i].count) \subseteq DOMAIN mem[p[i].sym]
    BY <2>1, <2>2, WordDataIn
  <2> QED BY <2>1, <2>2, <2>3
<1>11. ASSUME NEW i \in 1..nb
       PROVE  BitsIn(t[nw + i], o.bits[i].count, mem, o.bits[i].start_addr)
  <2> DEFINE j == nw + i
  <2>1. t[j] = BitData(p[j]) /\ CanAccess(p[j], BitPoints(p[j]))
    BY <1>3, <1>7, <1>8
  <2>2. /\ p[j].sym = "M" /\ p[j].addr = o.bits[i].start_addr
        /\ p[j].count = o.bits[i].count /\ IsPoint(p[j])
    <3>1. p[j] = PointOfBlock(o.bits[i], "M") /\ IsPoint(p[j])
      BY <1>7
    <3> HIDE DEF j
    <3> QED BY <3>1 DEF PointOfBlock
  <2> HIDE DEF j
  <2>3. BitsIn(BitData(p[j]), p[j].count, mem, p[j].addr)
    BY <2>1, <2>2, BitDataIn
  <2>4. BitsIn(t[j], o.bits[i].count, mem, o.bits[i].start_addr)
    BY <2>1, <2>2, <2>3
  <2> QED BY <2>4 DEF j
<1>12. Parts(t, nw + nb, Byte)
  <2>1. ASSUME NEW i \in 1..(nw + nb) PROVE t[i] \in Seq(Byte)
    <3>1. CASE i <= nw
      <4>1. i \in 1..nw
        BY <1>4, <3>1
      <4> QED BY <1>10, <4>1 DEF WordsIn
    <3>2. CASE ~(i <= nw)
      <4>1. PICK k \in 1..nb : nw + k = i
        <5>1. i - nw \in 1..nb /\ nw + (i - nw) = i
          BY <1>4, <3>2
        <5> QED BY <5>1
      <4>2. t[nw + k] \in Seq(Byte)
        BY <1>11 DEF BitsIn
      <4> QED BY <4>1, <4>2
    <3> QED BY <3>1, <3>2
  <2> QED BY <1>5, <1>9, <2>1 DEF Parts
<1>13. BlockParts(o, mem, t)
  BY <1>4, <1>10, <1>11 DEF BlockParts, nw, nb
<1>14. BlocksReplied(o, mem, reply)
  BY <1>4, <1>12, <1>13 DEF BlocksReplied, nw, nb
<1>15. Answered(reply)
  BY <1>3 DEF Reply, Answered
<1>16. reply \in Seq(Byte)
  <2>1. DOMAIN t = 1..(nw + nb) /\ nw + nb \in Nat
    BY <1>4, <1>12 DEF Parts
  <2>2. t = [i \in DOMAIN t |-> t[i]]
    BY <1>12, <2>1 DEF Parts
  <2> QED BY <1>12, <2>1, <2>2, FlattenedType DEF Parts
<1> HIDE DEF reply
<1>17. Replied(o, mem, reply)
  BY <1>14, <1>16 DEF Replied, PointWrites
<1> QED BY <1>3, <1>15, <1>17

\* The request of echo, in both forms.
EchoRequest(o, data) ==
    /\ o.values \in Seq(HexDigits) /\ data \in Seq(Byte)
    /\ Word(data, 0) = EchoCode
    /\ Len(data) = 4 + Len(o.values)
    /\ \A q \in 1..Len(o.values) : data[4 + q] = o.values[q]

LEMMA EchoPlain ==
    ASSUME NEW o, o.do = "echo", NEW s, DataFor(o, s) # Failed
    PROVE  EchoRequest(o, DataFor(o, s))
<1> DEFINE data == DataFor(o, s)
           head == EchoHeader
<1>1. data = EchoData(o)
  BY Zenon DEF DataFor
<1>2. o.values \in Seq(HexDigits) /\ data = head \o o.values
  BY <1>1, Zenon DEF EchoData
<1>3. o.values \in Seq(Byte)
  BY <1>2, HexDigitsAreBytes
<1>4. EchoCode \in Word16 /\ 0 \in Word16
  BY Word16Is DEF EchoCode
<1>5. /\ LowHigh(EchoCode) \in Seq(Byte) /\ Len(LowHigh(EchoCode)) = 2
      /\ LowHigh(0) \in Seq(Byte) /\ Len(LowHigh(0)) = 2
  BY <1>4, WordBytesOf
<1>6. head \in Seq(Byte) /\ Len(head) = 4 /\ Opens(head, EchoCode, 0)
  <2> DEFINE a == LowHigh(EchoCode)
             b == LowHigh(0)
  <2>1. a \in Seq(Byte) /\ b \in Seq(Byte) /\ Len(a) = 2 /\ Len(b) = 2
    BY <1>5
  <2>2. Opens(a \o b, EchoCode, 0)
    BY <1>4, PairOpens
  <2>3. a \o b \in Seq(Byte) /\ IsJoin(a \o b, a, b)
    <3> HIDE DEF a, b
    <3> QED BY <2>1, Appended
  <2>4. Len(a \o b) = 4
    BY <2>1, <2>3 DEF IsJoin
  <2> HIDE DEF a, b
  <2>5. head = a \o b
    BY DEF EchoHeader, a, b
  <2> QED BY <2>2, <2>3, <2>4, <2>5
<1> HIDE DEF head, data
<1>7. data \in Seq(Byte) /\ IsJoin(data, head, o.values)
  BY <1>2, <1>3, <1>6, Appended
<1>8. Opens(data, EchoCode, 0)
  <2>1. Begins(data, head) /\ Len(head) \in Nat /\ Len(data) \in Nat
    BY <1>2, <1>3, <1>6, <1>7, JoinBegins
  <2> QED BY <1>6, <2>1, OpensLonger
<1>9. EchoRequest(o, data)
  BY <1>2, <1>6, <1>7, <1>8 DEF EchoRequest, IsJoin, Opens
<1> QED BY <1>9 DEF data

LEMMA EchoBySpec ==
    ASSUME CommandsStandard, NEW o \in Ops, o.do = "echo_spec",
           NEW s \in {"Q", "R"}, DataFor(o, s) # Failed
    PROVE  EchoRequest(o, DataFor(o, s))
<1> DEFINE spec == CommandOf(o)
           params == ParamsOf(o)
           obj == Numbers(spec, params, s)
           fields == spec.fields
           text == Field("payload", "text", 0, TRUE)
           data == DataFor(o, s)
           emitted == Emit(fields, obj, s)
           t == [i \in 1..3 |-> FieldBytes(fields[i], obj, s)]
<1>1. /\ CommandId(o) \in DOMAIN Commands /\ IsCommand(spec)
      /\ data = BuildRequest(spec, params, s) /\ data # Failed
      /\ Passes(spec, params, s)
  BY CallBuilds
<1>2. spec.code = EchoCode /\ spec.templates = << >>
      /\ fields = <<PointFields[1], PointFields[2], text>>
  <2>1. CommandId(o) = "echo"
    BY DEF CommandId
  <2>2. Follows(spec, Layouts["echo"])
    BY <2>1, StandardCommand
  <2> DEFINE three == <<PointFields[1], PointFields[2], text>>
             entries == <<Entry("payload", "text", TRUE)>>
  <2>3. Layouts["echo"] = Layout(EchoCode, NoKeys, "Any", three, entries, << >>)
    BY Zenon DEF Layouts
  <2> HIDE DEF three, entries, spec
  <2>4. Follows(spec, Layout(EchoCode, NoKeys, "Any", three, entries, << >>))
    BY <2>2, <2>3
  <2>5. spec.code = EchoCode /\ spec.templates = << >> /\ spec.fields = three
    BY <2>4 DEF Follows, Layout
  <2> QED BY <2>5 DEF three
<1>3. params = [payload |-> o.values]
  BY Zenon DEF ParamsOf
<1> HIDE DEF spec, params
<1>4. "payload" \in DOMAIN obj /\ obj["payload"] = o.values
  <2>1. "payload" \in DOMAIN params /\ params["payload"] = o.values
    BY <1>3
  <2> QED BY <2>1, NumbersKeep
<1>5. Has(ToSet(fields), obj)
  BY <1>1 DEF Passes
<1> HIDE DEF obj
<1>6. /\ Len(fields) = 3 /\ fields[1] = PointFields[1] /\ fields[2] = PointFields[2]
      /\ fields[3] = text
  BY <1>2
<1>7. text.kind = "text" /\ text.name = "payload"
  BY DEF Field
<1> HIDE DEF text, fields
<1>8. AreFields(fields)
  BY <1>1 DEF IsCommand, fields
<1>9. o.values \in Seq(HexDigits)
  <2>1. text \in ToSet(fields)
    <3>1. 3 \in DOMAIN fields
      BY <1>6, <1>8 DEF AreFields, IsArray
    <3> QED BY <1>6, <3>1 DEF ToSet
  <2>2. Get(obj, text.name, << >>) \in Seq(HexDigits)
    BY <1>5, <1>7, <2>1 DEF Has
  <2> QED BY <1>4, <1>7, <2>2 DEF Get
<1>10. ASSUME NEW i \in 1..3
       PROVE  /\ FieldBytes(fields[i], obj, s) \in Seq(Byte)
              /\ fields[i].kind = "fixed" =>
                    fields[i].name \in DOMAIN obj /\ obj[fields[i].name] \in Nat
  BY <1>5, <1>6, <1>8, FieldHas
<1>11. t[3] = o.values
  <2>1. FieldBytes(text, obj, s) = Get(obj, text.name, << >>)
    BY <1>7, Zenon DEF FieldBytes
  <2>2. FieldBytes(text, obj, s) = o.values
    BY <1>4, <1>7, <2>1, Zenon DEF Get
  <2> QED BY <1>6, <2>2
<1>12. Len(t[1]) = 2 /\ Len(t[2]) = 2
  <2>1. obj["command"] \in Nat /\ obj["subcommand"] \in Nat
    BY <1>6, <1>10, PointFieldsAre
  <2>2. /\ Len(FieldBytes(PointFields[1], obj, s)) = 2
        /\ Len(FieldBytes(PointFields[2], obj, s)) = 2
    BY <2>1, PointFieldsAre, CodeBytes
  <2>3. t[1] = FieldBytes(PointFields[1], obj, s) /\ t[2] = FieldBytes(PointFields[2], obj, s)
    BY <1>6
  <2> HIDE DEF t
  <2> QED BY <2>2, <2>3
<1>13. t = [i \in 1..3 |-> t[i]] /\ \A i \in 1..3 : t[i] \in Seq(Byte)
  BY <1>10
<1>14. emitted = FlattenSeq(t)
  BY <1>6, Zenon DEF Emit
<1> HIDE DEF t, emitted
<1>15. Parts(t, 3, Byte)
  BY <1>13 DEF Parts
<1> DEFINE at == <<0, Len(t[1]), Len(t[1]) + Len(t[2]), Len(t[1]) + Len(t[2]) + Len(t[3])>>
<1>16. emitted \in Seq(Byte) /\ Lays(emitted, t, 3, at)
  BY <1>14, <1>15, ThreeParts
<1>17. at[3] = 4 /\ at[4] = 4 + Len(o.values) /\ Len(o.values) \in Nat
  BY <1>9, <1>11, <1>12
<1> HIDE DEF at
<1>18. /\ Len(emitted) = 4 + Len(o.values)
       /\ \A q \in 1..Len(o.values) : emitted[4 + q] = o.values[q]
  <2>1. Len(emitted) = at[3 + 1] /\ \A q \in 1..Len(t[3]) : emitted[at[3] + q] = t[3][q]
    BY <1>16 DEF Lays
  <2> QED BY <1>11, <1>17, <2>1
<1>19. data = emitted
  BY <1>1, <1>2, <1>16, NoTemplates DEF emitted, obj, fields
<1>20. Word(emitted, 0) = EchoCode
  <2>1. HasCodes(spec)
    BY <1>1, CommandCodes DEF CommandOf, spec
  <2>2. BeginsWithCodes(fields)
    BY <1>6, PointFieldsAre DEF BeginsWithCodes
  <2>3. Opens(emitted, spec.code, Subcommand(spec.sub, s))
    BY <1>1, <1>5, <2>1, <2>2, CodesFirst DEF emitted, obj, fields
  <2> QED BY <1>2, <2>3 DEF Opens
<1> HIDE DEF data
<1>21. EchoRequest(o, data)
  BY <1>9, <1>16, <1>18, <1>19, <1>20 DEF EchoRequest
<1> QED BY <1>21 DEF data

LEMMA EchoReplies ==
    ASSUME CommandsStandard, NEW o \in Ops, o.do \in {"echo", "echo_spec"},
           NEW s \in {"Q", "R"}, DataFor(o, s) # Failed, CarriedOut(DataFor(o, s))
    PROVE  mem' = mem /\ \E reply : Answered(reply) /\ Replied(o, mem, reply)
<1>1. PICK data : data = DataFor(o, s)
  OBVIOUS
<1>2. EchoRequest(o, data)
  BY <1>1, EchoPlain, EchoBySpec
<1>3. mem' = mem /\ Reply(SubSeq(data, 5, Len(data)))
  <2>1. Word(data, 0) = EchoCode
    BY <1>2 DEF EchoRequest
  <2>2. EchoCode # ReadCode /\ EchoCode # WriteCode /\ EchoCode # BlocksCode
    BY DEF ReadCode, WriteCode, BlocksCode, EchoCode
  <2> QED BY <1>1, <2>1, <2>2, Zenon DEF CarriedOut
<1>4. o.values \in Seq(HexDigits) /\ o.values \in Seq(Byte)
  BY <1>2, HexDigitsAreBytes DEF EchoRequest
<1>5. SubSeq(data, 5, Len(data)) = o.values
  <2> DEFINE values == o.values
             n == Len(data)
  <2>1. values \in Seq(Byte) /\ data \in Seq(Byte) /\ n = 4 + Len(values)
        /\ \A q \in 1..Len(values) : data[4 + q] = values[q]
    BY <1>2, <1>4 DEF EchoRequest
  <2>2. n = Len(values) + (5 - 1) /\ n \in Nat /\ n <= Len(data)
    BY <2>1
  <2>3. \A q \in 1..Len(values) : data[(5 - 1) + q] = values[q]
    BY <2>1
  <2>4. 5 \in Nat \ {0}
    OBVIOUS
  <2> HIDE DEF values, n
  <2>5. SubSeq(data, 5, n) = values
    BY <2>1, <2>2, <2>3, <2>4, PieceIs
  <2> QED BY <2>5 DEF n, values
<1>6. Answered(o.values)
  BY <1>3, <1>5 DEF Reply, Answered
<1>7. Replied(o, mem, o.values)
  BY <1>4 DEF Replied, PointWrites
<1> QED BY <1>3, <1>6, <1>7

(***************************************************************************)
(* What a write leaves in the memory.                                      *)
(***************************************************************************)
LEMMA WrittenIs ==
    ASSUME NEW m, m = mem, IsMemory(mem), NEW p, p.sym \in {"D", "M"}, NEW values, NEW m2,
           m2 = Written(p, values)
    PROVE  /\ DOMAIN m2 = DOMAIN m /\ DOMAIN m = {"D", "M"}
           /\ \A sym \in DOMAIN m : DOMAIN m2[sym] = DOMAIN m[sym]
           /\ \A sym \in DOMAIN m : sym # p.sym => m2[sym] = m[sym]
           /\ \A a \in DOMAIN m[p.sym] :
                 m2[p.sym][a] = IF a - p.addr \in DOMAIN values THEN values[a - p.addr]
                                ELSE m[p.sym][a]
<1>1. DOMAIN m = {"D", "M"}
  BY DEF IsMemory
<1>2. m2 = [m EXCEPT ![p.sym] = [a \in DOMAIN m[p.sym] |->
                 IF a - p.addr \in DOMAIN values THEN values[a - p.addr] ELSE m[p.sym][a]]]
  BY DEF Written
<1> DEFINE row == [a \in DOMAIN m[p.sym] |->
                 IF a - p.addr \in DOMAIN values THEN values[a - p.addr] ELSE m[p.sym][a]]
<1>3. DOMAIN row = DOMAIN m[p.sym]
  OBVIOUS
<1>4. \A a \in DOMAIN m[p.sym] :
          row[a] = IF a - p.addr \in DOMAIN values THEN values[a - p.addr] ELSE m[p.sym][a]
  OBVIOUS
<1>5. m2 = [m EXCEPT ![p.sym] = row]
  BY <1>2
<1> HIDE DEF row
<1>6. m2[p.sym] = row /\ DOMAIN m2 = DOMAIN m
      /\ \A sym \in DOMAIN m : sym # p.sym => m2[sym] = m[sym]
  BY <1>1, <1>5
<1>7. \A sym \in DOMAIN m : DOMAIN m2[sym] = DOMAIN m[sym]
  BY <1>3, <1>6
<1> QED BY <1>1, <1>4, <1>6, <1>7

\* The data of a write of words hold the words.
LEMMA WordsSent ==
    ASSUME CallsFit, NEW o \in Ops, o.do = "write_words_as", NEW s, NEW data,
           PointRequest(o, s, data), NEW first, first = 4 + PointLen(data)
    PROVE  /\ Len(data) = first + 2 * Len(Flattened(o))
           /\ \A j \in 1..Len(Flattened(o)) :
                 Word(data, first + 2 * (j - 1)) = Flattened(o)[j]
<1> DEFINE ws == Flattened(o)
           n == Len(ws)
           t == [i \in 1..n |-> LowHigh(ws[i])]
           rest == Rest(o)
<1>1. ws \in Seq(Word16)
  BY FlattenedWords
<1>2. rest = FlattenSeq(t)
  <2>1. o.do \notin PointReads
    BY DEF PointReads
  <2> QED BY <2>1, Zenon DEF Rest
<1>3. t = [i \in 1..n |-> t[i]] /\ \A i \in 1..n : t[i] = LowHigh(ws[i])
  OBVIOUS
<1> HIDE DEF ws, t, rest
<1>4. n \in Nat /\ \A i \in 1..n : ws[i] \in Word16
  BY <1>1
<1>5. ASSUME NEW i \in 1..n
      PROVE  t[i] \in Seq(Byte) /\ Len(t[i]) = 2 /\ t[i][1] + 256 * t[i][2] = ws[i]
  BY <1>3, <1>4, WordBytesOf
<1> HIDE DEF n
<1>6. Parts(t, n, Byte) /\ Even(t, n, 2) /\ 2 \in Nat
  BY <1>3, <1>5 DEF Parts, Even
<1>7. rest \in Seq(Byte) /\ LaysEvenly(rest, t, n, 2)
  BY <1>2, <1>4, <1>6, EvenParts
<1>8. Len(rest) = 2 * n /\ \A i \in 1..n : \A q \in 1..2 : rest[2 * (i - 1) + q] = t[i][q]
  BY <1>7 DEF LaysEvenly
<1>9. /\ Len(data) = first + Len(rest)
      /\ \A q \in 1..Len(rest) : data[first + q] = rest[q]
  BY DEF PointRequest, rest
<1>10. first \in Nat
  BY DEF PointLen
<1>11. ASSUME NEW j \in 1..n PROVE Word(data, first + 2 * (j - 1)) = ws[j]
  <2>1. /\ 2 * (j - 1) + 1 \in 1..Len(rest) /\ 2 * (j - 1) + 2 \in 1..Len(rest)
        /\ first + (2 * (j - 1) + 1) = first + 2 * (j - 1) + 1
        /\ first + (2 * (j - 1) + 2) = first + 2 * (j - 1) + 2
    BY <1>4, <1>8, <1>10
  <2>2. /\ data[first + (2 * (j - 1) + 1)] = t[j][1]
        /\ data[first + (2 * (j - 1) + 2)] = t[j][2]
    BY <1>8, <1>9, <2>1
  <2>3. /\ data[first + 2 * (j - 1) + 1] = t[j][1]
        /\ data[first + 2 * (j - 1) + 2] = t[j][2]
    BY <2>1, <2>2
  <2> QED BY <1>5, <2>3 DEF Word
<1> QED BY <1>8, <1>9, <1>11 DEF n, ws

\* The points of a write are in the memory, and the memory has their values.
WordsWritten(o, m, m2) ==
    LET n == Len(Flattened(o))
        a == Memory!AddressOf(o)
    IN  /\ o.sym \in {"D", "M"} /\ a \in Nat
        /\ Area(o.sym, a, n) \subseteq DOMAIN m[o.sym]
        /\ DOMAIN m2 = DOMAIN m /\ DOMAIN m = {"D", "M"}
        /\ \A sym \in DOMAIN m : DOMAIN m2[sym] = DOMAIN m[sym]
        /\ \A sym \in DOMAIN m : \A b \in DOMAIN m[sym] :
               (sym = o.sym /\ b \in Area(o.sym, a, n)) \/ m2[sym][b] = m[sym][b]
        /\ \A j \in 1..n : \A k \in 0..15 :
               Memory!BitOf(Flattened(o)[j], k)
                   = Memory!BitAt(m2, o.sym, a, 16 * (j - 1) + k)

LEMMA MemoryAddresses ==
    ASSUME NEW m, IsMemory(m), NEW sym \in DOMAIN m
    PROVE  sym \in {"D", "M"} /\ DOMAIN m[sym] \subseteq Nat
<1>1. /\ DOMAIN InitialMemory = {"D", "M"}
      /\ \A x \in DOMAIN InitialMemory : DOMAIN InitialMemory[x] \subseteq Nat
  BY AccessAssumption
<1>2. DOMAIN m["D"] = DOMAIN InitialMemory.D /\ DOMAIN m["M"] = DOMAIN InitialMemory.M
      /\ DOMAIN m = {"D", "M"}
  BY DEF IsMemory
<1> QED BY <1>1, <1>2

\* Values that are written from address a on, to n addresses.
RowOf(sym, a, n, values, m, m2) ==
    /\ DOMAIN m2 = DOMAIN m /\ DOMAIN m = {"D", "M"}
    /\ \A x \in DOMAIN m : DOMAIN m2[x] = DOMAIN m[x]
    /\ \A x \in DOMAIN m : \A b \in DOMAIN m[x] :
           (x = sym /\ b \in a..(a + n - 1)) \/ m2[x][b] = m[x][b]
    /\ \A i \in 0..(n - 1) : m2[sym][a + i] = values[i]

IndexedFrom0(values, a, n) == DOMAIN values = {b - a : b \in a..(a + n - 1)}

\* The values are for n addresses of the memory from a on.
RowPlaced(p, a, n, values) ==
    /\ p.sym \in {"D", "M"} /\ p.addr = a /\ a \in Nat /\ n \in Nat
    /\ a..(a + n - 1) \subseteq DOMAIN mem[p.sym]
    /\ IndexedFrom0(values, a, n)

LEMMA RowWritten ==
    ASSUME IsMemory(mem), NEW p, NEW a, NEW n, NEW values, RowPlaced(p, a, n, values),
           NEW m2, m2 = Written(p, values)
    PROVE  RowOf(p.sym, a, n, values, mem, m2)
<1>0. /\ p.sym \in {"D", "M"} /\ p.addr = a /\ a \in Nat /\ n \in Nat
      /\ a..(a + n - 1) \subseteq DOMAIN mem[p.sym]
      /\ IndexedFrom0(values, a, n)
  BY DEF RowPlaced
<1>1. /\ DOMAIN m2 = DOMAIN mem /\ DOMAIN mem = {"D", "M"}
      /\ \A sym \in DOMAIN mem : DOMAIN m2[sym] = DOMAIN mem[sym]
      /\ \A sym \in DOMAIN mem : sym # p.sym => m2[sym] = mem[sym]
      /\ \A b \in DOMAIN mem[p.sym] :
            m2[p.sym][b] = IF b - a \in DOMAIN values THEN values[b - a]
                           ELSE mem[p.sym][b]
  BY <1>0, WrittenIs
<1>2. DOMAIN mem[p.sym] \subseteq Nat
  BY <1>0, <1>1, MemoryAddresses
<1>3. ASSUME NEW i \in 0..(n - 1)
      PROVE  i \in DOMAIN values /\ a + i \in a..(a + n - 1) /\ (a + i) - a = i
  <2>1. a + i \in a..(a + n - 1) /\ (a + i) - a = i
    BY <1>0
  <2> QED BY <1>0, <2>1 DEF IndexedFrom0
<1>5. ASSUME NEW i \in 0..(n - 1) PROVE m2[p.sym][a + i] = values[i]
  <2>1. a + i \in DOMAIN mem[p.sym]
    BY <1>0, <1>3
  <2>2. m2[p.sym][a + i] = IF (a + i) - a \in DOMAIN values THEN values[(a + i) - a]
                           ELSE mem[p.sym][a + i]
    BY <1>1, <2>1
  <2> QED BY <1>3, <2>2
<1>6. ASSUME NEW b \in DOMAIN mem[p.sym], b \notin a..(a + n - 1)
      PROVE  m2[p.sym][b] = mem[p.sym][b]
  <2>1. b - a \notin DOMAIN values
    BY <1>0, <1>2, <1>6 DEF IndexedFrom0
  <2> QED BY <1>1, <2>1
<1>7. \A sym \in DOMAIN mem : \A b \in DOMAIN mem[sym] :
          (sym = p.sym /\ b \in a..(a + n - 1)) \/ m2[sym][b] = mem[sym][b]
  BY <1>1, <1>6
<1> QED BY <1>1, <1>5, <1>7 DEF RowOf

\* What a write does, and the points it is about.
Nibble(data, first, i) ==
    LET b == data[first + (i \div 2) + 1] IN IF i % 2 = 0 THEN b \div 16 ELSE b % 16
Wide(data, first, bits, sym, i) ==
    IF bits THEN Nibble(data, first, i) # 0
    ELSE IF sym = "M" THEN Memory!BitOf(Word(data, first + 2 * (i \div 16)), i % 16)
    ELSE Word(data, first + 2 * i)

LEMMA WriteDone ==
    ASSUME NEW data, NEW bits \in BOOLEAN, WriteReply(data, bits),
           NEW p, p = PointAt(data, 4), NEW first, first = 4 + PointLen(data)
    PROVE  LET points == IF bits THEN BitPoints(p) ELSE WordPoints(p) IN
           /\ Len(data) = first + (IF bits THEN (p.count + 1) \div 2 ELSE 2 * p.count)
           /\ CanAccess(p, points)
           /\ mem' = Written(p, [i \in {a - p.addr : a \in points} |->
                                    Wide(data, first, bits, p.sym, i)])
           /\ Answered(<< >>)
<1> DEFINE points == IF bits THEN BitPoints(p) ELSE WordPoints(p)
           nibble(i) == LET b == data[first + (i \div 2) + 1] IN
                        IF i % 2 = 0 THEN b \div 16 ELSE b % 16
           bitOfWord(i) == (Word(data, first + 2 * (i \div 16)) \div 2^(i % 16)) % 2
           value(i) == IF bits THEN nibble(i) # 0
                       ELSE IF p.sym = "M" THEN bitOfWord(i) = 1
                       ELSE Word(data, first + 2 * i)
           values == [i \in {a - p.addr : a \in points} |-> value(i)]
<1>1. /\ Len(data) = first + (IF bits THEN (p.count + 1) \div 2 ELSE 2 * p.count)
      /\ CanAccess(p, points)
      /\ mem' = Written(p, values)
      /\ Reply(<< >>)
  BY Zenon DEF WriteReply
<1>2. \A i : value(i) = Wide(data, first, bits, p.sym, i)
  BY Zenon DEF Wide, Nibble, Memory!BitOf
<1> DEFINE wide == [i \in {a - p.addr : a \in points} |-> Wide(data, first, bits, p.sym, i)]
<1> HIDE DEF points, value
<1>3. values = wide
  BY <1>2
<1>4. Answered(<< >>)
  BY <1>1 DEF Reply, Answered
<1> HIDE DEF values, wide
<1>5. /\ Len(data) = first + (IF bits THEN (p.count + 1) \div 2 ELSE 2 * p.count)
      /\ CanAccess(p, points) /\ mem' = Written(p, wide) /\ Answered(<< >>)
  BY <1>1, <1>3, <1>4
<1> QED BY <1>5, Zenon DEF wide, points

LEMMA WordWrite ==
    ASSUME CallsFit, NEW o \in Ops, o.do = "write_words_as", o.sym \in {"D", "M"},
           NEW s, NEW data, PointRequest(o, s, data), IsMemory(mem), WriteReply(data, FALSE)
    PROVE  WordsWritten(o, mem, mem') /\ Answered(<< >>)
<1> DEFINE p == PointAt(data, 4)
           first == 4 + PointLen(data)
           ws == Flattened(o)
           n == Len(ws)
           a == Memory!AddressOf(o)
           size == IF o.sym = "D" THEN n ELSE 16 * n
           points == WordPoints(p)
           values == [i \in {b - p.addr : b \in points} |->
                          Wide(data, first, FALSE, p.sym, i)]
<1>1. /\ Len(data) = first + 2 * p.count
      /\ CanAccess(p, points)
      /\ mem' = Written(p, values)
      /\ Answered(<< >>)
  BY WriteDone, Zenon
<1>2. p.addr = a /\ p.sym = o.sym /\ a \in Nat
  <2>1. p = PointSent(o)
    BY DEF PointRequest
  <2>2. o.do \in PointReads \cup PointWrites
    BY DEF PointWrites
  <2> QED BY <2>1, <2>2, AddressType DEF PointSent
<1>3. first \in Nat
  BY DEF PointLen
<1>4. /\ Len(data) = first + 2 * n
      /\ \A j \in 1..n : Word(data, first + 2 * (j - 1)) = ws[j]
  BY WordsSent
<1>5. n \in Nat
  BY FlattenedWords
<1>6. p.count = n
  <2>1. p.count \in Nat
    <3>1. first <= Len(data) /\ data \in Seq(Byte)
      BY <1>3, <1>4, <1>5 DEF PointRequest
    <3>2. IsPoint(p)
      BY <3>1, PointType
    <3> QED BY <3>2 DEF IsPoint
  <2> HIDE DEF p, first, n
  <2> QED BY <1>1, <1>3, <1>4, <1>5, <2>1
<1>7. points = a..(a + size - 1) /\ points = Area(o.sym, a, n) /\ size \in Nat
      /\ points \subseteq DOMAIN mem[o.sym]
  <2> HIDE DEF p, n, a
  <2> QED BY <1>1, <1>2, <1>5, <1>6 DEF WordPoints, BitPoints, Area, CanAccess
<1>8. DOMAIN values = {b - a : b \in a..(a + size - 1)} /\ IndexedFrom0(values, a, size)
  <2>1. DOMAIN values = {b - a : b \in a..(a + size - 1)}
    BY <1>2, <1>7
  <2> QED BY <2>1, Zenon DEF IndexedFrom0
<1>9. ASSUME NEW i \in 0..(size - 1)
      PROVE  values[i] = Wide(data, first, FALSE, o.sym, i)
  <2>1. a + i \in a..(a + size - 1) /\ (a + i) - a = i
    <3> HIDE DEF a, size
    <3> QED BY <1>2, <1>7
  <2>2. i \in DOMAIN values
    <3> HIDE DEF values, a, size
    <3> QED BY <1>8, <2>1
  <2> QED BY <1>2, <2>2
<1> HIDE DEF p, first, ws, n, a, values, points
<1>10. /\ DOMAIN mem' = DOMAIN mem /\ DOMAIN mem = {"D", "M"}
       /\ \A sym \in DOMAIN mem : DOMAIN mem'[sym] = DOMAIN mem[sym]
       /\ \A sym \in DOMAIN mem : \A b \in DOMAIN mem[sym] :
              (sym = o.sym /\ b \in a..(a + size - 1)) \/ mem'[sym][b] = mem[sym][b]
       /\ \A i \in 0..(size - 1) : mem'[o.sym][a + i] = values[i]
  <2> HIDE DEF size
  <2>1. a..(a + size - 1) \subseteq DOMAIN mem[p.sym] /\ p.sym \in {"D", "M"}
    BY <1>2, <1>7
  <2>2. RowPlaced(p, a, size, values)
    BY <1>2, <1>7, <1>8, <2>1 DEF RowPlaced
  <2>3. mem' = Written(p, values)
    BY <1>1
  <2>4. RowOf(p.sym, a, size, values, mem, mem')
    BY <2>2, <2>3, RowWritten, Zenon
  <2> QED BY <1>2, <2>4 DEF RowOf
<1>11. ASSUME NEW j \in 1..n, NEW k \in 0..15
       PROVE  Memory!BitOf(ws[j], k) = Memory!BitAt(mem', o.sym, a, 16 * (j - 1) + k)
  <2>1. (16 * (j - 1) + k) \div 16 = j - 1 /\ (16 * (j - 1) + k) % 16 = k
    BY <1>5
  <2>2. Word(data, first + 2 * (j - 1)) = ws[j]
    BY <1>4
  <2>3. CASE o.sym = "D"
    <3>1. j - 1 \in 0..(size - 1)
      BY <1>5, <2>3
    <3>2. mem'["D"][a + (j - 1)] = Wide(data, first, FALSE, "D", j - 1)
      BY <1>9, <1>10, <2>3, <3>1
    <3>3. mem'["D"][a + (j - 1)] = ws[j]
      BY <2>2, <3>2 DEF Wide
    <3> QED BY <2>1, <2>3, <3>3, Zenon DEF Memory!BitAt
  <2>4. CASE o.sym = "M"
    <3> DEFINE i == 16 * (j - 1) + k
    <3>1. i \in 0..(size - 1)
      BY <1>5, <2>4
    <3>2. mem'["M"][a + i] = Wide(data, first, FALSE, "M", i)
      BY <1>9, <1>10, <2>4, <3>1
    <3>3. mem'["M"][a + i] = Memory!BitOf(ws[j], k)
      <4>1. i \div 16 = j - 1 /\ i % 16 = k
        BY <2>1
      <4> HIDE DEF i
      <4> QED BY <2>2, <3>2, <4>1, Zenon DEF Wide
    <3>4. Memory!BitAt(mem', "M", a, i) = mem'["M"][a + i]
      <4> HIDE DEF i
      <4> QED BY Zenon DEF Memory!BitAt
    <3> QED BY <2>4, <3>3, <3>4
  <2> QED BY <1>2, <2>3, <2>4
<1>12. WordsWritten(o, mem, mem')
  <2>1. points = a..(a + size - 1)
    BY <1>7
  <2> QED BY <1>2, <1>7, <1>10, <1>11, <2>1 DEF WordsWritten, a, n, ws
<1> QED BY <1>1, <1>12

PointsWritten(o, m, m2) ==
    LET n == Len(o.values)
        a == Memory!AddressOf(o)
    IN  /\ o.sym = "M" /\ a \in Nat /\ n \in Nat
        /\ a..(a + n - 1) \subseteq DOMAIN m["M"]
        /\ DOMAIN m2 = DOMAIN m /\ DOMAIN m = {"D", "M"}
        /\ \A sym \in DOMAIN m : DOMAIN m2[sym] = DOMAIN m[sym]
        /\ \A sym \in DOMAIN m : \A b \in DOMAIN m[sym] :
               (sym = o.sym /\ b \in a..(a + n - 1)) \/ m2[sym][b] = m[sym][b]
        /\ \A i \in 1..n : o.values[i] = m2["M"][a + i - 1]

\* A number of points that is cut to 16 bits is another number of bytes.
LEMMA NibblesCounted ==
    ASSUME NEW n \in Nat, NEW c, c = n % Memory!WordRange, (c + 1) \div 2 = (n + 1) \div 2
    PROVE  c = n
<1> DEFINE q == n \div 65536
<1>1. c = n % 65536
  BY SMT DEF Memory!WordRange
<1>2. q \in Nat /\ c \in Nat /\ n = 65536 * q + c
  BY <1>1, SMT
<1> HIDE DEF q
<1>3. (n + 1) \div 2 = 32768 * q + (c + 1) \div 2
  BY <1>2, SMT
<1>4. q = 0
  BY <1>2, <1>3, SMT
<1> QED BY <1>2, <1>4, SMT

LEMMA NibbleBack ==
    ASSUME NEW bits \in Seq(BOOLEAN), NEW i \in 1..Len(bits)
    PROVE  NibbleIn(PackNibbles(bits), i) = bits[i]
<1> DEFINE bytes == PackNibbles(bits)
           b == bytes[0 + (i - 1) \div 2 + 1]
           on(k) == CASE "nibbles" = "words" ->
                             IF FALSE THEN Word(bytes, 0 + 2 * (k - 1))
                             ELSE Word(<<bytes[0 + 2 * k], bytes[0 + 2 * k - 1]>>, 0)
                      [] "nibbles" = "bits" ->
                             (bytes[0 + (k - 1) \div 8 + 1]
                                 \div 2^(IF FALSE THEN (k - 1) % 8 ELSE 7 - ((k - 1) % 8))) % 2 = 1
                      [] OTHER ->
                             IF (k % 2 = 1) # FALSE THEN bytes[0 + (k - 1) \div 2 + 1] \div 16 # 0
                             ELSE bytes[0 + (k - 1) \div 2 + 1] % 16 # 0
<1>1. [k \in 1..Len(bits) |-> on(k)] = bits
  <2>1. Decode("nibbles", FALSE, bytes, 0, Len(bits)) = bits
    BY NibbleRoundTrip
  <2> HIDE DEF bytes
  <2> QED BY <2>1, Zenon DEF Decode
<1>2. bits[i] = on(i)
  <2> HIDE DEF on
  <2> QED BY <1>1
<1>3. on(i) = IF i % 2 = 1 THEN b \div 16 # 0 ELSE b % 16 # 0
  <2> HIDE DEF bytes
  <2> QED OBVIOUS
<1>4. b = bytes[(i - 1) \div 2 + 1]
  <2>1. 0 + (i - 1) \div 2 + 1 = (i - 1) \div 2 + 1
    OBVIOUS
  <2> HIDE DEF bytes
  <2> QED BY <2>1
<1> HIDE DEF b, on, bytes
<1>5. NibbleIn(bytes, i) = IF i % 2 = 1 THEN b \div 16 # 0 ELSE b % 16 # 0
  BY <1>4, Zenon DEF NibbleIn
<1> QED BY <1>2, <1>3, <1>5 DEF bytes

LEMMA NibblesBack ==
    ASSUME NEW array, Len(array) \in Nat, \A i \in 1..Len(array) : array[i] \in BOOLEAN
    PROVE  /\ Len(PackNibbles(array)) = (Len(array) + 1) \div 2
           /\ \A i \in 1..Len(array) : NibbleIn(PackNibbles(array), i) = array[i]
<1> DEFINE n == Len(array)
           bits == [i \in 1..n |-> array[i]]
<1>1. bits \in Seq(BOOLEAN) /\ Len(bits) = n /\ \A i \in 1..n : bits[i] = array[i]
  OBVIOUS
<1> DEFINE half(i, b) == (IF b[2 * i - 1] THEN 16 ELSE 0)
                         + (IF 2 * i <= n /\ b[2 * i] THEN 1 ELSE 0)
<1> HIDE DEF bits
<1>2. ASSUME NEW i \in 1..((n + 1) \div 2) PROVE half(i, bits) = half(i, array)
  <2>1. 2 * i - 1 \in 1..n /\ (2 * i <= n => 2 * i \in 1..n)
    OBVIOUS
  <2> HIDE DEF n
  <2> QED BY <1>1, <2>1, Zenon
<1>3. PackNibbles(bits) = [i \in 1..((n + 1) \div 2) |-> half(i, bits)]
  BY <1>1, Zenon DEF PackNibbles
<1>4. PackNibbles(array) = [i \in 1..((n + 1) \div 2) |-> half(i, array)]
  BY Zenon DEF PackNibbles
<1> HIDE DEF half
<1>5. PackNibbles(bits) = PackNibbles(array)
  BY <1>2, <1>3, <1>4
<1>6. Len(PackNibbles(bits)) = (n + 1) \div 2
  BY <1>1, NibbleRoundTrip DEF BytesNeeded
<1>7. ASSUME NEW i \in 1..n PROVE NibbleIn(PackNibbles(bits), i) = array[i]
  BY <1>1, NibbleBack
<1> QED BY <1>5, <1>6, <1>7

LEMMA BitWrite ==
    ASSUME CallsFit, NEW o \in Ops, o.do = "write_bits", o.sym = "M",
           NEW s, NEW data, PointRequest(o, s, data), IsMemory(mem), WriteReply(data, TRUE)
    PROVE  PointsWritten(o, mem, mem') /\ Answered(<< >>)
<1> DEFINE p == PointAt(data, 4)
           first == 4 + PointLen(data)
           bits == o.values
           bytes == PackNibbles(bits)
           n == Len(bits)
           a == Memory!AddressOf(o)
           points == BitPoints(p)
           values == [i \in {b - p.addr : b \in points} |->
                          Wide(data, first, TRUE, p.sym, i)]
<1>1. /\ Len(data) = first + (p.count + 1) \div 2
      /\ CanAccess(p, points)
      /\ mem' = Written(p, values)
      /\ Answered(<< >>)
  BY WriteDone, Zenon
<1>2. p.addr = a /\ p.sym = "M" /\ a \in Nat /\ p.count = n % Memory!WordRange
  <2>1. p = PointSent(o)
    BY DEF PointRequest
  <2>2. o.do \in PointReads \cup PointWrites
    BY DEF PointWrites
  <2>3. CountOf(o) = n
    BY DEF CountOf
  <2> HIDE DEF p, n
  <2> QED BY <2>1, <2>2, <2>3, AddressType, Zenon DEF PointSent
<1>3. first \in Nat
  BY DEF PointLen
<1>4. n \in Nat /\ \A i \in 1..n : bits[i] \in BOOLEAN
  <2>1. TypedCall(o)
    BY Zenon DEF CallsFit
  <2>2. IsArray(bits) /\ ToSet(bits) \subseteq BOOLEAN
    BY <2>1 DEF TypedCall
  <2> QED BY <2>2 DEF IsArray, ToSet
<1>5. /\ Len(data) = first + Len(bytes)
      /\ \A q \in 1..Len(bytes) : data[first + q] = bytes[q]
  <2>1. Rest(o) = bytes
    <3>1. o.do \notin PointReads /\ o.do # "write_words_as"
      BY DEF PointReads
    <3> QED BY <3>1, Zenon DEF Rest
  <2> QED BY <2>1 DEF PointRequest
<1>6. Len(bytes) = (n + 1) \div 2
  BY <1>4, NibblesBack
<1>7. \A i \in 1..n : NibbleIn(bytes, i) = bits[i]
  BY <1>4, NibblesBack
<1> HIDE DEF bytes
<1>8. p.count = n
  <2>1. p.count \in Nat
    <3>1. first <= Len(data) /\ data \in Seq(Byte)
      <4> HIDE DEF n, first
      <4>1. (n + 1) \div 2 \in Nat /\ data \in Seq(Byte)
        BY <1>4 DEF PointRequest
      <4> QED BY <1>3, <1>5, <1>6, <4>1
    <3>2. IsPoint(p)
      BY <3>1, PointType
    <3> QED BY <3>2 DEF IsPoint
  <2> HIDE DEF p, first, n
  <2> DEFINE x == (p.count + 1) \div 2
             y == (n + 1) \div 2
  <2>2. x = y
    <3>1. x \in Nat /\ y \in Nat
      BY <1>4, <2>1
    <3>2. Len(data) = first + x /\ Len(data) = first + y
      BY <1>1, <1>5, <1>6
    <3> HIDE DEF x, y
    <3> QED BY <1>3, <3>1, <3>2
  <2> QED BY <1>2, <1>4, <2>2, NibblesCounted
<1>9. points = a..(a + n - 1) /\ points \subseteq DOMAIN mem["M"]
  <2> HIDE DEF p, n, a
  <2> QED BY <1>1, <1>2, <1>4, <1>8 DEF BitPoints, CanAccess
<1>10. IndexedFrom0(values, a, n) /\ DOMAIN values = {b - a : b \in a..(a + n - 1)}
  <2>1. DOMAIN values = {b - a : b \in a..(a + n - 1)}
    BY <1>2, <1>9
  <2> QED BY <2>1, Zenon DEF IndexedFrom0
<1>11. ASSUME NEW i \in 0..(n - 1)
       PROVE  values[i] = (Nibble(data, first, i) # 0)
  <2>1. a + i \in a..(a + n - 1) /\ (a + i) - a = i
    <3> HIDE DEF a, n
    <3> QED BY <1>2, <1>4
  <2>2. i \in DOMAIN values
    <3> HIDE DEF values, a, n
    <3> QED BY <1>10, <2>1
  <2>3. values[i] = Wide(data, first, TRUE, p.sym, i)
    BY <2>2
  <2> HIDE DEF values, p, first, n
  <2> QED BY <2>3, Zenon DEF Wide
<1> HIDE DEF p, first, n, a, values, points, bits
<1>12. RowOf("M", a, n, values, mem, mem')
  <2>1. a..(a + n - 1) \subseteq DOMAIN mem[p.sym] /\ p.sym \in {"D", "M"}
    BY <1>2, <1>9
  <2>2. RowPlaced(p, a, n, values)
    BY <1>2, <1>4, <1>10, <2>1 DEF RowPlaced
  <2>3. mem' = Written(p, values)
    BY <1>1
  <2>4. RowOf(p.sym, a, n, values, mem, mem')
    BY <2>2, <2>3, RowWritten, Zenon
  <2> QED BY <1>2, <2>4
<1>13. ASSUME NEW i \in 1..n PROVE bits[i] = mem'["M"][a + i - 1]
  <2>1. i - 1 \in 0..(n - 1) /\ a + (i - 1) = a + i - 1 /\ ((i - 1) % 2 = 0 <=> i % 2 = 1)
        /\ (i - 1) \div 2 + 1 \in 1..((n + 1) \div 2)
        /\ first + ((i - 1) \div 2 + 1) = first + ((i - 1) \div 2) + 1
    BY <1>2, <1>3, <1>4
  <2>2. data[first + ((i - 1) \div 2) + 1] = bytes[(i - 1) \div 2 + 1]
    BY <1>5, <1>6, <2>1
  <2>3. (Nibble(data, first, i - 1) # 0) = NibbleIn(bytes, i)
    BY <2>1, <2>2, Zenon DEF Nibble, NibbleIn
  <2>4. mem'["M"][a + (i - 1)] = values[i - 1]
    BY <1>12, <2>1 DEF RowOf
  <2> QED BY <1>7, <1>11, <2>1, <2>3, <2>4
<1>14. PointsWritten(o, mem, mem')
  <2>1. RowOf("M", a, n, values, mem, mem') /\ a..(a + n - 1) \subseteq DOMAIN mem["M"]
    BY <1>9, <1>12
  <2> QED BY <1>2, <1>4, <1>13, <2>1 DEF PointsWritten, RowOf, a, n, bits
<1> QED BY <1>1, <1>14

LEMMA RangeOfWords ==
    ASSUME NEW o, o.do \in {"read_words", "read_words_as", "write_words_as"},
           o.sym \in {"D", "M"}, o.type \in Types,
           o.do = "write_words_as" => Len(o.values) \in Nat,
           o.do # "write_words_as" => o.count \in Nat,
           NEW n, n = WordsOfType(o.type)
                      * (IF o.do = "write_words_as" THEN Len(o.values) ELSE o.count)
    PROVE  Memory!Range(o) = Area(o.sym, Memory!AddressOf(o), n)
<1> DEFINE size == IF o.do = "write_words_as" THEN Len(o.values) ELSE o.count
           a == Memory!AddressOf(o)
           words == Memory!PointsOf(o) * Memory!WordsPer(o.type)
<1>1. Memory!PointsOf(o) = size /\ size \in Nat
  BY DEF Memory!PointsOf, Memory!Reads
<1>2. Memory!WordsPer(o.type) = WordsOfType(o.type) /\ WordsOfType(o.type) \in Nat
  BY DEF Memory!WordsPer, WordsOfType
<1>3. words = n
  <2> HIDE DEF size
  <2>1. PICK w \in {1, 2} : WordsOfType(o.type) = w
    BY DEF WordsOfType
  <2>2. n = w * size
    BY <2>1, Zenon DEF size
  <2>3. words = size * w
    BY <1>1, <1>2, <2>1, Zenon
  <2>4. w * size = size * w
    BY <1>1
  <2> QED BY <2>2, <2>3, <2>4
<1>4. Memory!Range(o) = a..(a + (IF o.sym = "M" THEN 16 * words ELSE words) - 1)
  <2>1. o.do \notin {"read_bits", "write_bits"}
    OBVIOUS
  <2> HIDE DEF a
  <2> QED BY <2>1, Zenon DEF Memory!Range, a
<1> HIDE DEF a, words
<1>5. Memory!Range(o) = Area(o.sym, a, n)
  BY <1>3, <1>4 DEF Area
<1> QED BY <1>5 DEF a

LEMMA RangeOfBits ==
    ASSUME NEW o, o.do \in {"read_bits", "write_bits"},
           NEW n, n = IF o.do = "write_bits" THEN Len(o.values) ELSE o.count
    PROVE  Memory!Range(o) = Memory!AddressOf(o)..(Memory!AddressOf(o) + n - 1)
<1>1. Memory!PointsOf(o) = n
  BY DEF Memory!PointsOf, Memory!Reads
<1> QED BY <1>1, Zenon DEF Memory!Range

\* The words hold the values when the memory has their bits.
LEMMA ValuesWritten ==
    ASSUME CallsFit, NEW o \in Ops, o.do = "write_words_as", NEW m, NEW m2,
           WordsWritten(o, m, m2)
    PROVE  Memory!Wrote(o, m, m2)
<1> DEFINE n == Len(Flattened(o))
           a == Memory!AddressOf(o)
           ws == Flattened(o)
           vs == o.values
           b == WordsOfType(o.type)
<1>1. /\ o.type \in Types /\ Len(vs) \in Nat
      /\ \A i \in 1..Len(vs) : vs[i] \in Memory!Values[o.type]
  BY CallValues
<1>2. /\ n = b * Len(vs)
      /\ \A i \in 1..Len(vs) : \A q \in 1..b : ws[b * (i - 1) + q] = ToWords(o.type, vs[i])[q]
  BY FlattenedWords
<1>3. o.sym \in {"D", "M"} /\ a \in Nat
  BY DEF WordsWritten
<1>4. Memory!Range(o) = Area(o.sym, a, n)
  BY <1>1, <1>2, <1>3, RangeOfWords
<1>5. /\ Area(o.sym, a, n) \subseteq DOMAIN m[o.sym]
      /\ DOMAIN m2 = DOMAIN m /\ DOMAIN m = {"D", "M"}
      /\ \A sym \in DOMAIN m : DOMAIN m2[sym] = DOMAIN m[sym]
      /\ \A sym \in DOMAIN m : \A x \in DOMAIN m[sym] :
             (sym = o.sym /\ x \in Area(o.sym, a, n)) \/ m2[sym][x] = m[sym][x]
      /\ \A j \in 1..n : \A k \in 0..15 :
             Memory!BitOf(ws[j], k) = Memory!BitAt(m2, o.sym, a, 16 * (j - 1) + k)
  BY Zenon DEF WordsWritten
<1>6. Memory!Inside(m, o)
  BY <1>3, <1>4, <1>5 DEF Memory!Inside
<1> HIDE DEF n, a, ws, vs, b
<1>7. ASSUME NEW i \in 1..Len(vs)
      PROVE  \E part : /\ Carries(o.type, part, vs[i])
                       /\ \A q \in 1..b : part[q] = ws[b * (i - 1) + q]
  <2>1. Carries(o.type, ToWords(o.type, vs[i]), vs[i])
    BY <1>1, ToCarries
  <2> QED BY <1>2, <2>1
<1>8. Memory!Holds(m2, o.sym, a, o.type, vs)
  <2>1. n = Len(vs) * b
    BY <1>1, <1>2 DEF b, WordsOfType
  <2>2. SameBits(ws, Len(vs) * b, m2, o.sym, a)
    BY <1>5, <2>1 DEF SameBits
  <2>3. Carried(o.type, ws, vs)
    BY <1>7 DEF Carried, b
  <2> QED BY <1>1, <1>3, <2>2, <2>3, HoldsWhen DEF b
<1>9. o.do \in Memory!Writes /\ o.do # "write_bits"
  BY DEF Memory!Writes
<1> QED BY <1>4, <1>5, <1>6, <1>8, <1>9, Zenon DEF Memory!Wrote, a, vs

LEMMA BitsWritten ==
    ASSUME NEW o, o.do = "write_bits", NEW m, NEW m2, PointsWritten(o, m, m2)
    PROVE  Memory!Wrote(o, m, m2)
<1> DEFINE n == Len(o.values)
           a == Memory!AddressOf(o)
<1>1. Memory!Range(o) = a..(a + n - 1)
  <2>1. n = IF o.do = "write_bits" THEN Len(o.values) ELSE o.count
    OBVIOUS
  <2> HIDE DEF n
  <2> QED BY <2>1, RangeOfBits
<1>2. /\ o.sym = "M"
      /\ a..(a + n - 1) \subseteq DOMAIN m["M"]
      /\ DOMAIN m2 = DOMAIN m /\ DOMAIN m = {"D", "M"}
      /\ \A sym \in DOMAIN m : DOMAIN m2[sym] = DOMAIN m[sym]
      /\ \A sym \in DOMAIN m : \A x \in DOMAIN m[sym] :
             (sym = o.sym /\ x \in a..(a + n - 1)) \/ m2[sym][x] = m[sym][x]
      /\ \A i \in 1..n : o.values[i] = m2["M"][a + i - 1]
  BY Zenon DEF PointsWritten
<1> HIDE DEF a, n
<1>3. Memory!Inside(m, o)
  BY <1>1, <1>2 DEF Memory!Inside
<1>4. Memory!HoldsBits(m2, a, o.values)
  BY <1>2 DEF Memory!HoldsBits, n
<1>5. o.do \in Memory!Writes
  BY DEF Memory!Writes
<1> QED BY <1>1, <1>2, <1>3, <1>4, <1>5, Zenon DEF Memory!Wrote, a

LEMMA WriteReplies ==
    ASSUME CommandsStandard, CallsFit, NEW o \in Ops, o.do \in PointWrites,
           NEW s \in {"Q", "R"}, DataFor(o, s) # Failed,
           IsMemory(mem), WriteReply(DataFor(o, s), o.do \in BitCalls)
    PROVE  Memory!Wrote(o, mem, mem')
           /\ \E reply : Answered(reply) /\ Replied(o, mem', reply)
<1> DEFINE data == DataFor(o, s)
<1>1. o.do \in PointReads \cup PointWrites
  OBVIOUS
<1>2. PointRequest(o, s, data) /\ o.sym \in {"D", "M"} /\ (o.do \in BitCalls => o.sym = "M")
  BY <1>1, PointData, CallPoints
<1> HIDE DEF data
<1>3. CASE o.do = "write_words_as"
  <2>1. o.do \notin BitCalls
    BY <1>3 DEF BitCalls
  <2>2. WriteReply(data, FALSE)
    <3>1. (o.do \in BitCalls) = FALSE
      BY <2>1
    <3> QED BY <3>1 DEF data
  <2> QED BY <1>2, <1>3, <2>2, WordWrite, ValuesWritten, EmptySeq
          DEF Replied, PointReads, PointWrites
<1>4. CASE o.do = "write_bits"
  <2>1. o.do \in BitCalls
    BY <1>4 DEF BitCalls
  <2>2. WriteReply(data, TRUE)
    <3>1. (o.do \in BitCalls) = TRUE
      BY <2>1
    <3> QED BY <3>1 DEF data
  <2> QED BY <1>2, <1>4, <2>1, <2>2, BitWrite, BitsWritten, EmptySeq
          DEF Replied, PointReads, PointWrites
<1> QED BY <1>3, <1>4 DEF PointWrites

\* Whatever the PLC carries out, the memory afterwards is one that the call may
\* leave, and the answer is what the call asked for.
LEMMA CallCarriedOut ==
    ASSUME CommandsStandard, CallsFit, NEW o \in Ops, NEW s \in {"Q", "R"},
           DataFor(o, s) # Failed, IsMemory(mem), CarriedOut(DataFor(o, s))
    PROVE  Memory!Wrote(o, mem, mem')
           /\ \E reply : Answered(reply) /\ Replied(o, mem', reply)
<1>1. CASE o.do \in PointWrites
  <2>1. PointRequest(o, s, DataFor(o, s))
    BY <1>1, PointData
  <2>2. WriteReply(DataFor(o, s), o.do \in BitCalls)
    BY <1>1, <2>1, PointsCarriedOut
  <2> QED BY <1>1, <2>2, WriteReplies
<1>2. CASE o.do \notin PointWrites
  <2>1. mem' = mem /\ \E reply : Answered(reply) /\ Replied(o, mem, reply)
    <3>1. CASE o.do \in PointReads
      <4>1. PointRequest(o, s, DataFor(o, s))
        BY <3>1, PointData
      <4>2. ReadReply(DataFor(o, s), o.do \in BitCalls)
        BY <3>1, <4>1, PointsCarriedOut
      <4> QED BY <3>1, <4>2, ReadReplied
    <3>2. CASE o.do = "read_blocks"
      BY <3>2, BlocksReplies
    <3>3. CASE o.do \in {"echo", "echo_spec"}
      BY <3>3, EchoReplies
    <3>4. o.do \in PointReads \cup PointWrites \cup {"read_blocks", "echo", "echo_spec"}
      BY DEF CallsFit, PointReads, PointWrites
    <3> QED BY <1>2, <3>1, <3>2, <3>3, <3>4
  <2>2. o.do \notin Memory!Writes
    BY <1>2 DEF PointWrites, Memory!Writes
  <2>3. Memory!Wrote(o, mem, mem')
    BY <2>1, <2>2, Zenon DEF Memory!Wrote
  <2> QED BY <2>1, <2>3
<1> QED BY <1>1, <1>2

(***************************************************************************)
(* What the client makes of an answer that may have been cut off.          *)
(***************************************************************************)

\* The front of a sequence, or all of it.
FrontOf(d, data) ==
    /\ d \in Seq(Byte) /\ Len(d) <= Len(data)
    /\ \A i \in 1..Len(d) : d[i] = data[i]

\* The header and the front of the data.
CutAnswer(f, e, data) ==
    /\ f \in Seq(Byte) /\ data \in Seq(Byte) /\ Len(data) + 2 <= MaxWord
    /\ Len(f) >= 15 /\ Len(f) <= 15 + Len(data)
    /\ f[1] = ResponseSubheader[1] /\ Word(f, 11) = 2 + Len(data) /\ Word(f, 13) = e
    /\ \A i \in 1..(Len(f) - 15) : f[15 + i] = data[i]

LEMMA AnswerWhole ==
    ASSUME NEW data \in Seq(Byte), Len(data) + 2 <= MaxWord, NEW e \in Word16
    PROVE  CutAnswer(Answer("MC4E", Serial, e, data), e, data)
<1> DEFINE n == 2 + Len(data)
           h == Header(ResponseSubheader, Serial, n, LowHigh(e))
           f == h \o data
<1>1. Answer("MC4E", Serial, e, data) = f
  BY DEF Answer, Header
<1>2. ResponseSubheader \in Seq(Byte) /\ Len(ResponseSubheader) = 2
  BY ByteIs DEF ResponseSubheader
<1>3. n \in Word16 /\ Serial \in Word16
  BY WordAtMost, AccessAssumption
<1>4. LowHigh(e) \in Seq(Byte) /\ Len(LowHigh(e)) = 2
      /\ LowHigh(e)[1] + 256 * LowHigh(e)[2] = e
  BY WordBytesOf
<1>5. h \in Seq(Byte)
  <2> HIDE DEF n
  <2> QED BY <1>2, <1>3, <1>4, HeaderParts
<1> HIDE DEF h
<1>6. f \in Seq(Byte) /\ IsJoin(f, h, data)
  BY <1>5, Appended
<1> HIDE DEF f, n
<1>7. /\ Len(f) = 15 + Len(data)
      /\ IsHeader(f, ResponseSubheader, Serial, n, LowHigh(e))
      /\ \A i \in 1..Len(data) : f[15 + i] = data[i]
  BY <1>2, <1>3, <1>4, <1>6, FrameParts DEF h
<1>8. f[1] = ResponseSubheader[1] /\ Word(f, 11) = n /\ Word(f, 13) = e
  BY <1>4, <1>7 DEF IsHeader
<1>9. CutAnswer(f, e, data)
  <2>1. Len(data) \in Nat /\ 15 + Len(data) - 15 = Len(data)
    OBVIOUS
  <2> QED BY <1>6, <1>7, <1>8, <2>1 DEF CutAnswer, n
<1> QED BY <1>1, <1>9

LEMMA CutAgain ==
    ASSUME NEW f, NEW e, NEW data, CutAnswer(f, e, data),
           NEW n \in Nat, n >= 15, n <= Len(f)
    PROVE  CutAnswer(SubSeq(f, 1, n), e, data)
<1> DEFINE g == SubSeq(f, 1, n)
<1>1. \A i \in 1..n : f[i] \in Byte
  BY DEF CutAnswer
<1>2. g \in Seq(Byte) /\ Len(g) = n /\ \A i \in 1..n : g[i] = f[i]
  <2>1. /\ g \in Seq(Byte) /\ Len(g) = IF 1 <= n THEN n - 1 + 1 ELSE 0
        /\ \A i \in 1..(n - 1 + 1) : g[i] = f[1 + i - 1]
    BY <1>1, SubSeqProperties
  <2>2. n - 1 + 1 = n /\ \A i \in 1..n : 1 + i - 1 = i
    OBVIOUS
  <2> QED BY <2>1, <2>2
<1> HIDE DEF g
<1>3. g[1] = f[1] /\ Word(g, 11) = Word(f, 11) /\ Word(g, 13) = Word(f, 13)
  BY <1>2 DEF Word
<1>4. \A i \in 1..(Len(g) - 15) : g[15 + i] = data[i]
  BY <1>2 DEF CutAnswer
<1> QED BY <1>2, <1>3, <1>4 DEF CutAnswer, g

LEMMA CutOutcome ==
    ASSUME NEW f, NEW e \in Word16, NEW data, CutAnswer(f, e, data)
    PROVE  IF e = 0 THEN \E d : FrontOf(d, data) /\ Outcome(f) = [kind |-> "success", data |-> d]
           ELSE Outcome(f).kind = "endcode"
<1> DEFINE n == Len(f)
           d == SubSeq(f, 16, n)
<1>1. /\ f \in Seq(Byte) /\ data \in Seq(Byte) /\ n \in Nat /\ n >= 15
      /\ n <= 15 + Len(data) /\ Len(data) \in Nat
      /\ f[1] = ResponseSubheader[1] /\ Word(f, 11) = 2 + Len(data) /\ Word(f, 13) = e
      /\ \A i \in 1..(n - 15) : f[15 + i] = data[i]
  BY DEF CutAnswer
<1>2. Is4E(f) /\ ~(Len(f) < 2) /\ ~(Word(f, 11) < 2)
  BY <1>1 DEF Is4E
<1>3. Slice(f, 15, 15 + Word(f, 11) - 2) = d
  <2>1. 15 + Word(f, 11) - 2 = 15 + Len(data)
    BY <1>1
  <2>2. Min({n, 15 + Len(data)}) = n
    <3> DEFINE m == 15 + Len(data)
    <3>1. m \in Nat /\ n <= m
      BY <1>1
    <3> HIDE DEF m, n
    <3> QED BY <1>1, <3>1 DEF Min
  <2>3. 15 + 1 = 16
    OBVIOUS
  <2> QED BY <2>1, <2>2, <2>3, Zenon DEF Slice
<1>4. /\ ParseFrame(f).kind = "parsed" /\ ParseFrame(f).data = d
      /\ ParseFrame(f).endCode = e
  <2>1. ParseFrame(f) =
            Parsed(SubSeq(f, 1, 2), Slice(f, 6, 11), Word(f, 11),
                   Slice(f, 15, 15 + Word(f, 11) - 2), Word(f, 13),
                   Absent, Word(f, 2))
    BY <1>2, Zenon DEF ParseFrame
  <2> QED BY <1>1, <1>3, <2>1 DEF Parsed
<1>5. FrontOf(d, data)
  <2>1. \A i \in 16..n : f[i] \in Byte
    BY <1>1
  <2>2. /\ d \in Seq(Byte) /\ Len(d) = IF 16 <= n THEN n - 16 + 1 ELSE 0
        /\ \A i \in 1..(n - 16 + 1) : d[i] = f[16 + i - 1]
    BY <1>1, <2>1, SubSeqProperties
  <2> HIDE DEF d, n
  <2>3. Len(d) = n - 15 /\ n - 16 + 1 = n - 15
    BY <1>1, <2>2
  <2>4. ASSUME NEW i \in 1..Len(d) PROVE d[i] = data[i]
    <3>1. 16 + i - 1 = 15 + i /\ i \in 1..(n - 15)
      BY <1>1, <2>3
    <3> QED BY <1>1, <2>2, <2>3, <3>1
  <2> QED BY <1>1, <2>2, <2>3, <2>4 DEF FrontOf
<1> HIDE DEF d
<1>6. e > 0 \/ e = 0
  BY Word16Is
<1> QED BY <1>4, <1>5, <1>6 DEF Outcome

(***************************************************************************)
(* The blocks of parse_response.                                           *)
(***************************************************************************)

\* m numbers from lo on.
Run(lo, m) == [j \in 1..m |-> lo + j - 1]

LEMMA RunMore ==
    ASSUME NEW lo \in Nat, NEW m \in Nat
    PROVE  Append(Run(lo, m), lo + m) = Run(lo, m + 1)
<1> DEFINE r == Run(lo, m)
           f == Append(r, lo + m)
           g == Run(lo, m + 1)
<1>1. r \in Seq(Int) /\ Len(r) = m /\ \A j \in 1..m : r[j] = lo + j - 1
  BY DEF Run
<1>2. g \in Seq(Int) /\ Len(g) = m + 1 /\ \A j \in 1..(m + 1) : g[j] = lo + j - 1
  BY DEF Run
<1> HIDE DEF r, g
<1>3. f \in Seq(Int) /\ Len(f) = m + 1 /\ (\A j \in 1..m : f[j] = r[j]) /\ f[m + 1] = lo + m
  <2>1. lo + m \in Int
    OBVIOUS
  <2> QED BY <1>1, <2>1, AppendProperties
<1> HIDE DEF f
<1>4. ASSUME NEW j \in 1..(m + 1) PROVE f[j] = g[j]
  <2>1. CASE j \in 1..m
    BY <1>1, <1>2, <1>3, <2>1
  <2>2. CASE j = m + 1
    <3>1. lo + (m + 1) - 1 = lo + m
      OBVIOUS
    <3> QED BY <1>2, <1>3, <2>2, <3>1
  <2> QED BY <2>1, <2>2
<1>5. f = g
  BY <1>2, <1>3, <1>4, SeqEqual
<1> QED BY <1>5 DEF f, g, r

\* The equation of the function in InOrder.
Chosen(f, S, n) ==
    f = [i \in 0..n |-> IF i = 0 THEN << >>
                        ELSE IF i \in S THEN Append(f[i - 1], i) ELSE f[i - 1]]

LEMMA ChosenAgree ==
    ASSUME NEW S, NEW n \in Nat, NEW f, Chosen(f, S, n), NEW g, Chosen(g, S, n)
    PROVE  f[n] = g[n]
<1>1. /\ f[0] = << >> /\ g[0] = << >>
      /\ \A i \in 1..n : f[i] = IF i \in S THEN Append(f[i - 1], i) ELSE f[i - 1]
      /\ \A i \in 1..n : g[i] = IF i \in S THEN Append(g[i - 1], i) ELSE g[i - 1]
  <2> DEFINE next(h, i) == IF i \in S THEN Append(h[i - 1], i) ELSE h[i - 1]
  <2>1. /\ f = [i \in 0..n |-> IF i = 0 THEN << >> ELSE next(f, i)]
        /\ g = [i \in 0..n |-> IF i = 0 THEN << >> ELSE next(g, i)]
    BY Zenon DEF Chosen
  <2> HIDE DEF next
  <2>2. /\ \A i \in 0..n : f[i] = IF i = 0 THEN << >> ELSE next(f, i)
        /\ \A i \in 0..n : g[i] = IF i = 0 THEN << >> ELSE next(g, i)
    BY <2>1
  <2>3. f[0] = << >> /\ g[0] = << >>
        /\ \A i \in 1..n : f[i] = next(f, i) /\ g[i] = next(g, i)
    BY <2>2
  <2> QED BY <2>3 DEF next
<1> DEFINE N == {k \in Nat : k \in 0..n => f[k] = g[k]}
<1>2. 0 \in N
  BY <1>1
<1>3. ASSUME NEW k \in Nat, k \in N PROVE k + 1 \in N
  <2> SUFFICES ASSUME k + 1 \in 0..n PROVE f[k + 1] = g[k + 1]
    OBVIOUS
  <2>1. k + 1 \in 1..n /\ (k + 1) - 1 = k /\ k \in 0..n
    OBVIOUS
  <2> QED BY <1>1, <1>3, <2>1
<1> HIDE DEF N
<1>4. Nat \subseteq N
  BY <1>2, <1>3, Induction
<1> QED BY <1>4 DEF N

LEMMA InOrderIs ==
    ASSUME NEW S, NEW n \in Nat, NEW g, Chosen(g, S, n)
    PROVE  InOrder(S, n) = g[n]
<1> DEFINE eq(h) == [i \in 0..n |-> IF i = 0 THEN << >>
                                    ELSE IF i \in S THEN Append(h[i - 1], i) ELSE h[i - 1]]
           f == CHOOSE h : h = eq(h)
<1>1. InOrder(S, n) = f[n]
  BY ZenonT(50), SMTT(30) DEF InOrder
<1>2. g = eq(g)
  BY DEF Chosen
<1> HIDE DEF eq
<1>3. f = eq(f)
  BY ZenonT(50), <1>2
<1> HIDE DEF f
<1>4. Chosen(f, S, n)
  BY <1>3, Zenon DEF Chosen, eq
<1> QED BY <1>1, <1>4, ChosenAgree

\* Of the numbers up to n, those from lo to hi are in S.
Spans(S, n, lo, hi) == \A i \in 1..n : i \in S <=> lo <= i /\ i <= hi

LEMMA InOrderRun ==
    ASSUME NEW n \in Nat, NEW lo \in Nat \ {0}, NEW hi \in Nat, lo <= hi + 1, hi <= n,
           NEW S, Spans(S, n, lo, hi)
    PROVE  InOrder(S, n) = Run(lo, hi - lo + 1)
<1> DEFINE size(i) == IF i < lo THEN 0 ELSE IF i <= hi THEN i - lo + 1 ELSE hi - lo + 1
           g == [i \in 0..n |-> Run(lo, size(i))]
<1>1. \A i \in 0..n : g[i] = Run(lo, size(i))
  OBVIOUS
<1>2. DOMAIN g = 0..n /\ g = [i \in 0..n |-> g[i]]
  OBVIOUS
<1> HIDE DEF g
<1>3. g[0] = << >>
  <2>1. size(0) = 0
    OBVIOUS
  <2>2. Run(lo, 0) = << >>
    BY DEF Run
  <2> QED BY <1>1, <2>1, <2>2
<1>4. ASSUME NEW i \in 1..n
      PROVE  g[i] = IF i \in S THEN Append(g[i - 1], i) ELSE g[i - 1]
  <2>1. i \in 0..n /\ i - 1 \in 0..n
    OBVIOUS
  <2>2. CASE i \in S
    <3>1. size(i - 1) = i - lo /\ size(i) = (i - lo) + 1 /\ i - lo \in Nat
          /\ lo + (i - lo) = i
      BY <2>2 DEF Spans
    <3> HIDE DEF size
    <3>2. Append(Run(lo, i - lo), i) = Run(lo, (i - lo) + 1)
      BY <3>1, RunMore
    <3> QED BY <1>1, <2>1, <2>2, <3>1, <3>2
  <2>3. CASE i \notin S
    <3>1. size(i - 1) = size(i)
      BY <2>3 DEF Spans
    <3> HIDE DEF size
    <3> QED BY <1>1, <2>1, <2>3, <3>1
  <2> QED BY <2>2, <2>3
<1>5. Chosen(g, S, n)
  <2> DEFINE next(i) == IF i \in S THEN Append(g[i - 1], i) ELSE g[i - 1]
  <2>1. \A i \in 1..n : g[i] = next(i)
    BY <1>4
  <2> HIDE DEF next
  <2>2. \A i \in 0..n : g[i] = IF i = 0 THEN << >> ELSE next(i)
    BY <1>3, <2>1
  <2>3. g = [i \in 0..n |-> IF i = 0 THEN << >> ELSE next(i)]
    BY <1>2, <2>2
  <2> QED BY <2>3, Zenon DEF Chosen, next
<1>6. size(n) = hi - lo + 1
  OBVIOUS
<1> HIDE DEF size
<1> QED BY <1>1, <1>5, <1>6, InOrderIs

\* The parts of an answer have the lengths of the blocks that were asked for.
NeededBy(a) == BytesNeeded(a.entry.kind, a.block.count)
NoText(asked, n) == \A i \in 1..n : asked[i].entry.kind # "text"
Lengths(asked, t, n) == \A i \in 1..n : Len(t[i]) = NeededBy(asked[i])

LEMMA OffsetsAre ==
    ASSUME NEW n \in Nat, NEW asked, Len(asked) = n, NoText(asked, n),
           NEW t, Parts(t, n, Byte), Lengths(asked, t, n), NEW len
    PROVE  Starts(Offsets(asked, len), t, n)
<1> DEFINE numbers == [i \in 1..n |-> Len(t[i])]
           need(i) == BytesNeeded(asked[i].entry.kind, asked[i].block.count)
           eq(h) == [i \in 1..(Len(asked) + 1) |->
                        IF i = 1 THEN 0
                        ELSE IF asked[i - 1].entry.kind = "text" THEN len
                        ELSE h[i - 1] + need(i - 1)]
           f == CHOOSE h : h = eq(h)
<1>1. Offsets(asked, len) = f
  BY ZenonT(50), SMTT(30) DEF Offsets
<1>2. \A i \in 1..n : need(i) = Len(t[i]) /\ numbers[i] = Len(t[i]) /\ Len(t[i]) \in Nat
  BY DEF Lengths, NeededBy, Parts
<1>3. AllNat(numbers, n)
  BY <1>2 DEF AllNat
<1> HIDE DEF numbers
<1>4. PICK g : Sums(g, numbers, n)
  BY <1>3, SumsExists
<1>5. g[0] = 0 /\ \A k \in 1..n : g[k] = g[k - 1] + numbers[k]
  BY <1>3, <1>4, SumsAre
<1> DEFINE h == [i \in 1..(n + 1) |-> g[i - 1]]
<1>6. \A i \in 1..(n + 1) : h[i] = g[i - 1]
  OBVIOUS
<1>7. DOMAIN h = 1..(n + 1) /\ h = [i \in 1..(n + 1) |-> h[i]]
  OBVIOUS
<1> HIDE DEF h, need
<1>8. ASSUME NEW i \in 1..(n + 1)
      PROVE  h[i] = IF i = 1 THEN 0
                    ELSE IF asked[i - 1].entry.kind = "text" THEN len
                    ELSE h[i - 1] + need(i - 1)
  <2>1. CASE i = 1
    <3>1. 1 - 1 = 0
      OBVIOUS
    <3> QED BY <1>5, <1>6, <2>1, <3>1
  <2>2. CASE i # 1
    <3>1. i - 1 \in 1..n /\ i - 1 \in 1..(n + 1)
      BY <2>2
    <3>2. h[i] = g[i - 1] /\ h[i - 1] = g[(i - 1) - 1]
      BY <1>6, <3>1
    <3>3. asked[i - 1].entry.kind # "text"
      BY <3>1 DEF NoText
    <3>4. g[i - 1] = g[(i - 1) - 1] + need(i - 1)
      BY <1>2, <1>5, <3>1
    <3> QED BY <2>2, <3>2, <3>3, <3>4
  <2> QED BY <2>1, <2>2
<1>9. h = [i \in 1..(n + 1) |-> IF i = 1 THEN 0
                                ELSE IF asked[i - 1].entry.kind = "text" THEN len
                                ELSE h[i - 1] + need(i - 1)]
  <2> DEFINE next(i) == IF i = 1 THEN 0
                        ELSE IF asked[i - 1].entry.kind = "text" THEN len
                        ELSE h[i - 1] + need(i - 1)
  <2>1. \A i \in 1..(n + 1) : h[i] = next(i)
    BY <1>8
  <2> HIDE DEF next
  <2>2. h = [i \in 1..(n + 1) |-> next(i)]
    BY <1>7, <2>1
  <2> QED BY <2>2, Zenon DEF next
<1>10. h = eq(h)
  BY <1>9, Zenon
<1> HIDE DEF eq
<1>11. f = eq(f)
  BY ZenonT(50), <1>10
<1> HIDE DEF f
<1>12. \A i \in 1..(n + 1) : f[i] = IF i = 1 THEN 0
                                    ELSE IF asked[i - 1].entry.kind = "text" THEN len
                                    ELSE f[i - 1] + need(i - 1)
  <2>1. f = [i \in 1..(n + 1) |-> IF i = 1 THEN 0
                                  ELSE IF asked[i - 1].entry.kind = "text" THEN len
                                  ELSE f[i - 1] + need(i - 1)]
    BY <1>11, Zenon DEF eq
  <2> QED BY <2>1, Zenon
<1>13. f[1] = 0
  BY <1>12
<1>14. ASSUME NEW i \in 1..n PROVE f[i + 1] = f[i] + Len(t[i])
  <2>1. i + 1 \in 1..(n + 1) /\ i + 1 # 1 /\ (i + 1) - 1 = i
    OBVIOUS
  <2>2. asked[i].entry.kind # "text"
    BY DEF NoText
  <2> QED BY <1>2, <1>12, <2>1, <2>2
<1>15. Starts(f, t, n)
  BY <1>13, <1>14 DEF Starts
<1> QED BY <1>1, <1>15

\* A part that the front of an answer has to its end.
LEMMA PartFound ==
    ASSUME NEW n \in Nat, NEW t, Parts(t, n, Byte), NEW at, Starts(at, t, n),
           NEW d, FrontOf(d, FlattenSeq(t)), NEW i \in 1..n, ~(at[i + 1] > Len(d))
    PROVE  /\ at[i] \in Nat
           /\ \A q \in 1..Len(t[i]) : d[at[i] + q] = t[i][q]
<1> DEFINE c == FlattenSeq(t)
           l == Len(t[i])
           k == at[i]
<1>1. Lays(c, t, n, at)
  BY PartPlaces
<1>2. k \in Nat /\ \A q \in 1..l : c[k + q] = t[i][q]
  BY <1>1 DEF Lays
<1>3. at[i + 1] = k + l /\ l \in Nat
  BY DEF Starts, Parts
<1>4. \A j \in 1..Len(d) : d[j] = c[j]
  BY DEF FrontOf
<1>5. Len(d) \in Nat
  BY DEF FrontOf
<1> HIDE DEF c, l, k
<1>6. ASSUME NEW q \in 1..l PROVE d[k + q] = t[i][q]
  <2>1. k + q \in 1..Len(d)
    BY <1>2, <1>3, <1>5
  <2> QED BY <1>2, <1>4, <2>1
<1> QED BY <1>2, <1>6 DEF k, l

Decoded(kind, part, j) ==
    CASE kind = "words" -> Word(part, 2 * (j - 1))
      [] kind = "bits" -> BitIn(part, j)
      [] OTHER -> NibbleIn(part, j)

\* Only its own bytes count for a block.
LEMMA DecodeIs ==
    ASSUME NEW kind \in {"words", "bits", "nibbles"}, NEW c \in Nat, NEW low \in BOOLEAN,
           low <=> kind # "nibbles", NEW d, NEW at \in Nat, NEW part,
           Len(part) = BytesNeeded(kind, c),
           \A q \in 1..Len(part) : d[at + q] = part[q]
    PROVE  Decode(kind, low, d, at, c) = [j \in 1..c |-> Decoded(kind, part, j)]
<1> DEFINE block(j) ==
               CASE kind = "words" ->
                       IF low THEN Word(d, at + 2 * (j - 1))
                       ELSE Word(<<d[at + 2 * j], d[at + 2 * j - 1]>>, 0)
                 [] kind = "bits" ->
                       LET b == d[at + (j - 1) \div 8 + 1]
                           k == (j - 1) % 8
                       IN  (b \div 2^(IF low THEN k ELSE 7 - k)) % 2 = 1
                 [] OTHER ->
                       LET b == d[at + (j - 1) \div 2 + 1] IN
                       IF (j % 2 = 1) # low THEN b \div 16 # 0 ELSE b % 16 # 0
<1>1. Decode(kind, low, d, at, c) = [j \in 1..c |-> block(j)]
  BY Zenon DEF Decode
<1>2. ASSUME NEW j \in 1..c PROVE block(j) = Decoded(kind, part, j)
  <2>1. CASE kind = "words"
    <3>1. Len(part) = 2 * c
      BY <2>1 DEF BytesNeeded
    <3>2. /\ 2 * (j - 1) + 1 \in 1..Len(part) /\ 2 * (j - 1) + 2 \in 1..Len(part)
          /\ at + (2 * (j - 1) + 1) = at + 2 * (j - 1) + 1
          /\ at + (2 * (j - 1) + 2) = at + 2 * (j - 1) + 2
      BY <3>1
    <3>3. /\ d[at + 2 * (j - 1) + 1] = part[2 * (j - 1) + 1]
          /\ d[at + 2 * (j - 1) + 2] = part[2 * (j - 1) + 2]
      BY <3>2
    <3>4. Word(d, at + 2 * (j - 1)) = Word(part, 2 * (j - 1))
      BY <3>3, Zenon DEF Word
    <3>5. block(j) = Word(d, at + 2 * (j - 1))
      BY <2>1, Zenon
    <3> QED BY <2>1, <3>4, <3>5, Zenon DEF Decoded
  <2>2. CASE kind = "bits"
    <3> DEFINE q == (j - 1) \div 8 + 1
    <3>1. Len(part) = (c + 7) \div 8
      BY <2>2 DEF BytesNeeded
    <3>2. q \in 1..Len(part) /\ at + q = at + (j - 1) \div 8 + 1
      BY <3>1
    <3>3. d[at + (j - 1) \div 8 + 1] = part[(j - 1) \div 8 + 1]
      BY <3>2
    <3>4. block(j) = ((d[at + (j - 1) \div 8 + 1] \div 2^((j - 1) % 8)) % 2 = 1)
      <4>1. kind # "words" /\ low
        BY <2>2
      <4> QED BY <2>2, <4>1, Zenon
    <3>5. block(j) = BitIn(part, j)
      BY <3>3, <3>4, Zenon DEF BitIn, Memory!BitOf
    <3> QED BY <2>2, <3>5, Zenon DEF Decoded
  <2>3. CASE kind = "nibbles"
    <3> DEFINE q == (j - 1) \div 2 + 1
    <3>1. Len(part) = (c + 1) \div 2
      BY <2>3 DEF BytesNeeded
    <3>2. q \in 1..Len(part) /\ at + q = at + (j - 1) \div 2 + 1
      BY <3>1
    <3>3. d[at + (j - 1) \div 2 + 1] = part[(j - 1) \div 2 + 1]
      BY <3>2
    <3>4. block(j) = IF j % 2 = 1 THEN d[at + (j - 1) \div 2 + 1] \div 16 # 0
                     ELSE d[at + (j - 1) \div 2 + 1] % 16 # 0
      <4>1. kind # "words" /\ kind # "bits" /\ low = FALSE
        BY <2>3
      <4>2. ((j % 2 = 1) # FALSE) <=> (j % 2 = 1)
        OBVIOUS
      <4> QED BY <4>1, <4>2, Zenon
    <3>5. block(j) = NibbleIn(part, j)
      BY <3>3, <3>4, Zenon DEF NibbleIn
    <3>6. kind # "words" /\ kind # "bits"
      BY <2>3
    <3> QED BY <3>5, <3>6, Zenon DEF Decoded
  <2> QED BY <2>1, <2>2, <2>3
<1> HIDE DEF block
<1> QED BY <1>1, <1>2

BlockAt(asked, d, i) ==
    Decode(asked[i].entry.kind, asked[i].entry.lowFirst, d, Offsets(asked, Len(d))[i],
           asked[i].block.count)
BlocksAt(asked, d, chosen) == [k \in 1..Len(chosen) |-> BlockAt(asked, d, chosen[k])]
NamedAs(asked, name) == {i \in 1..Len(asked) : asked[i].entry.name = name}
BitsGiven(asked, params) == {i \in 1..Len(asked) : GivenAsBits(asked[i], params)}
KindsOf(spec) == {e.name : e \in {f \in ToSet(spec.entries) : f.kind # "text"}}
GivenBits(asked, params, d) == BlocksAt(asked, d, InOrder(BitsGiven(asked, params), Len(asked)))

IsWith(w, a, b) ==
    /\ DOMAIN w = DOMAIN a \cup DOMAIN b
    /\ w = [key \in DOMAIN w |-> w[key]]
    /\ \A key \in DOMAIN a : w[key] = a[key]
    /\ \A key \in DOMAIN b \ DOMAIN a : w[key] = b[key]

LEMMA WithIs ==
    ASSUME NEW a, NEW b
    PROVE  IsWith(With(a, b), a, b)
BY DEF With, IsWith

\* What parse_response returns when no text was asked for.
ParsedAs(spec, params, asked, d, r) ==
    LET asBits == GivenBits(asked, params, d) IN
    /\ \A i \in 1..Len(asked) : ~(Offsets(asked, Len(d))[i + 1] > Len(d))
    /\ r = [key \in DOMAIN r |-> r[key]]
    /\ DOMAIN r = KindsOf(spec) \cup (IF asBits = << >> THEN {} ELSE {"bit_blocks"})
    /\ \A name \in KindsOf(spec) :
           r[name] = BlocksAt(asked, d, InOrder(NamedAs(asked, name), Len(asked)))
    /\ asBits # << >> /\ "bit_blocks" \notin KindsOf(spec) =>
           r["bit_blocks"] = [k \in 1..Len(asBits) |-> WordBits(asBits[k][1])]

LEMMA ParsedBlocks ==
    ASSUME NEW spec, NEW params, NEW d,
           NoText(Asked(spec, params), Len(Asked(spec, params))),
           NEW r, r = ParseResponse(spec, params, d), r # Failed
    PROVE  ParsedAs(spec, params, Asked(spec, params), d, r)
<1> DEFINE asked == Asked(spec, params)
           offset == Offsets(asked, Len(d))
           text(i) == SubSeq(d, offset[i] + 1, Len(d))
           block(i) == Decode(asked[i].entry.kind, asked[i].entry.lowFirst, d, offset[i],
                              asked[i].block.count)
           blocks(chosen) == [k \in 1..Len(chosen) |-> block(chosen[k])]
           asBits == blocks(InOrder({i \in 1..Len(asked) : GivenAsBits(asked[i], params)},
                                    Len(asked)))
           named(name) == {i \in 1..Len(asked) : asked[i].entry.name = name}
           texts == {i \in 1..Len(asked) : asked[i].entry.kind = "text"}
           kinds == {e.name : e \in {f \in ToSet(spec.entries) : f.kind # "text"}}
           bad == \/ \E i \in (1..Len(asked)) \ texts : "count" \notin DOMAIN asked[i].block
                  \/ \E i \in 1..Len(asked) : offset[i + 1] > Len(d)
                  \/ \E i \in texts : ~(ToSet(text(i)) \subseteq HexDigits)
           first == [name \in kinds |-> blocks(InOrder(named(name), Len(asked)))]
           second == [name \in {asked[i].entry.name : i \in texts} |->
                         text(CHOOSE i \in texts : asked[i].entry.name = name)]
           extra == IF asBits = << >> THEN NoKeys
                    ELSE [bit_blocks |-> [k \in 1..Len(asBits) |-> WordBits(asBits[k][1])]]
<1>1. r = IF bad THEN Failed ELSE With(With(first, second), extra)
  BY Zenon DEF ParseResponse
<1>2. ~bad /\ r = With(With(first, second), extra)
  <2> HIDE DEF bad, first, second, extra
  <2> QED BY <1>1
<1>3. \A i \in 1..Len(asked) : ~(offset[i + 1] > Len(d))
  BY <1>2, Zenon
<1>4. texts = {}
  BY DEF NoText
<1>5. DOMAIN second = {} /\ DOMAIN first = kinds
  <2> HIDE DEF kinds, texts, text, blocks, named
  <2>1. DOMAIN second = {asked[i].entry.name : i \in texts} /\ DOMAIN first = kinds
    OBVIOUS
  <2>2. {asked[i].entry.name : i \in texts} = {}
    BY <1>4
  <2> QED BY <2>1, <2>2
<1>6. asBits = GivenBits(asked, params, d)
  BY Zenon DEF GivenBits, BlocksAt, BlockAt, BitsGiven
<1>7. kinds = KindsOf(spec)
  BY Zenon DEF KindsOf
<1>8. ASSUME NEW name \in kinds
      PROVE  first[name] = BlocksAt(asked, d, InOrder(NamedAs(asked, name), Len(asked)))
  BY Zenon DEF BlocksAt, BlockAt, NamedAs
<1>9. DOMAIN NoKeys = {}
  BY DEF NoKeys
<1>10. /\ DOMAIN extra = IF asBits = << >> THEN {} ELSE {"bit_blocks"}
       /\ asBits # << >> => extra["bit_blocks"]
                                = [k \in 1..Len(asBits) |-> WordBits(asBits[k][1])]
  <2> HIDE DEF asBits
  <2> QED BY <1>9
<1> HIDE DEF first, second, extra, kinds, asBits, offset, asked
<1>11. /\ DOMAIN With(first, second) = kinds
       /\ \A name \in kinds : With(first, second)[name] = first[name]
  <2> DEFINE w == With(first, second)
  <2>1. IsWith(w, first, second)
    BY WithIs
  <2> HIDE DEF w
  <2>2. DOMAIN w = kinds /\ \A name \in kinds : w[name] = first[name]
    BY <1>5, <2>1 DEF IsWith
  <2> QED BY <2>2 DEF w
<1>12. /\ DOMAIN r = kinds \cup DOMAIN extra
       /\ r = [key \in DOMAIN r |-> r[key]]
       /\ \A name \in kinds : r[name] = first[name]
       /\ \A key \in DOMAIN extra \ kinds : r[key] = extra[key]
  <2> DEFINE w == With(first, second)
  <2>1. DOMAIN w = kinds /\ \A name \in kinds : w[name] = first[name]
    BY <1>11
  <2> HIDE DEF w
  <2>2. r = With(w, extra)
    BY <1>2 DEF w
  <2>3. /\ DOMAIN r = DOMAIN w \cup DOMAIN extra
        /\ r = [key \in DOMAIN r |-> r[key]]
        /\ \A key \in DOMAIN w : r[key] = w[key]
        /\ \A key \in DOMAIN extra \ DOMAIN w : r[key] = extra[key]
    <3>1. IsWith(With(w, extra), w, extra)
      BY WithIs
    <3>2. IsWith(r, w, extra)
      BY <2>2, <3>1
    <3> QED BY <3>2 DEF IsWith
  <2> QED BY <2>1, <2>3
<1>13. \A name \in KindsOf(spec) :
          r[name] = BlocksAt(asked, d, InOrder(NamedAs(asked, name), Len(asked)))
  BY <1>7, <1>8, <1>12, Zenon
<1>14. /\ DOMAIN r = KindsOf(spec) \cup (IF asBits = << >> THEN {} ELSE {"bit_blocks"})
       /\ asBits # << >> /\ "bit_blocks" \notin KindsOf(spec) =>
              r["bit_blocks"] = [k \in 1..Len(asBits) |-> WordBits(asBits[k][1])]
  BY <1>7, <1>10, <1>12
<1> QED BY <1>3, <1>6, <1>12, <1>13, <1>14, Zenon DEF ParsedAs, offset, asked

LEMMA NoneChosen ==
    ASSUME NEW n \in Nat, NEW S, \A i \in 1..n : i \notin S
    PROVE  InOrder(S, n) = << >>
<1>1. InOrder(S, n) = Run(1, 0 - 1 + 1)
  <2>1. Spans(S, n, 1, 0)
    BY DEF Spans
  <2> QED BY <2>1, InOrderRun
<1>2. 0 - 1 + 1 = 0
  OBVIOUS
<1> QED BY <1>1, <1>2 DEF Run

LEMMA OneChosen ==
    ASSUME NEW S, 1 \in S
    PROVE  InOrder(S, 1) = <<1>>
<1>1. Spans(S, 1, 1, 1)
  BY DEF Spans
<1>2. InOrder(S, 1) = Run(1, 1 - 1 + 1)
  BY <1>1, InOrderRun
<1>3. 1 - 1 + 1 = 1
  OBVIOUS
<1> QED BY <1>2, <1>3 DEF Run

LEMMA NothingAsked ==
    ASSUME NEW spec, spec.entries = << >>, NEW params
    PROVE  Asked(spec, params) = << >>
<1> DEFINE t == [i \in 1..Len(spec.entries) |->
                    LET e == spec.entries[i] IN
                    IF e.kind = "text" THEN <<[entry |-> e, block |-> NoKeys]>>
                    ELSE [j \in 1..Len(Blocks(params, e.name)) |->
                              [entry |-> e, block |-> Blocks(params, e.name)[j]]]]
<1>1. Asked(spec, params) = FlattenSeq(t)
  BY Zenon DEF Asked
<1>2. t = [i \in 1..Len(spec.entries) |-> t[i]] /\ Len(spec.entries) = 0
  OBVIOUS
<1> HIDE DEF t
<1>3. Parts(t, 0, {}) /\ Starts(<<0>>, t, 0)
  BY <1>2 DEF Parts, Starts
<1>4. FlattenSeq(t) \in Seq({}) /\ Lays(FlattenSeq(t), t, 0, <<0>>)
  BY <1>3, PartPlaces
<1>5. Len(FlattenSeq(t)) = 0
  BY <1>4 DEF Lays
<1> QED BY <1>1, <1>4, <1>5

LEMMA OneAsked ==
    ASSUME NEW spec, NEW e, spec.entries = <<e>>, e.kind # "text",
           NEW params, NEW b, e.name \in DOMAIN params, params[e.name] = <<b>>
    PROVE  Asked(spec, params) = <<[entry |-> e, block |-> b]>>
<1> DEFINE part(f) == IF f.kind = "text" THEN <<[entry |-> f, block |-> NoKeys]>>
                      ELSE [j \in 1..Len(Blocks(params, f.name)) |->
                                [entry |-> f, block |-> Blocks(params, f.name)[j]]]
           t == [i \in 1..Len(spec.entries) |-> part(spec.entries[i])]
           a == [entry |-> e, block |-> b]
<1>1. Asked(spec, params) = FlattenSeq(t)
  BY Zenon DEF Asked
<1>2. part(e) = <<a>>
  <2>1. Blocks(params, e.name) = <<b>>
    BY DEF Blocks, Get
  <2>2. part(e) = [j \in 1..Len(<<b>>) |-> [entry |-> e, block |-> <<b>>[j]]]
    BY <2>1, Zenon
  <2> QED BY <2>2
<1> HIDE DEF part, a
<1>3. Len(spec.entries) = 1 /\ spec.entries[1] = e
  OBVIOUS
<1>4. t = [i \in 1..1 |-> t[i]] /\ t[1] = <<a>>
  BY <1>2, <1>3
<1> HIDE DEF t
<1>5. Parts(t, 1, {a}) /\ Starts(<<0, 1>>, t, 1)
  BY <1>4 DEF Parts, Starts
<1>6. FlattenSeq(t) \in Seq({a}) /\ Lays(FlattenSeq(t), t, 1, <<0, 1>>)
  BY <1>5, PartPlaces
<1>7. Len(FlattenSeq(t)) = 1 /\ FlattenSeq(t)[1] = a
  BY <1>4, <1>6 DEF Lays
<1> QED BY <1>1, <1>6, <1>7 DEF a

\* The response of a command that answers nothing.
LEMMA NothingParsed ==
    ASSUME NEW spec, spec.entries = << >>, NEW params, NEW d,
           NEW r, r = ParseResponse(spec, params, d), r # Failed
    PROVE  r = << >>
<1>1. Asked(spec, params) = << >>
  BY NothingAsked
<1>2. NoText(<< >>, Len(<< >>))
  BY DEF NoText
<1>3. ParsedAs(spec, params, << >>, d, r)
  BY <1>1, <1>2, ParsedBlocks
<1>4. InOrder(BitsGiven(<< >>, params), Len(<< >>)) = << >>
  <2>1. Len(<< >>) = 0 /\ \A i \in 1..0 : i \notin BitsGiven(<< >>, params)
    OBVIOUS
  <2> QED BY <2>1, NoneChosen
<1>5. GivenBits(<< >>, params, d) = << >>
  <2>1. BlocksAt(<< >>, d, << >>) = << >>
    BY DEF BlocksAt
  <2> QED BY <1>4, <2>1 DEF GivenBits
<1>6. KindsOf(spec) = {}
  <2>1. ToSet(spec.entries) = {}
    BY DEF ToSet
  <2> QED BY <2>1 DEF KindsOf
<1>7. DOMAIN r = {} /\ r = [key \in DOMAIN r |-> r[key]]
  <2> DEFINE asBits == GivenBits(<< >>, params, d)
  <2>1. /\ r = [key \in DOMAIN r |-> r[key]]
        /\ DOMAIN r = KindsOf(spec) \cup (IF asBits = << >> THEN {} ELSE {"bit_blocks"})
    BY <1>3, Zenon DEF ParsedAs
  <2> HIDE DEF asBits
  <2>2. asBits = << >>
    BY <1>5 DEF asBits
  <2> QED BY <1>6, <2>1, <2>2
<1> QED BY <1>7

LEMMA WriteReturns ==
    ASSUME CommandsStandard, NEW o \in Ops, o.do \in PointWrites, NEW d
    PROVE  ResultOf(o, d) = Failed \/ ResultOf(o, d) = << >>
<1> DEFINE parsed == ParseResponse(CommandOf(o), ParamsOf(o), d)
<1>1. CommandOf(o).entries = << >>
  <2>1. PointSpec(o, CommandOf(o)) /\ o.do \notin PointReads
    BY PointCommand DEF PointReads, PointWrites
  <2> QED BY <2>1 DEF PointSpec
<1>2. ResultOf(o, d) = IF parsed = Failed THEN Failed ELSE parsed
  <2>1. o.do # "echo" /\ o.do # "read_words_as" /\ o.do # "echo_spec"
    BY DEF PointWrites
  <2> HIDE DEF parsed
  <2>2. ResultOf(o, d) = IF parsed = Failed THEN Failed
                         ELSE CASE o.do = "read_words_as" ->
                                      Elements(o, FlattenSeq(parsed.data_blocks))
                                [] o.do = "echo_spec" -> parsed.payload
                                [] OTHER -> parsed
    BY <2>1, Zenon DEF ResultOf, parsed
  <2> QED BY <2>1, <2>2, Zenon
<1>3. parsed = Failed \/ parsed = << >>
  <2> DEFINE spec == CommandOf(o)
             params == ParamsOf(o)
             r == parsed
  <2>1. spec.entries = << >> /\ r = ParseResponse(spec, params, d)
    BY <1>1
  <2> SUFFICES ASSUME r # Failed PROVE r = << >>
    OBVIOUS
  <2> HIDE DEF spec, params, r
  <2> QED BY <2>1, NothingParsed
<1> HIDE DEF parsed
<1> QED BY <1>2, <1>3

\* What a read of words or bits makes of the whole reply.
ReadBlock(o, reply) ==
    [j \in 1..CountOf(o) |-> Decoded(ReadEntry(o).kind, reply, j)]
OneRead(o, reply, r) ==
    /\ r["data_blocks"] = <<ReadBlock(o, reply)>>
    /\ IF o.do # "read_bits" /\ CountOf(o) = 1 /\ o.sym = "M"
       THEN r["bit_blocks"] = <<WordBits(ReadBlock(o, reply)[1])>>
       ELSE DOMAIN r = {"data_blocks"}

LEMMA ReadEntryIs ==
    ASSUME NEW o, o.do \in PointReads
    PROVE  /\ ReadEntry(o).name = "data_blocks"
           /\ ReadEntry(o).kind = IF o.do = "read_bits" THEN "nibbles" ELSE "words"
           /\ ReadEntry(o).lowFirst = (o.do # "read_bits")
BY DEF ReadEntry, Entry

LEMMA OnePart ==
    ASSUME NEW S, NEW reply \in Seq(S)
    PROVE  Parts(<<reply>>, 1, S) /\ FlattenSeq(<<reply>>) = reply
<1> DEFINE t == <<reply>>
           at == <<0, Len(reply)>>
           c == FlattenSeq(t)
<1>1. t = [i \in 1..1 |-> t[i]] /\ t[1] = reply
  OBVIOUS
<1>2. Parts(t, 1, S)
  BY <1>1 DEF Parts
<1>3. at[1] = 0 /\ at[2] = Len(reply) /\ Len(reply) \in Nat
  OBVIOUS
<1> HIDE DEF t, at
<1>4. Starts(at, t, 1)
  BY <1>1, <1>3 DEF Starts
<1>5. c \in Seq(S) /\ Lays(c, t, 1, at)
  BY <1>2, <1>4, PartPlaces
<1> HIDE DEF c
<1>6. Len(c) = Len(reply) /\ \A q \in 1..Len(reply) : c[q] = reply[q]
  BY <1>1, <1>3, <1>5 DEF Lays
<1>7. c = reply
  BY <1>5, <1>6
<1> QED BY <1>2, <1>7 DEF c, t

LEMMA OneBlock ==
    ASSUME CommandsStandard, CallsFit, NEW o \in Ops, o.do \in PointReads, NEW s,
           DataFor(o, s) # Failed, NEW reply \in Seq(Byte),
           Len(reply) = BytesNeeded(ReadEntry(o).kind, CountOf(o)),
           NEW d, FrontOf(d, reply),
           NEW r, r = ParseResponse(CommandOf(o), ParamsOf(o), d), r # Failed
    PROVE  OneRead(o, reply, r)
<1> DEFINE e == ReadEntry(o)
           n == CountOf(o)
           b == [count |-> n]
           spec == CommandOf(o)
           params == ParamsOf(o)
           asked == <<[entry |-> e, block |-> b]>>
           at == Offsets(asked, Len(d))
<1>1. spec.entries = <<e>>
  <2>1. PointSpec(o, CommandOf(o))
    BY PointCommand
  <2> QED BY <2>1 DEF PointSpec
<1>2. /\ e.name = "data_blocks" /\ e.kind = IF o.do = "read_bits" THEN "nibbles" ELSE "words"
      /\ e.lowFirst = (o.do # "read_bits")
  BY ReadEntryIs
<1>3. /\ n \in Nat /\ o.sym \in {"D", "M"}
      /\ "device_code" \in DOMAIN params
      /\ params["device_code"] = IF o.sym = "D" THEN 168 ELSE 144
      /\ "data_blocks" \in DOMAIN params /\ params["data_blocks"] = <<b>>
  <2>1. o.do = "read_words_as" => RequiredWords(o) # Failed
    <3>1. o.do # "echo"
      BY DEF PointReads
    <3> QED BY <3>1, CallBuilds
  <2>2. n \in Nat
    BY <2>1, CountType
  <2>3. Named(ParamsOf(o), o.sym, o.addr, OtherParams(o))
        /\ "device_code" \in DOMAIN ParamsOf(o)
    BY CallNamed
  <2>4. "data_blocks" \in DOMAIN OtherParams(o) /\ OtherParams(o)["data_blocks"] = <<b>>
    BY OtherKeys
  <2> QED BY <2>2, <2>3, <2>4 DEF Named
<1> HIDE DEF e, n, spec, params
<1>4. Asked(spec, params) = asked
  BY <1>1, <1>2, <1>3, OneAsked
<1>5. /\ Len(asked) = 1 /\ asked[1].entry = e /\ asked[1].block = b
      /\ asked[1].block.count = n
  OBVIOUS
<1> HIDE DEF asked
<1>6. NoText(asked, 1) /\ NoText(asked, Len(asked))
  BY <1>2, <1>5 DEF NoText
<1>7. ParsedAs(spec, params, asked, d, r)
  <2>1. r = ParseResponse(spec, params, d)
    BY DEF spec, params
  <2> QED BY <1>4, <1>6, <2>1, ParsedBlocks
<1>8. Parts(<<reply>>, 1, Byte) /\ FrontOf(d, FlattenSeq(<<reply>>))
  BY OnePart
<1>9. Lengths(asked, <<reply>>, 1)
  BY <1>5 DEF Lengths, NeededBy, e, n
<1>10. Starts(at, <<reply>>, 1)
  BY <1>5, <1>6, <1>8, <1>9, OffsetsAre
<1>11. ~(at[2] > Len(d))
  <2>1. \A i \in 1..Len(asked) : ~(Offsets(asked, Len(d))[i + 1] > Len(d))
    BY <1>7, Zenon DEF ParsedAs
  <2>2. 1 \in 1..Len(asked) /\ 1 + 1 = 2
    BY <1>5
  <2> QED BY <2>1, <2>2
<1> HIDE DEF at
<1>12. at[1] = 0 /\ at[1] \in Nat /\ \A q \in 1..Len(reply) : d[at[1] + q] = reply[q]
  <2>1. 1 + 1 = 2 /\ 1 \in 1..1 /\ <<reply>>[1] = reply
    OBVIOUS
  <2>2. at[1] \in Nat /\ \A q \in 1..Len(<<reply>>[1]) : d[at[1] + q] = <<reply>>[1][q]
    BY <1>8, <1>10, <1>11, <2>1, PartFound
  <2>3. at[1] = 0
    BY <1>10, Zenon DEF Starts
  <2> HIDE DEF asked
  <2> QED BY <2>1, <2>2, <2>3, Zenon
<1>13. BlockAt(asked, d, 1) = ReadBlock(o, reply)
  <2>1. BlockAt(asked, d, 1) = Decode(e.kind, e.lowFirst, d, at[1], n)
    BY <1>5, Zenon DEF BlockAt, at
  <2>2. e.kind \in {"words", "bits", "nibbles"} /\ e.lowFirst \in BOOLEAN
        /\ (e.lowFirst <=> e.kind # "nibbles")
    BY <1>2
  <2>3. Len(reply) = BytesNeeded(e.kind, n)
    BY DEF e, n
  <2>4. Decode(e.kind, e.lowFirst, d, at[1], n) = [j \in 1..n |-> Decoded(e.kind, reply, j)]
    BY <1>3, <1>12, <2>2, <2>3, DecodeIs
  <2> QED BY <2>1, <2>4, Zenon DEF ReadBlock, e, n
<1>14. BlocksAt(asked, d, <<1>>) = <<ReadBlock(o, reply)>>
  <2>1. Len(<<1>>) = 1 /\ <<1>>[1] = 1
    OBVIOUS
  <2>2. BlocksAt(asked, d, <<1>>) = [k \in 1..1 |-> BlockAt(asked, d, <<1>>[k])]
    BY <2>1, Zenon DEF BlocksAt
  <2> HIDE DEF BlocksAt
  <2> QED BY <1>13, <2>1, <2>2
<1>15. KindsOf(spec) = {"data_blocks"}
  <2>1. ToSet(spec.entries) = {e}
    BY <1>1 DEF ToSet
  <2>2. e.kind # "text"
    BY <1>2
  <2> QED BY <1>2, <2>1, <2>2 DEF KindsOf
<1>16. r["data_blocks"] = <<ReadBlock(o, reply)>>
  <2>1. 1 \in NamedAs(asked, "data_blocks")
    BY <1>2, <1>5 DEF NamedAs
  <2>2. InOrder(NamedAs(asked, "data_blocks"), Len(asked)) = <<1>>
    BY <1>5, <2>1, OneChosen
  <2>3. \A name \in KindsOf(spec) :
           r[name] = BlocksAt(asked, d, InOrder(NamedAs(asked, name), Len(asked)))
    BY <1>7, Zenon DEF ParsedAs
  <2> QED BY <1>14, <1>15, <2>2, <2>3
<1> DEFINE asBits == GivenBits(asked, params, d)
           given == o.do # "read_bits" /\ CountOf(o) = 1 /\ o.sym = "M"
<1>17. /\ DOMAIN r = KindsOf(spec) \cup (IF asBits = << >> THEN {} ELSE {"bit_blocks"})
       /\ asBits # << >> /\ "bit_blocks" \notin KindsOf(spec) =>
              r["bit_blocks"] = [k \in 1..Len(asBits) |-> WordBits(asBits[k][1])]
  BY <1>7, Zenon DEF ParsedAs
<1>18. 1 \in BitsGiven(asked, params) <=> given
  <2>1. DeviceOf(With(b, params)) = ByCode(params["device_code"])
    <3> DEFINE w == With(b, params)
    <3>1. IsWith(w, b, params)
      BY WithIs
    <3>2. DOMAIN b = {"count"}
      OBVIOUS
    <3> HIDE DEF w, b
    <3>3. "device_code" \in DOMAIN w /\ w["device_code"] = params["device_code"]
      BY <1>3, <3>1, <3>2 DEF IsWith
    <3> QED BY <3>3 DEF DeviceOf, w
  <2>2. (\E v \in DeviceOf(With(b, params)) : v.category = "Bit") <=> o.sym = "M"
    <3>1. CASE o.sym = "D"
      <4>1. DeviceOf(With(b, params)) = {[code |-> 168, category |-> "Word"]}
        BY <1>3, <2>1, <3>1, CodeDevice
      <4> QED BY <3>1, <4>1
    <3>2. CASE o.sym = "M"
      <4>1. DeviceOf(With(b, params)) = {[code |-> 144, category |-> "Bit"]}
        BY <1>3, <2>1, <3>2, CodeDevice
      <4>2. [code |-> 144, category |-> "Bit"].category = "Bit"
        OBVIOUS
      <4> QED BY <3>2, <4>1, <4>2, Zenon
    <3>3. o.sym \in {"D", "M"}
      BY <1>3
    <3> QED BY <3>1, <3>2, <3>3, Zenon
  <2>3. GivenAsBits(asked[1], params) <=> e.kind = "words" /\ n = 1 /\ o.sym = "M"
    BY <1>5, <2>2 DEF GivenAsBits
  <2>4. 1 \in BitsGiven(asked, params) <=> GivenAsBits(asked[1], params)
    BY <1>5 DEF BitsGiven
  <2> QED BY <1>2, <2>3, <2>4 DEF n
<1> HIDE DEF b
<1>19. CASE given
  <2>1. InOrder(BitsGiven(asked, params), Len(asked)) = <<1>>
    BY <1>5, <1>18, <1>19, OneChosen
  <2>2. asBits = <<ReadBlock(o, reply)>>
    BY <1>14, <2>1 DEF GivenBits
  <2> HIDE DEF asBits
  <2>3. asBits # << >> /\ Len(asBits) = 1 /\ asBits[1] = ReadBlock(o, reply)
    BY <2>2
  <2>4. r["bit_blocks"] = [k \in 1..1 |-> WordBits(asBits[k][1])]
    BY <1>15, <1>17, <2>3
  <2>5. r["bit_blocks"] = <<WordBits(ReadBlock(o, reply)[1])>>
    BY <2>3, <2>4
  <2> QED BY <1>16, <1>19, <2>5 DEF OneRead
<1>20. CASE ~given
  <2>1. InOrder(BitsGiven(asked, params), Len(asked)) = << >>
    <3>1. \A i \in 1..1 : i \notin BitsGiven(asked, params)
      BY <1>18, <1>20
    <3> QED BY <1>5, <3>1, NoneChosen
  <2>2. asBits = << >>
    BY <2>1 DEF GivenBits, BlocksAt
  <2> HIDE DEF asBits
  <2>3. DOMAIN r = {"data_blocks"}
    BY <1>15, <1>17, <2>2
  <2> QED BY <1>16, <1>20, <2>3 DEF OneRead
<1> QED BY <1>19, <1>20

\* n words with the bits that the memory has from address a on.
HasWords(ws, n, m, sym, a) ==
    ws \in Seq(Word16) /\ Len(ws) = n /\ SameBits(ws, n, m, sym, a)

LEMMA WordsBack ==
    ASSUME NEW m, IsMemory(m), NEW sym \in {"D", "M"}, NEW a \in Nat, NEW n \in Nat,
           Area(sym, a, n) \subseteq DOMAIN m[sym],
           NEW reply, WordsIn(reply, n, m, sym, a)
    PROVE  HasWords([j \in 1..n |-> Decoded("words", reply, j)], n, m, sym, a)
<1> DEFINE ws == [j \in 1..n |-> Decoded("words", reply, j)]
<1>1. ASSUME NEW j \in 1..n PROVE Decoded("words", reply, j) = WordAt(m, sym, a, j)
  BY DEF WordsIn, Decoded
<1>2. ASSUME NEW j \in 1..n
      PROVE  /\ WordAt(m, sym, a, j) \in Word16
             /\ \A k \in 0..15 : Memory!BitOf(WordAt(m, sym, a, j), k)
                                    = Memory!BitAt(m, sym, a, 16 * (j - 1) + k)
  BY WordAtIs
<1>3. \A j \in 1..n : ws[j] = WordAt(m, sym, a, j) /\ ws[j] \in Word16
  BY <1>1, <1>2
<1>4. ws \in Seq(Word16) /\ Len(ws) = n
  <2>1. DOMAIN ws = 1..n /\ ws = [j \in 1..n |-> ws[j]]
    OBVIOUS
  <2> HIDE DEF ws
  <2> QED BY <1>3, <2>1
<1> HIDE DEF ws
<1>5. SameBits(ws, n, m, sym, a)
  BY <1>2, <1>3 DEF SameBits
<1> QED BY <1>4, <1>5 DEF HasWords, ws

LEMMA WordsHeld ==
    ASSUME NEW m, NEW sym, NEW a \in Nat, NEW n \in Nat, NEW ws, HasWords(ws, n, m, sym, a)
    PROVE  Memory!Holds(m, sym, a, "u16", ws)
<1>1. "u16" \in Types /\ WordsOfType("u16") = 1 /\ "u16" # "bits16"
  BY DEF Types, WordsOfType
<1>2. Len(ws) = n /\ Len(ws) * 1 = n /\ \A i \in 1..n : ws[i] \in Int
  <2>1. ws \in Seq(Word16) /\ Len(ws) = n
    BY DEF HasWords
  <2>2. \A i \in 1..n : ws[i] \in Word16
    BY <2>1
  <2> QED BY <2>1, <2>2, Word16Is
<1>3. SameBits(ws, Len(ws) * WordsOfType("u16"), m, sym, a)
  BY <1>1, <1>2 DEF HasWords
<1>4. ASSUME NEW i \in 1..Len(ws)
      PROVE  \E part : /\ Carries("u16", part, ws[i])
                       /\ \A q \in 1..WordsOfType("u16") :
                             part[q] = ws[WordsOfType("u16") * (i - 1) + q]
  <2> DEFINE v == ws[i]
             part == <<v>>
  <2>1. part[1] = v /\ 1 * (i - 1) + 1 = i
    OBVIOUS
  <2>2. v \in Int
    BY <1>2
  <2> HIDE DEF v, part
  <2>3. ASSUME NEW k \in 0..15
        PROVE  Memory!BitOf(part[k \div 16 + 1], k % 16) = Memory!ValueBit("u16", v, k)
    <3>1. k \div 16 + 1 = 1 /\ k % 16 = k
      OBVIOUS
    <3>2. Memory!ValueBit("u16", v, k) = Memory!BitOf(v, k)
      BY <1>1, <2>2, LowBit
    <3> QED BY <2>1, <3>1, <3>2
  <2>4. Carries("u16", part, v)
    <3>1. 16 * WordsOfType("u16") - 1 = 15
      BY <1>1
    <3> QED BY <2>3, <3>1 DEF Carries
  <2>5. \A q \in 1..WordsOfType("u16") : part[q] = ws[WordsOfType("u16") * (i - 1) + q]
    BY <1>1, <2>1 DEF v
  <2> QED BY <2>4, <2>5 DEF v
<1>5. Carried("u16", ws, ws)
  BY <1>4 DEF Carried
<1> QED BY <1>1, <1>2, <1>3, <1>5, HoldsWhen

\* The bits of the one word that is given as bits.
LEMMA WordGivenAsBits ==
    ASSUME NEW m, NEW a \in Nat, NEW ws, HasWords(ws, 1, m, "M", a)
    PROVE  Len(WordBits(ws[1])) = 16 /\ Memory!HoldsBits(m, a, WordBits(ws[1]))
<1> DEFINE w == ws[1]
           bits == WordBits(w)
<1>1. ASSUME NEW k \in 0..15 PROVE Memory!BitOf(w, k) = m["M"][a + k]
  <2>1. 16 * (1 - 1) + k = k
    OBVIOUS
  <2>2. Memory!BitOf(w, k) = Memory!BitAt(m, "M", a, k)
    BY <2>1 DEF HasWords, SameBits
  <2> QED BY <2>2 DEF Memory!BitAt
<1> HIDE DEF w
<1>2. Len(bits) = 16 /\ \A i \in 1..16 : bits[i] = Memory!BitOf(w, i - 1)
  BY DEF WordBits, Memory!BitOf
<1> HIDE DEF bits
<1>3. ASSUME NEW i \in 1..16 PROVE bits[i] = m["M"][a + i - 1]
  <2>1. i - 1 \in 0..15 /\ a + (i - 1) = a + i - 1
    OBVIOUS
  <2> QED BY <1>1, <1>2, <2>1
<1>4. Memory!HoldsBits(m, a, bits)
  BY <1>2, <1>3 DEF Memory!HoldsBits
<1> QED BY <1>2, <1>4 DEF bits, w

\* The words that a read has asked for.
LEMMA WordsOfRead ==
    ASSUME NEW o, o.do \in {"read_words", "read_words_as"}, NEW m, IsMemory(m),
           NEW reply, WordsReplied(o, m, reply)
    PROVE  /\ Len(reply) = BytesNeeded(ReadEntry(o).kind, CountOf(o))
           /\ HasWords(ReadBlock(o, reply), CountOf(o), m, o.sym, Memory!AddressOf(o))
<1> DEFINE n == CountOf(o)
           a == Memory!AddressOf(o)
<1>1. /\ o.sym \in {"D", "M"} /\ n \in Nat /\ a \in Nat
      /\ Area(o.sym, a, n) \subseteq DOMAIN m[o.sym]
      /\ WordsIn(reply, n, m, o.sym, a)
  BY Zenon DEF WordsReplied
<1>2. ReadEntry(o).kind = "words"
  BY DEF ReadEntry, Entry
<1> HIDE DEF n, a
<1>3. Len(reply) = BytesNeeded("words", n)
  BY <1>1 DEF WordsIn, BytesNeeded
<1>4. HasWords([j \in 1..n |-> Decoded("words", reply, j)], n, m, o.sym, a)
  BY <1>1, WordsBack
<1> QED BY <1>2, <1>3, <1>4, Zenon DEF ReadBlock, n, a

\* Of a call that reads words, as it stands in DeviceMemory.
LEMMA WordRange ==
    ASSUME CallsFit, NEW o \in Ops, o.do \in {"read_words", "read_words_as"},
           NEW m, IsMemory(m), NEW reply, WordsReplied(o, m, reply)
    PROVE  /\ o.type \in Types /\ o.count \in Nat
           /\ CountOf(o) = WordsOfType(o.type) * o.count
           /\ o.do = "read_words" => o.type = "u16" /\ CountOf(o) = o.count
           /\ Memory!Inside(m, o)
<1>1. o.type \in Types /\ o.count \in Nat /\ (o.do = "read_words" => o.type = "u16")
  <2>1. TypedCall(o)
    BY DEF CallsFit
  <2>2. o.count \in Word16 /\ (o.do = "read_words" => o.type = "u16")
        /\ (o.do = "read_words_as" => o.type \in DOMAIN Memory!Values)
    BY <2>1 DEF TypedCall
  <2>3. o.count \in Nat
    BY <2>2, Word16Is
  <2> QED BY <2>2, <2>3, ValuesAre DEF Types
<1>2. CountOf(o) = WordsOfType(o.type) * o.count
      /\ (o.do = "read_words" => CountOf(o) = o.count)
  <2>1. CASE o.do = "read_words"
    <3>1. CountOf(o) = o.count
      BY <2>1 DEF CountOf
    <3>2. WordsOfType(o.type) = 1
      BY <1>1, <2>1 DEF WordsOfType
    <3> QED BY <1>1, <3>1, <3>2
  <2>2. CASE o.do = "read_words_as"
    BY <2>2 DEF CountOf
  <2> QED BY <2>1, <2>2
<1>3. o.sym \in {"D", "M"}
      /\ Area(o.sym, Memory!AddressOf(o), CountOf(o)) \subseteq DOMAIN m[o.sym]
  BY Zenon DEF WordsReplied
<1>4. o.do # "write_words_as" /\ o.do \notin {"read_bits", "write_bits"}
  OBVIOUS
<1>5. Memory!Range(o) = Area(o.sym, Memory!AddressOf(o), CountOf(o))
  <2> DEFINE n == CountOf(o)
  <2>1. n = WordsOfType(o.type)
            * (IF o.do = "write_words_as" THEN Len(o.values) ELSE o.count)
    BY <1>2, <1>4
  <2> HIDE DEF n
  <2>2. Memory!Range(o) = Area(o.sym, Memory!AddressOf(o), n)
    BY <1>1, <1>3, <1>4, <2>1, RangeOfWords
  <2> QED BY <2>2 DEF n
<1>6. DOMAIN m = {"D", "M"}
  BY DEF IsMemory
<1>7. Memory!Inside(m, o)
  BY <1>3, <1>4, <1>5, <1>6, Zenon DEF Memory!Inside
<1> QED BY <1>1, <1>2, <1>7

LEMMA WordsReturned ==
    ASSUME CommandsStandard, CallsFit, NEW o \in Ops, o.do = "read_words", NEW s,
           DataFor(o, s) # Failed, NEW m, IsMemory(m), NEW reply, Replied(o, m, reply),
           NEW d, FrontOf(d, reply), NEW r, r = ResultOf(o, d), r # Failed
    PROVE  Memory!Returns(o, m, r)
<1> DEFINE n == CountOf(o)
           a == Memory!AddressOf(o)
           ws == ReadBlock(o, reply)
<1>1. reply \in Seq(Byte) /\ WordsReplied(o, m, reply)
  BY DEF Replied
<1>2. /\ Len(reply) = BytesNeeded(ReadEntry(o).kind, n)
      /\ HasWords(ws, n, m, o.sym, a)
  BY <1>1, WordsOfRead
<1>3. n = o.count /\ Memory!Inside(m, o) /\ a \in Nat /\ n \in Nat
  BY <1>1, WordRange DEF WordsReplied
<1>4. OneRead(o, reply, r)
  <2>1. r = ParseResponse(CommandOf(o), ParamsOf(o), d)
    BY DEF ResultOf
  <2> QED BY <1>1, <1>2, <2>1, OneBlock DEF PointReads
<1> HIDE DEF n, a, ws
<1>5. r["data_blocks"] = <<ws>>
      /\ IF n = 1 /\ o.sym = "M" THEN r["bit_blocks"] = <<WordBits(ws[1])>>
         ELSE DOMAIN r = {"data_blocks"}
  BY <1>4 DEF OneRead, n, ws
<1>6. Memory!Holds(m, o.sym, a, "u16", ws) /\ Len(ws) = n
  BY <1>2, <1>3, WordsHeld DEF HasWords
<1>7. CASE n = 1 /\ o.sym = "M"
  <2>1. Len(WordBits(ws[1])) = 16 /\ Memory!HoldsBits(m, a, WordBits(ws[1]))
    BY <1>2, <1>3, <1>7, WordGivenAsBits
  <2>2. Memory!ReadWords(o, m, r)
    BY <1>3, <1>5, <1>6, <1>7, <2>1 DEF Memory!ReadWords, a
  <2> QED BY <1>3, <2>2 DEF Memory!Returns
<1>8. CASE ~(n = 1 /\ o.sym = "M")
  <2>1. Len(r["data_blocks"]) = 1 /\ r["data_blocks"][1] = ws /\ Len(ws) = o.count
    BY <1>3, <1>5, <1>6
  <2>2. ~(o.sym = "M" /\ o.count = 1) /\ DOMAIN r = {"data_blocks"}
    BY <1>3, <1>5, <1>8
  <2>3. Memory!ReadWords(o, m, r)
    BY <1>6, <2>1, <2>2, Zenon DEF Memory!ReadWords, a
  <2> QED BY <1>3, <2>3 DEF Memory!Returns
<1> QED BY <1>7, <1>8

\* The values of read_words_as.
LEMMA ValuesReturned ==
    ASSUME CommandsStandard, CallsFit, NEW o \in Ops, o.do = "read_words_as", NEW s,
           DataFor(o, s) # Failed, NEW m, IsMemory(m), NEW reply, Replied(o, m, reply),
           NEW d, FrontOf(d, reply), NEW r, r = ResultOf(o, d), r # Failed
    PROVE  Memory!Returns(o, m, r)
<1> DEFINE n == CountOf(o)
           a == Memory!AddressOf(o)
           ws == ReadBlock(o, reply)
           parsed == ParseResponse(CommandOf(o), ParamsOf(o), d)
           c == o.count
           type == o.type
<1>1. reply \in Seq(Byte) /\ WordsReplied(o, m, reply)
  BY DEF Replied
<1>2. /\ Len(reply) = BytesNeeded(ReadEntry(o).kind, n)
      /\ HasWords(ws, n, m, o.sym, a)
  BY <1>1, WordsOfRead
<1>3. /\ type \in Types /\ c \in Nat /\ n = WordsOfType(type) * c
      /\ Memory!Inside(m, o) /\ a \in Nat /\ n \in Nat
  BY <1>1, WordRange DEF WordsReplied
<1>4. parsed # Failed /\ r = Elements(o, FlattenSeq(parsed["data_blocks"]))
  <2> HIDE DEF parsed
  <2>1. r = IF parsed = Failed THEN Failed
            ELSE CASE o.do = "read_words_as" -> Elements(o, FlattenSeq(parsed.data_blocks))
                   [] o.do = "echo_spec" -> parsed.payload
                   [] OTHER -> parsed
    BY Zenon DEF ResultOf, parsed
  <2>2. parsed # Failed
    BY <2>1, Zenon
  <2> QED BY <2>1, <2>2, Zenon
<1>5. OneRead(o, reply, parsed)
  <2> DEFINE p == parsed
  <2>1. p = ParseResponse(CommandOf(o), ParamsOf(o), d) /\ p # Failed
    BY <1>4
  <2> HIDE DEF p
  <2>2. OneRead(o, reply, p)
    BY <1>1, <1>2, <2>1, OneBlock DEF PointReads
  <2> QED BY <2>2 DEF p
<1> HIDE DEF n, a, ws, parsed
<1>6. ws \in Seq(Word16) /\ Len(ws) = n
  BY <1>2 DEF HasWords
<1>7. FlattenSeq(parsed["data_blocks"]) = ws
  <2>1. parsed["data_blocks"] = <<ws>>
    BY <1>5 DEF OneRead, ws
  <2>2. FlattenSeq(<<ws>>) = ws
    BY <1>6, OnePart
  <2> QED BY <2>1, <2>2
<1>8. PICK w \in {1, 2} : WordsOfType(type) = w
  BY DEF WordsOfType
<1> HIDE DEF c, type
<1>9. Min({c, Len(ws) \div w}) = c
  <2>1. Len(ws) \div w = c
    <3>1. CASE w = 1
      BY <1>3, <1>6, <1>8, <3>1
    <3>2. CASE w = 2
      BY <1>3, <1>6, <1>8, <3>2
    <3> QED BY <3>1, <3>2
  <2>2. {c, Len(ws) \div w} = {c}
    BY <2>1
  <2>3. Min({c}) = c
    BY <1>3 DEF Min
  <2> QED BY <2>2, <2>3, Zenon
<1> DEFINE part(i) == SubSeq(ws, w * (i - 1) + 1, w * i)
<1>10. r = [i \in 1..c |-> FromWords(type, part(i))]
  <2>1. r = [i \in 1..Min({c, Len(ws) \div w}) |-> FromWords(type, part(i))]
    BY <1>4, <1>7, <1>8, Zenon DEF Elements, c, type
  <2> QED BY <1>9, <2>1
<1>11. ASSUME NEW i \in 1..c
       PROVE  \A q \in 1..w : part(i)[q] = ws[w * (i - 1) + q] /\ part(i)[q] \in Word16
  <2>1. w * (i - 1) \in Nat /\ w * i = w * (i - 1) + w /\ w * i <= n
    <3>1. CASE w = 1
      BY <1>3, <1>8, <3>1
    <3>2. CASE w = 2
      BY <1>3, <1>8, <3>2
    <3> QED BY <3>1, <3>2
  <2> DEFINE lo == w * (i - 1)
             hi == w * i
             t == part(i)
  <2>2. lo \in Nat /\ hi = lo + w /\ hi <= n
    BY <2>1
  <2>3. t = SubSeq(ws, lo + 1, hi)
    OBVIOUS
  <2> HIDE DEF lo, hi, t
  <2>4. \A q \in 1..w : t[q] = ws[lo + q] /\ t[q] \in Word16
    <3>1. \A j \in (lo + 1)..hi : ws[j] \in Word16
      BY <1>6, <2>2
    <3>2. /\ t \in Seq(Word16)
          /\ \A j \in 1..(hi - (lo + 1) + 1) : t[j] = ws[lo + 1 + j - 1]
      BY <2>2, <2>3, <3>1, SubSeqProperties
    <3>3. ASSUME NEW q \in 1..w PROVE t[q] = ws[lo + q] /\ t[q] \in Word16
      <4>1. q \in 1..(hi - (lo + 1) + 1) /\ lo + 1 + q - 1 = lo + q
            /\ lo + q \in (lo + 1)..hi
        BY <1>8, <2>2
      <4> QED BY <3>1, <3>2, <4>1
    <3> QED BY <3>3
  <2> QED BY <2>4 DEF t, lo
<1> HIDE DEF part
<1>12. Len(r) = c /\ \A i \in 1..c : r[i] = FromWords(type, part(i))
  BY <1>3, <1>10
<1>13. ASSUME NEW i \in 1..c
       PROVE  r[i] \in Memory!Values[type] /\ Carries(type, part(i), r[i])
  <2>1. \A j \in 1..WordsOfType(type) : part(i)[j] \in Word16
    BY <1>8, <1>11
  <2>2. /\ Carries(type, part(i), FromWords(type, part(i)))
        /\ FromWords(type, part(i)) \in Memory!Values[type]
    BY <1>3, <2>1, FromCarries
  <2> QED BY <1>12, <2>2
<1>14. Memory!Holds(m, o.sym, a, type, r)
  <2>1. Len(r) * WordsOfType(type) = n
    BY <1>3, <1>8, <1>12
  <2>2. SameBits(ws, Len(r) * WordsOfType(type), m, o.sym, a)
    BY <1>2, <2>1 DEF HasWords
  <2>3. ASSUME NEW i \in 1..Len(r)
        PROVE  \E p : /\ Carries(type, p, r[i])
                      /\ \A q \in 1..WordsOfType(type) :
                            p[q] = ws[WordsOfType(type) * (i - 1) + q]
    <3>1. i \in 1..c /\ WordsOfType(type) = w
      BY <1>8, <1>12
    <3>2. /\ Carries(type, part(i), r[i])
          /\ \A q \in 1..w : part(i)[q] = ws[w * (i - 1) + q]
      BY <1>11, <1>13, <3>1
    <3> QED BY <3>1, <3>2, Zenon
  <2>4. Len(r) \in Nat
    BY <1>3, <1>12
  <2>5. Carried(type, ws, r)
    BY <2>3 DEF Carried
  <2> QED BY <1>3, <2>2, <2>4, <2>5, HoldsWhen
<1>15. \A i \in 1..Len(r) : r[i] \in Memory!Values[type]
  BY <1>12, <1>13
<1> QED BY <1>3, <1>12, <1>14, <1>15, Zenon DEF Memory!Returns, a, c, type

\* The points of read_bits.
LEMMA BitsReturned ==
    ASSUME CommandsStandard, CallsFit, NEW o \in Ops, o.do = "read_bits", NEW s,
           DataFor(o, s) # Failed, NEW m, IsMemory(m), NEW reply, Replied(o, m, reply),
           NEW d, FrontOf(d, reply), NEW r, r = ResultOf(o, d), r # Failed
    PROVE  Memory!Returns(o, m, r)
<1> DEFINE n == CountOf(o)
           a == Memory!AddressOf(o)
           block == ReadBlock(o, reply)
<1>1. reply \in Seq(Byte) /\ PointsReplied(o, m, reply)
  BY DEF Replied
<1>2. /\ o.sym = "M" /\ n \in Nat /\ a \in Nat /\ a..(a + n - 1) \subseteq DOMAIN m["M"]
      /\ Len(reply) = (n + 1) \div 2
      /\ \A i \in 1..n : NibbleIn(reply, i) = m["M"][a + i - 1]
  BY <1>1 DEF PointsReplied, NibblesIn
<1>3. n = o.count
  BY DEF CountOf
<1>4. ReadEntry(o).kind = "nibbles"
  BY DEF ReadEntry, Entry
<1>5. Len(reply) = BytesNeeded(ReadEntry(o).kind, n)
  BY <1>2, <1>4 DEF BytesNeeded
<1>6. OneRead(o, reply, r)
  <2>1. r = ParseResponse(CommandOf(o), ParamsOf(o), d)
    BY DEF ResultOf
  <2> QED BY <1>1, <1>5, <2>1, OneBlock DEF PointReads
<1>7. block = [j \in 1..n |-> NibbleIn(reply, j)]
  BY <1>4 DEF ReadBlock, Decoded
<1> HIDE DEF n, a, block
<1>8. r["data_blocks"] = <<block>>
  BY <1>6 DEF OneRead, block
<1>9. Len(block) = n /\ \A i \in 1..n : block[i] = m["M"][a + i - 1]
  BY <1>2, <1>7
<1>10. Len(r["data_blocks"]) = 1 /\ r["data_blocks"][1] = block
  BY <1>8
<1>11. Memory!HoldsBits(m, a, block)
  BY <1>9 DEF Memory!HoldsBits
<1>12. Memory!Inside(m, o)
  <2>1. Memory!Range(o) = a..(a + n - 1)
    <3>1. n = IF o.do = "write_bits" THEN Len(o.values) ELSE o.count
      BY <1>3
    <3> QED BY <3>1, RangeOfBits DEF a
  <2>2. DOMAIN m = {"D", "M"}
    BY DEF IsMemory
  <2> QED BY <1>2, <2>1, <2>2, Zenon DEF Memory!Inside
<1>13. Len(block) = o.count
  BY <1>3, <1>9
<1> QED BY <1>10, <1>11, <1>12, <1>13, Zenon DEF Memory!Returns, a

(***************************************************************************)
(* The texts of echo.                                                      *)
(***************************************************************************)
LEMMA FrontIs ==
    ASSUME NEW d, NEW data \in Seq(Byte), FrontOf(d, data)
    PROVE  d = SubSeq(data, 1, Len(d)) /\ d = SubSeq(d, 1, Len(d))
<1> DEFINE n == Len(d)
           f == SubSeq(data, 1, n)
           g == SubSeq(d, 1, n)
<1>1. /\ d \in Seq(Byte) /\ n \in Nat /\ n <= Len(data)
      /\ \A i \in 1..n : d[i] = data[i]
  BY DEF FrontOf
<1>2. (\A i \in 1..n : data[i] \in Byte) /\ (\A i \in 1..n : d[i] \in Byte)
  BY <1>1
<1>3. n - 1 + 1 = n /\ (\A i \in 1..n : 1 + i - 1 = i)
      /\ (IF 1 <= n THEN n - 1 + 1 ELSE 0) = n
  BY <1>1
<1>4. f \in Seq(Byte) /\ Len(f) = n /\ \A i \in 1..n : f[i] = data[i]
  <2> HIDE DEF n
  <2>1. /\ f \in Seq(Byte) /\ Len(f) = IF 1 <= n THEN n - 1 + 1 ELSE 0
        /\ \A i \in 1..(n - 1 + 1) : f[i] = data[1 + i - 1]
    BY <1>1, <1>2, SubSeqProperties
  <2> QED BY <1>3, <2>1
<1>5. g \in Seq(Byte) /\ Len(g) = n /\ \A i \in 1..n : g[i] = d[i]
  <2> HIDE DEF n
  <2>1. /\ g \in Seq(Byte) /\ Len(g) = IF 1 <= n THEN n - 1 + 1 ELSE 0
        /\ \A i \in 1..(n - 1 + 1) : g[i] = d[1 + i - 1]
    BY <1>1, <1>2, SubSeqProperties
  <2> QED BY <1>3, <2>1
<1> HIDE DEF f, g
<1>6. d = f
  BY <1>1, <1>4
<1>7. d = g
  BY <1>1, <1>5
<1> QED BY <1>6, <1>7 DEF f, g

LEMMA TextAsked ==
    ASSUME NEW spec, NEW e, spec.entries = <<e>>, e.kind = "text", NEW params
    PROVE  Asked(spec, params) = <<[entry |-> e, block |-> NoKeys]>>
<1> DEFINE part(f) == IF f.kind = "text" THEN <<[entry |-> f, block |-> NoKeys]>>
                      ELSE [j \in 1..Len(Blocks(params, f.name)) |->
                                [entry |-> f, block |-> Blocks(params, f.name)[j]]]
           t == [i \in 1..Len(spec.entries) |-> part(spec.entries[i])]
           a == [entry |-> e, block |-> NoKeys]
<1>1. Asked(spec, params) = FlattenSeq(t)
  BY Zenon DEF Asked
<1>2. part(e) = <<a>>
  BY Zenon
<1> HIDE DEF part, a
<1>3. Len(spec.entries) = 1 /\ spec.entries[1] = e
  OBVIOUS
<1>4. t = [i \in 1..1 |-> t[i]] /\ t[1] = <<a>>
  BY <1>2, <1>3
<1>5. t = <<<<a>>>>
  BY <1>4
<1> HIDE DEF t
<1>6. FlattenSeq(<<<<a>>>>) = <<a>>
  <2>1. <<a>> \in Seq({a})
    OBVIOUS
  <2> QED BY <2>1, OnePart
<1> QED BY <1>1, <1>5, <1>6 DEF a

LEMMA TextOffset ==
    ASSUME NEW asked, Len(asked) = 1, asked[1].entry.kind = "text", NEW len
    PROVE  Offsets(asked, len)[1] = 0
<1> DEFINE eq(h) == [i \in 1..(Len(asked) + 1) |->
                        IF i = 1 THEN 0
                        ELSE IF asked[i - 1].entry.kind = "text" THEN len
                        ELSE h[i - 1] + BytesNeeded(asked[i - 1].entry.kind,
                                                    asked[i - 1].block.count)]
           f == CHOOSE h : h = eq(h)
           g == [i \in 1..2 |-> IF i = 1 THEN 0 ELSE len]
<1>1. Offsets(asked, len) = f
  BY ZenonT(50), SMTT(30) DEF Offsets
<1>2. g = eq(g)
  <2> DEFINE next(i) == IF i = 1 THEN 0
                        ELSE IF asked[i - 1].entry.kind = "text" THEN len
                        ELSE g[i - 1] + BytesNeeded(asked[i - 1].entry.kind,
                                                    asked[i - 1].block.count)
  <2>1. ASSUME NEW i \in 1..2 PROVE next(i) = IF i = 1 THEN 0 ELSE len
    <3>1. CASE i = 1
      BY <3>1
    <3>2. CASE i = 2
      <4>1. i - 1 = 1 /\ i # 1
        BY <3>2
      <4> QED BY <4>1, Zenon
    <3> QED BY <3>1, <3>2
  <2> HIDE DEF next
  <2>2. Len(asked) + 1 = 2
    OBVIOUS
  <2>3. g = [i \in 1..2 |-> next(i)]
    BY <2>1
  <2> HIDE DEF g
  <2> QED BY <2>2, <2>3, Zenon DEF next
<1> HIDE DEF eq, g
<1>3. f = eq(f)
  BY ZenonT(50), <1>2
<1> HIDE DEF f
<1>4. f = [i \in 1..2 |-> f[i]] /\ f[1] = 0
  <2> DEFINE next(i) == IF i = 1 THEN 0
                        ELSE IF asked[i - 1].entry.kind = "text" THEN len
                        ELSE f[i - 1] + BytesNeeded(asked[i - 1].entry.kind,
                                                    asked[i - 1].block.count)
  <2>1. f = [i \in 1..(Len(asked) + 1) |-> next(i)]
    BY <1>3, Zenon DEF eq
  <2>2. next(1) = 0
    OBVIOUS
  <2> HIDE DEF next
  <2> QED BY <2>1, <2>2
<1> QED BY <1>1, <1>4

TextEntry == Entry("payload", "text", TRUE)

LEMMA TextParsed ==
    ASSUME NEW spec, spec.entries = <<TextEntry>>, NEW params, NEW d, d \in Seq(Byte),
           NEW r, r = ParseResponse(spec, params, d), r # Failed
    PROVE  r["payload"] = SubSeq(d, 1, Len(d))
<1> DEFINE a == [entry |-> TextEntry, block |-> NoKeys]
           asked == Asked(spec, params)
           offset == Offsets(asked, Len(d))
           text(i) == SubSeq(d, offset[i] + 1, Len(d))
           block(i) == Decode(asked[i].entry.kind, asked[i].entry.lowFirst, d, offset[i],
                              asked[i].block.count)
           blocks(chosen) == [k \in 1..Len(chosen) |-> block(chosen[k])]
           asBits == blocks(InOrder({i \in 1..Len(asked) : GivenAsBits(asked[i], params)},
                                    Len(asked)))
           named(name) == {i \in 1..Len(asked) : asked[i].entry.name = name}
           texts == {i \in 1..Len(asked) : asked[i].entry.kind = "text"}
           kinds == {e.name : e \in {f \in ToSet(spec.entries) : f.kind # "text"}}
           bad == \/ \E i \in (1..Len(asked)) \ texts : "count" \notin DOMAIN asked[i].block
                  \/ \E i \in 1..Len(asked) : offset[i + 1] > Len(d)
                  \/ \E i \in texts : ~(ToSet(text(i)) \subseteq HexDigits)
           first == [name \in kinds |-> blocks(InOrder(named(name), Len(asked)))]
           second == [name \in {asked[i].entry.name : i \in texts} |->
                         text(CHOOSE i \in texts : asked[i].entry.name = name)]
           extra == IF asBits = << >> THEN NoKeys
                    ELSE [bit_blocks |-> [k \in 1..Len(asBits) |-> WordBits(asBits[k][1])]]
<1>1. r = IF bad THEN Failed ELSE With(With(first, second), extra)
  BY Zenon DEF ParseResponse
<1>2. r = With(With(first, second), extra)
  <2> HIDE DEF bad, first, second, extra
  <2> QED BY <1>1
<1>3. TextEntry.kind = "text" /\ TextEntry.name = "payload"
  BY DEF TextEntry, Entry
<1>4. asked = <<a>>
  BY <1>3, TextAsked
<1>5. kinds = {} /\ DOMAIN first = {}
  <2>1. ToSet(spec.entries) = {TextEntry}
    BY DEF ToSet
  <2>2. kinds = {}
    BY <1>3, <2>1
  <2> HIDE DEF kinds, blocks, named
  <2> QED BY <2>2
<1>6. offset[1] = 0
  <2>1. Len(asked) = 1 /\ asked[1].entry.kind = "text"
    BY <1>3, <1>4
  <2> HIDE DEF asked
  <2> QED BY <2>1, TextOffset
<1> HIDE DEF asked, offset, first, extra
<1>7. texts = {1}
  BY <1>3, <1>4
<1>8. "payload" \in DOMAIN second /\ second["payload"] = SubSeq(d, 1, Len(d))
  <2> DEFINE names == {asked[i].entry.name : i \in texts}
  <2>1. asked[1].entry.name = "payload"
    BY <1>3, <1>4
  <2> HIDE DEF texts
  <2>2. names = {"payload"}
    BY <1>7, <2>1
  <2> DEFINE k == CHOOSE i \in texts : asked[i].entry.name = "payload"
  <2>3. k = 1
    BY <1>7, <2>1
  <2> HIDE DEF names, text
  <2>4. second = [name \in names |-> text(CHOOSE i \in texts : asked[i].entry.name = name)]
    BY DEF names
  <2>5. DOMAIN second = names /\ ("payload" \in names => second["payload"] = text(k))
    BY <2>4
  <2> HIDE DEF second, k
  <2>6. text(1) = SubSeq(d, 1, Len(d))
    BY <1>6 DEF text
  <2> QED BY <2>2, <2>3, <2>5, <2>6
<1> HIDE DEF second
<1> DEFINE w == With(first, second)
<1>9. IsWith(w, first, second)
  BY WithIs
<1> HIDE DEF w
<1>10. "payload" \in DOMAIN w /\ w["payload"] = second["payload"]
  BY <1>5, <1>8, <1>9 DEF IsWith
<1>11. r = With(w, extra)
  BY <1>2 DEF w
<1>12. IsWith(r, w, extra)
  BY <1>11, WithIs
<1>13. r["payload"] = w["payload"]
  BY <1>10, <1>12 DEF IsWith
<1> QED BY <1>8, <1>10, <1>13

LEMMA EchoReturned ==
    ASSUME CommandsStandard, NEW o \in Ops, o.do \in {"echo", "echo_spec"},
           NEW m, NEW reply, Replied(o, m, reply),
           NEW d, FrontOf(d, reply), NEW r, r = ResultOf(o, d), r # Failed
    PROVE  Memory!Returns(o, m, r)
<1>1. reply \in Seq(Byte) /\ reply = o.values
  BY DEF Replied
<1>2. d = SubSeq(o.values, 1, Len(d)) /\ d = SubSeq(d, 1, Len(d))
  BY <1>1, FrontIs, Zenon
<1>3. Len(d) <= Len(o.values) /\ d \in Seq(Byte)
  BY <1>1 DEF FrontOf
<1>4. r = d
  <2>1. CASE o.do = "echo"
    BY <2>1 DEF ResultOf
  <2>2. CASE o.do = "echo_spec"
    <3> DEFINE spec == CommandOf(o)
               params == ParamsOf(o)
               parsed == ParseResponse(spec, params, d)
    <3>1. spec.entries = <<TextEntry>>
      <4>1. o.do # "echo" /\ CommandId(o) = "echo"
        BY <2>2 DEF CommandId
      <4>2. Follows(spec, Layouts["echo"])
        BY <4>1, StandardCommand
      <4>3. Layouts["echo"].entries = <<TextEntry>>
        BY DEF Layouts, Layout, TextEntry
      <4> QED BY <4>2, <4>3 DEF Follows
    <3> HIDE DEF parsed
    <3>2. r = IF parsed = Failed THEN Failed
              ELSE CASE o.do = "read_words_as" -> Elements(o, FlattenSeq(parsed.data_blocks))
                     [] o.do = "echo_spec" -> parsed.payload
                     [] OTHER -> parsed
      <4>1. o.do # "echo"
        BY <2>2
      <4> QED BY <4>1, Zenon DEF ResultOf, parsed, spec, params
    <3>3. parsed # Failed
      BY <3>2, Zenon
    <3>4. r = parsed["payload"]
      <4>1. o.do # "read_words_as"
        BY <2>2
      <4> QED BY <2>2, <3>2, <3>3, <4>1, Zenon
    <3>5. parsed = ParseResponse(spec, params, d)
      BY DEF parsed
    <3> HIDE DEF spec, params
    <3>6. parsed["payload"] = SubSeq(d, 1, Len(d))
      BY <1>3, <3>1, <3>3, <3>5, TextParsed
    <3> QED BY <1>2, <3>4, <3>6, Zenon
  <2> QED BY <2>1, <2>2
<1>5. Len(r) <= Len(o.values) /\ r = SubSeq(o.values, 1, Len(r))
  BY <1>2, <1>3, <1>4
<1> QED BY <1>5 DEF Memory!Returns

(***************************************************************************)
(* The blocks of read_blocks.                                              *)
(***************************************************************************)
WordEntry == Entry("word_blocks", "words", TRUE)
BitEntry == Entry("bit_blocks", "bits", TRUE)

\* The blocks of words, and behind them those of bits.
AsksFor(asked, words, bits) ==
    /\ Len(asked) = Len(words) + Len(bits)
    /\ \A i \in 1..Len(words) : asked[i] = [entry |-> WordEntry, block |-> words[i]]
    /\ \A i \in 1..Len(bits) :
           asked[Len(words) + i] = [entry |-> BitEntry, block |-> bits[i]]

LEMMA BlocksAsked ==
    ASSUME NEW spec, spec.entries = <<WordEntry, BitEntry>>,
           NEW words, Len(words) \in Nat, NEW bits, Len(bits) \in Nat
    PROVE  AsksFor(Asked(spec, [word_blocks |-> words, bit_blocks |-> bits]), words, bits)
<1> DEFINE params == [word_blocks |-> words, bit_blocks |-> bits]
           part(e) == IF e.kind = "text" THEN <<[entry |-> e, block |-> NoKeys]>>
                      ELSE [j \in 1..Len(Blocks(params, e.name)) |->
                                [entry |-> e, block |-> Blocks(params, e.name)[j]]]
           t == [i \in 1..Len(spec.entries) |-> part(spec.entries[i])]
           nw == Len(words)
           nb == Len(bits)
           a == [j \in 1..nw |-> [entry |-> WordEntry, block |-> words[j]]]
           b == [j \in 1..nb |-> [entry |-> BitEntry, block |-> bits[j]]]
           S == {a[j] : j \in 1..nw} \cup {b[j] : j \in 1..nb}
           c == FlattenSeq(t)
<1>1. Asked(spec, params) = c
  BY Zenon DEF Asked
<1>2. /\ WordEntry.kind # "text" /\ WordEntry.name = "word_blocks"
      /\ BitEntry.kind # "text" /\ BitEntry.name = "bit_blocks"
  BY DEF WordEntry, BitEntry, Entry
<1>3. Blocks(params, "word_blocks") = words /\ Blocks(params, "bit_blocks") = bits
  BY DEF Blocks, Get
<1> HIDE DEF params
<1>4. part(WordEntry) = a
  BY <1>2, <1>3, Zenon
<1>5. part(BitEntry) = b
  BY <1>2, <1>3, Zenon
<1> HIDE DEF part
<1>6. Len(spec.entries) = 2 /\ spec.entries[1] = WordEntry /\ spec.entries[2] = BitEntry
  OBVIOUS
<1>7. t = [i \in 1..2 |-> t[i]] /\ t[1] = a /\ t[2] = b
  <2> HIDE DEF a, b
  <2>1. t = [i \in 1..2 |-> part(spec.entries[i])]
    BY <1>6
  <2> HIDE DEF t
  <2>2. t = [i \in 1..2 |-> t[i]] /\ t[1] = part(WordEntry) /\ t[2] = part(BitEntry)
    BY <1>6, <2>1
  <2> QED BY <1>4, <1>5, <2>2
<1>8. /\ DOMAIN a = 1..nw /\ \A j \in 1..nw : a[j] = [entry |-> WordEntry, block |-> words[j]]
      /\ DOMAIN b = 1..nb /\ \A j \in 1..nb : b[j] = [entry |-> BitEntry, block |-> bits[j]]
  OBVIOUS
<1>9. a = [j \in 1..nw |-> a[j]] /\ b = [j \in 1..nb |-> b[j]]
  OBVIOUS
<1> HIDE DEF a, b, t
<1>10. /\ \A j \in 1..nw : a[j] \in S
       /\ \A j \in 1..nb : b[j] \in S
  OBVIOUS
<1> HIDE DEF S
<1>11. a \in Seq(S) /\ Len(a) = nw
  BY <1>9, <1>10
<1>12. b \in Seq(S) /\ Len(b) = nb
  BY <1>9, <1>10
<1>13. Parts(t, 2, S)
  BY <1>7, <1>11, <1>12 DEF Parts
<1> HIDE DEF c
<1>14. IsJoin(c, a, b)
  <2>1. IsJoin(FlattenSeq(t), t[1], t[2])
    BY <1>13, TwoParts
  <2> QED BY <1>7, <2>1 DEF c
<1> HIDE DEF nw, nb
<1>15. /\ Len(c) = nw + nb
       /\ \A i \in 1..nw : c[i] = a[i]
       /\ \A i \in 1..nb : c[nw + i] = b[i]
  BY <1>11, <1>12, <1>14 DEF IsJoin
<1>16. AsksFor(c, words, bits)
  BY <1>8, <1>15 DEF AsksFor, nw, nb
<1> QED BY <1>1, <1>16 DEF params

\* A block that was asked for, out of the front of the answer.
LEMMA BlockFound ==
    ASSUME NEW spec, NEW params, NEW asked, NEW d, NEW r, ParsedAs(spec, params, asked, d, r),
           NEW n \in Nat, Len(asked) = n, NoText(asked, n),
           NEW t, Parts(t, n, Byte), Lengths(asked, t, n), FrontOf(d, FlattenSeq(t)),
           NEW i \in 1..n, NEW kind \in {"words", "bits", "nibbles"},
           asked[i].entry.kind = kind, asked[i].entry.lowFirst = (kind # "nibbles"),
           NEW c \in Nat, asked[i].block.count = c
    PROVE  BlockAt(asked, d, i) = [j \in 1..c |-> Decoded(kind, t[i], j)]
<1> DEFINE at == Offsets(asked, Len(d))
           low == kind # "nibbles"
<1>1. Starts(at, t, n)
  BY OffsetsAre
<1>2. ~(at[i + 1] > Len(d))
  <2>1. \A k \in 1..Len(asked) : ~(Offsets(asked, Len(d))[k + 1] > Len(d))
    BY Zenon DEF ParsedAs
  <2> QED BY <2>1
<1> HIDE DEF at
<1>3. at[i] \in Nat /\ \A q \in 1..Len(t[i]) : d[at[i] + q] = t[i][q]
  BY <1>1, <1>2, PartFound, SMTT(40)
<1>4. Len(t[i]) = BytesNeeded(kind, c)
  BY DEF Lengths, NeededBy
<1>5. low \in BOOLEAN /\ (low <=> kind # "nibbles")
  OBVIOUS
<1> HIDE DEF low
<1>6. Decode(kind, low, d, at[i], c) = [j \in 1..c |-> Decoded(kind, t[i], j)]
  BY SMTT(20), <1>3, <1>4, <1>5, DecodeIs
<1>7. BlockAt(asked, d, i) = Decode(kind, low, d, at[i], c)
  BY Zenon DEF BlockAt, at, low
<1> QED BY <1>6, <1>7

\* The bits of a block.
LEMMA BitsBlock ==
    ASSUME NEW part, NEW n \in Nat, NEW m, NEW a, BitsIn(part, n, m, a),
           NEW bits, bits = [j \in 1..n |-> Decoded("bits", part, j)]
    PROVE  Len(bits) = n /\ Memory!HoldsBits(m, a, bits)
<1>1. ASSUME NEW j \in 1..n PROVE bits[j] = m["M"][a + j - 1]
  <2>1. Decoded("bits", part, j) = BitIn(part, j)
    BY DEF Decoded
  <2> QED BY <2>1 DEF BitsIn
<1>2. Len(bits) = n
  OBVIOUS
<1> QED BY <1>1, <1>2 DEF Memory!HoldsBits

\* All blocks of a kind, one after the other.
LEMMA BlocksNamed ==
    ASSUME NEW spec, NEW params, NEW asked, NEW d, NEW r, ParsedAs(spec, params, asked, d, r),
           NEW name \in KindsOf(spec), NEW n \in Nat, Len(asked) = n,
           NEW first \in Nat, NEW m \in Nat, first + m <= n,
           Spans(NamedAs(asked, name), n, first + 1, first + m)
    PROVE  r[name] = [k \in 1..m |-> BlockAt(asked, d, first + k)]
<1> DEFINE S == NamedAs(asked, name)
           lo == first + 1
           hi == first + m
           run == Run(lo, m)
<1>1. Spans(S, n, lo, hi)
  OBVIOUS
<1>2. InOrder(S, n) = run
  <2>1. lo \in Nat \ {0} /\ hi \in Nat /\ lo <= hi + 1 /\ hi <= n /\ hi - lo + 1 = m
    OBVIOUS
  <2> HIDE DEF lo, hi, S
  <2>2. InOrder(S, n) = Run(lo, hi - lo + 1)
    BY <1>1, <2>1, InOrderRun
  <2> QED BY <2>1, <2>2
<1>3. r[name] = BlocksAt(asked, d, InOrder(S, n))
  <2>1. \A x \in KindsOf(spec) :
           r[x] = BlocksAt(asked, d, InOrder(NamedAs(asked, x), Len(asked)))
    BY Zenon DEF ParsedAs
  <2> QED BY <2>1
<1>4. Len(run) = m /\ \A k \in 1..m : run[k] = first + k
  BY DEF Run
<1> HIDE DEF run, S
<1>5. r[name] = [k \in 1..m |-> BlockAt(asked, d, run[k])]
  <2>1. r[name] = BlocksAt(asked, d, run)
    BY <1>2, <1>3
  <2>2. BlocksAt(asked, d, run) = [k \in 1..Len(run) |-> BlockAt(asked, d, run[k])]
    BY Zenon DEF BlocksAt
  <2> QED BY <1>4, <2>1, <2>2, Zenon
<1> QED BY <1>4, <1>5

LEMMA BlocksReturned ==
    ASSUME CommandsStandard, CallsFit, NEW o \in Ops, o.do = "read_blocks", NEW s,
           DataFor(o, s) # Failed, NEW m, IsMemory(m), NEW reply, Replied(o, m, reply),
           NEW d, FrontOf(d, reply), NEW r, r = ResultOf(o, d), r # Failed
    PROVE  Memory!Returns(o, m, r)
<1> DEFINE nw == Len(o.words)
           nb == Len(o.bits)
           n == nw + nb
           spec == CommandOf(o)
           params == [word_blocks |-> o.words, bit_blocks |-> o.bits]
           asked == Asked(spec, params)
<1>1. nw \in Nat /\ nb \in Nat /\ n \in Nat
  <2>1. nw \in Nat /\ nb \in Nat
    BY Zenon DEF Replied, BlocksReplied
  <2> HIDE DEF nw, nb
  <2> QED BY <2>1
<1>2. PICK t : Parts(t, n, Byte) /\ reply = FlattenSeq(t) /\ BlockParts(o, m, t)
  BY Zenon DEF Replied, BlocksReplied
<1>3. spec.entries = <<WordEntry, BitEntry>>
  BY BlocksCommand DEF WordEntry, BitEntry
<1>4. r = ParseResponse(spec, params, d)
  <2>1. ParamsOf(o) = params
    <3>1. o.do \notin {"read_words", "read_words_as", "read_bits", "write_words_as",
                       "write_bits", "echo_spec"}
      OBVIOUS
    <3> QED BY <3>1 DEF ParamsOf
  <2>2. o.do # "echo" /\ o.do # "read_words_as" /\ o.do # "echo_spec"
    OBVIOUS
  <2> DEFINE parsed == ParseResponse(spec, ParamsOf(o), d)
  <2> HIDE DEF parsed
  <2>3. r = IF parsed = Failed THEN Failed
            ELSE CASE o.do = "read_words_as" -> Elements(o, FlattenSeq(parsed.data_blocks))
                   [] o.do = "echo_spec" -> parsed.payload
                   [] OTHER -> parsed
    BY <2>2, Zenon DEF ResultOf, parsed
  <2>4. r = parsed
    BY <2>2, <2>3, Zenon
  <2> QED BY <2>1, <2>4 DEF parsed
<1>5. AsksFor(asked, o.words, o.bits)
  BY <1>1, <1>3, BlocksAsked
<1> HIDE DEF asked, spec, params
<1>6. /\ Len(asked) = n
      /\ \A i \in 1..nw : asked[i] = [entry |-> WordEntry, block |-> o.words[i]]
      /\ \A i \in 1..nb : asked[nw + i] = [entry |-> BitEntry, block |-> o.bits[i]]
  BY <1>5 DEF AsksFor
<1>7. /\ WordEntry.name = "word_blocks" /\ WordEntry.kind = "words" /\ WordEntry.lowFirst = TRUE
      /\ BitEntry.name = "bit_blocks" /\ BitEntry.kind = "bits" /\ BitEntry.lowFirst = TRUE
  BY DEF WordEntry, BitEntry, Entry
<1>8. ASSUME NEW i \in 1..nw
      PROVE  /\ BlockOf(o.words[i], "D")
             /\ Area("D", o.words[i].start_addr, o.words[i].count) \subseteq DOMAIN m["D"]
             /\ WordsIn(t[i], o.words[i].count, m, "D", o.words[i].start_addr)
             /\ o.words[i].start_addr \in Nat /\ o.words[i].count \in Nat
  BY <1>2 DEF BlockParts, BlockOf, NamesPoints
<1>9. ASSUME NEW i \in 1..nb
      PROVE  /\ BlockOf(o.bits[i], "M")
             /\ BitsIn(t[nw + i], o.bits[i].count, m, o.bits[i].start_addr)
             /\ o.bits[i].start_addr \in Nat /\ o.bits[i].count \in Nat
  BY <1>2 DEF BlockParts, BlockOf, NamesPoints
<1> HIDE DEF nw, nb
<1>10. ASSUME NEW i \in 1..nw
       PROVE  /\ asked[i].entry = WordEntry /\ asked[i].block.count = o.words[i].count
              /\ Len(t[i]) = NeededBy(asked[i])
  <2>1. asked[i].entry = WordEntry /\ asked[i].block.count = o.words[i].count
    <3>1. asked[i] = [entry |-> WordEntry, block |-> o.words[i]]
      BY <1>6
    <3> QED BY <3>1
  <2>2. NeededBy(asked[i]) = BytesNeeded("words", o.words[i].count)
    BY <1>7, <2>1, Zenon DEF NeededBy
  <2>3. Len(t[i]) = 2 * o.words[i].count
    BY <1>8 DEF WordsIn
  <2> QED BY <2>1, <2>2, <2>3 DEF BytesNeeded
<1>11. ASSUME NEW i \in 1..nb
       PROVE  /\ asked[nw + i].entry = BitEntry /\ asked[nw + i].block.count = o.bits[i].count
              /\ Len(t[nw + i]) = NeededBy(asked[nw + i])
  <2>1. asked[nw + i].entry = BitEntry /\ asked[nw + i].block.count = o.bits[i].count
    <3>1. asked[nw + i] = [entry |-> BitEntry, block |-> o.bits[i]]
      BY <1>6
    <3> QED BY <3>1
  <2>2. NeededBy(asked[nw + i]) = BytesNeeded("bits", o.bits[i].count)
    BY <1>7, <2>1, Zenon DEF NeededBy
  <2>3. Len(t[nw + i]) = (o.bits[i].count + 7) \div 8
    BY <1>9 DEF BitsIn
  <2> QED BY <2>1, <2>2, <2>3 DEF BytesNeeded
<1>12. ASSUME NEW i \in 1..n
       PROVE  /\ asked[i].entry.kind # "text" /\ Len(t[i]) = NeededBy(asked[i])
              /\ asked[i].entry.name = IF i <= nw THEN "word_blocks" ELSE "bit_blocks"
  <2>1. CASE i \in 1..nw
    BY <1>1, <1>7, <1>10, <2>1
  <2>2. CASE i \notin 1..nw
    <3>1. PICK k \in 1..nb : nw + k = i
      <4>1. i - nw \in 1..nb /\ nw + (i - nw) = i
        BY <1>1, <2>2
      <4> QED BY <4>1
    <3>2. ~(i <= nw)
      BY <1>1, <3>1
    <3>3. asked[i].entry = BitEntry /\ Len(t[i]) = NeededBy(asked[i])
      BY <1>11, <3>1
    <3> QED BY <1>7, <3>2, <3>3
  <2> QED BY <2>1, <2>2
<1>13. NoText(asked, n) /\ NoText(asked, Len(asked)) /\ Lengths(asked, t, n)
  BY <1>6, <1>12 DEF NoText, Lengths
<1>14. ParsedAs(spec, params, asked, d, r)
  BY <1>4, <1>13, ParsedBlocks DEF asked
<1>15. KindsOf(spec) = {"word_blocks", "bit_blocks"}
  <2>1. ToSet(spec.entries) = {WordEntry, BitEntry}
    BY <1>3 DEF ToSet
  <2> QED BY <1>7, <2>1 DEF KindsOf
<1>16. FrontOf(d, FlattenSeq(t))
  BY <1>2
<1>17. r["word_blocks"] = [k \in 1..nw |-> BlockAt(asked, d, 0 + k)]
  <2> DEFINE none == 0
  <2>1. Spans(NamedAs(asked, "word_blocks"), n, none + 1, none + nw)
    BY <1>1, <1>6, <1>12 DEF Spans, NamedAs
  <2>2. none \in Nat /\ none + nw <= n /\ "word_blocks" \in KindsOf(spec)
    BY <1>1, <1>15
  <2> HIDE DEF none
  <2>3. r["word_blocks"] = [k \in 1..nw |-> BlockAt(asked, d, none + k)]
    BY <1>1, <1>6, <1>14, <2>1, <2>2, BlocksNamed
  <2> QED BY <2>3, Zenon DEF none
<1>18. r["bit_blocks"] = [k \in 1..nb |-> BlockAt(asked, d, nw + k)]
  <2>1. Spans(NamedAs(asked, "bit_blocks"), n, nw + 1, nw + nb)
    BY <1>1, <1>6, <1>12 DEF Spans, NamedAs
  <2>2. nw + nb <= n /\ "bit_blocks" \in KindsOf(spec)
    BY <1>1, <1>15
  <2> QED BY <1>1, <1>6, <1>14, <2>1, <2>2, BlocksNamed
<1>19. ASSUME NEW i \in 1..nw
       PROVE  /\ Len(r["word_blocks"][i]) = o.words[i].count
              /\ Memory!Holds(m, "D", o.words[i].start_addr, "u16", r["word_blocks"][i])
  <2> DEFINE c == o.words[i].count
             a == o.words[i].start_addr
             ws == [j \in 1..c |-> Decoded("words", t[i], j)]
  <2>1. i \in 1..n /\ 0 + i = i
    BY <1>1
  <2>2. c \in Nat /\ a \in Nat
    BY <1>8
  <2>3. asked[i].entry.kind = "words" /\ asked[i].entry.lowFirst = ("words" # "nibbles")
        /\ asked[i].block.count = c
    BY <1>7, <1>10
  <2> HIDE DEF c, a
  <2>4. BlockAt(asked, d, i) = ws
    BY <1>1, <1>2, <1>6, <1>13, <1>14, <1>16, <2>1, <2>2, <2>3, BlockFound
  <2>5. r["word_blocks"][i] = ws
    BY <1>17, <2>1, <2>4
  <2>6. HasWords(ws, c, m, "D", a)
    BY <1>8, <2>2, WordsBack DEF c, a
  <2> HIDE DEF ws
  <2>7. Memory!Holds(m, "D", a, "u16", ws) /\ Len(ws) = c
    BY <2>2, <2>6, WordsHeld DEF HasWords
  <2> QED BY <2>5, <2>7 DEF c, a
<1>20. ASSUME NEW i \in 1..nb
       PROVE  /\ Len(r["bit_blocks"][i]) = o.bits[i].count
              /\ Memory!HoldsBits(m, o.bits[i].start_addr, r["bit_blocks"][i])
  <2> DEFINE c == o.bits[i].count
             a == o.bits[i].start_addr
             k == nw + i
             part == t[k]
             bits == [j \in 1..c |-> Decoded("bits", t[k], j)]
  <2>1. k \in 1..n
    BY <1>1
  <2>2. c \in Nat /\ BitsIn(t[k], c, m, a)
    BY <1>9
  <2>3. asked[k].entry.kind = "bits" /\ asked[k].entry.lowFirst = ("bits" # "nibbles")
        /\ asked[k].block.count = c
    BY <1>7, <1>11
  <2>4. r["bit_blocks"][i] = BlockAt(asked, d, k)
    BY <1>18
  <2> HIDE DEF c, a, k
  <2>5. BlockAt(asked, d, k) = bits
    BY <1>1, <1>2, <1>6, <1>13, <1>14, <1>16, <2>1, <2>2, <2>3, BlockFound
  <2>6. Len(bits) = c /\ Memory!HoldsBits(m, a, bits)
    BY <2>2, BitsBlock
  <2> QED BY <2>4, <2>5, <2>6 DEF c, a
<1>21. Len(r["word_blocks"]) = nw /\ Len(r["bit_blocks"]) = nb
  BY <1>1, <1>17, <1>18
<1>22. Memory!ReadBlocks(o, m, r)
  BY <1>19, <1>20, <1>21, Zenon DEF Memory!ReadBlocks, nw, nb
<1> QED BY <1>22 DEF Memory!Returns

(***************************************************************************)
(* The whole call.                                                         *)
(***************************************************************************)

\* Whatever succeeds returns what the memory holds.
LEMMA AnswerReturned ==
    ASSUME CommandsStandard, CallsFit, NEW o \in Ops, NEW s, DataFor(o, s) # Failed,
           NEW m, IsMemory(m), NEW reply, Replied(o, m, reply), NEW d, FrontOf(d, reply),
           NEW r, r = ResultOf(o, d), r # Failed
    PROVE  Memory!Returns(o, m, r)
<1>1. CASE o.do = "read_words"
  BY <1>1, WordsReturned
<1>2. CASE o.do = "read_words_as"
  BY <1>2, ValuesReturned
<1>3. CASE o.do = "read_bits"
  BY <1>3, BitsReturned
<1>4. CASE o.do = "read_blocks"
  BY <1>4, BlocksReturned
<1>5. CASE o.do \in {"echo", "echo_spec"}
  BY <1>5, EchoReturned
<1>6. CASE o.do \in PointWrites
  <2>1. r = << >>
    BY <1>6, WriteReturns
  <2>2. o.do \notin {"read_words", "read_words_as", "read_bits", "read_blocks",
                     "echo", "echo_spec"}
    BY <1>6 DEF PointWrites
  <2> QED BY <2>1, <2>2, Zenon DEF Memory!Returns
<1>7. o.do \in {"read_words", "read_words_as", "read_bits", "read_blocks", "echo",
                "echo_spec"} \cup PointWrites
  BY DEF CallsFit, PointWrites
<1> QED BY <1>1, <1>2, <1>3, <1>4, <1>5, <1>6, <1>7

\* An answer is the whole or the front of what the PLC has replied to the call,
\* or of an end code.
AnswerFits ==
    /\ DataFor(op, series) # Failed
    /\ IF acted
       THEN \E reply : Replied(op, mem, reply) /\ CutAnswer(answer, 0, reply)
       ELSE CutAnswer(answer, BusyCode, << >>)

MemInv == AccessInv /\ (pc = "answered" => AnswerFits)

\* What Execute does is what the call asks for.
LEMMA ExecuteIs ==
    ASSUME AccessInv, Execute, CommandsStandard, CallsFit
    PROVE  /\ DataFor(op, series) # Failed
           /\ Memory!Wrote(op, mem, mem')
           /\ \E reply : Answered(reply) /\ Replied(op, mem', reply)
<1> DEFINE data == TryFromPayload(payload).data
<1>1. pc = "sent" /\ CarriedOut(data)
  BY DEF Execute
<1>2. /\ RequestData(op) # Failed /\ Len(RequestData(op)) + 2 \in Word16
      /\ payload = BuildPayload(Request(Serial, RequestData(op)), "MC4E")
  BY <1>1 DEF AccessInv, SentInv
<1>3. op \in Ops /\ series \in {"Q", "R"} /\ IsMemory(mem)
  BY DEF AccessInv, SentInv
<1>4. RequestData(op) = DataFor(op, series)
  BY DataOf
<1>5. RequestData(op) \in Seq(Byte)
  BY <1>2, <1>3, <1>4, DataType
<1>6. data = RequestData(op)
  BY <1>2, <1>5, RequestGoesThrough DEF GoesThrough
<1> HIDE DEF data
<1>7. DataFor(op, series) # Failed /\ CarriedOut(DataFor(op, series))
  BY <1>1, <1>2, <1>4, <1>6
<1> QED BY <1>3, <1>7, CallCarriedOut

LEMMA MemInductive ==
    ASSUME CommandsStandard, CallsFit, MinCut >= 15, MemInv, [Next]_vars
    PROVE  MemInv'
<1>0. AccessInv /\ AccessInv'
  BY AccessInductive DEF MemInv
<1>1. ASSUME NEW o \in Ops, Call(o) PROVE MemInv'
  <2>1. pc' # "answered"
    BY <1>1, Zenon DEF Call
  <2> QED BY <1>0, <2>1 DEF MemInv
<1>2. CASE Receive \/ TransportFails
  <2>1. pc' # "answered"
    BY <1>2 DEF Receive, TransportFails
  <2> QED BY <1>0, <2>1 DEF MemInv
<1>3. CASE Execute
  <2>1. acted' = TRUE /\ op' = op /\ series' = series
    BY <1>3 DEF Execute
  <2>2. PICK reply : Answered(reply) /\ Replied(op, mem', reply)
    BY <1>0, <1>3, ExecuteIs
  <2>3. CutAnswer(answer', 0, reply)
    <3>1. reply \in Seq(Byte) /\ 0 \in Word16
      BY <2>2, Word16Is DEF Replied
    <3> QED BY <2>2, <3>1, AnswerWhole DEF Answered
  <2>4. DataFor(op, series) # Failed
    BY <1>0, <1>3, ExecuteIs
  <2>5. AnswerFits'
    BY <2>1, <2>2, <2>3, <2>4 DEF AnswerFits
  <2> QED BY <1>0, <2>5 DEF MemInv
<1>4. CASE RefusesRequest
  <2>1. /\ pc = "sent" /\ answer' = Answer("MC4E", Serial, BusyCode, << >>)
        /\ op' = op /\ series' = series /\ acted' = acted
    BY <1>4 DEF RefusesRequest
  <2>2. CutAnswer(answer', BusyCode, << >>)
    <3>1. << >> \in Seq(Byte) /\ Len(<< >>) + 2 <= MaxWord /\ BusyCode \in Word16
      BY EmptySeq, Word16Is DEF MaxWord, BusyCode
    <3> QED BY <2>1, <3>1, AnswerWhole
  <2>3. acted' = FALSE
    BY <1>0, <2>1 DEF AccessInv
  <2>4. DataFor(op, series) # Failed
    BY <1>0, <2>1, DataOf DEF AccessInv, SentInv
  <2>5. AnswerFits'
    BY <2>1, <2>2, <2>3, <2>4 DEF AnswerFits
  <2> QED BY <1>0, <2>5 DEF MemInv
<1>5. CASE CutOff
  <2>1. /\ pc = "answered" /\ op' = op /\ series' = series /\ acted' = acted
        /\ mem' = mem
    BY <1>5 DEF CutOff
  <2>2. PICK n \in MinCut..(Len(answer) - 1) : answer' = SubSeq(answer, 1, n)
    BY <1>5 DEF CutOff
  <2>3. n \in Nat /\ n >= 15 /\ n <= Len(answer)
    <3>1. answer \in Seq(Byte) /\ MinCut \in Nat
      BY <1>0, AccessAssumption DEF AccessInv
    <3> QED BY <2>2, <3>1
  <2>4. \A e, data : CutAnswer(answer, e, data) => CutAnswer(answer', e, data)
    BY <2>2, <2>3, CutAgain
  <2>5. AnswerFits
    BY <2>1 DEF MemInv
  <2>6. AnswerFits'
    <3>1. CASE acted
      BY <2>1, <2>4, <2>5, <3>1 DEF AnswerFits
    <3>2. CASE ~acted
      BY <2>1, <2>4, <2>5, <3>2 DEF AnswerFits
    <3> QED BY <3>1, <3>2
  <2> QED BY <1>0, <2>6 DEF MemInv
<1>6. CASE UNCHANGED vars
  <2>1. pc' = pc /\ op' = op /\ series' = series /\ acted' = acted
        /\ mem' = mem /\ answer' = answer
    BY <1>6 DEF vars
  <2>2. AnswerFits' <=> AnswerFits
    BY <2>1 DEF AnswerFits
  <2> QED BY <1>0, <2>1, <2>2 DEF MemInv
<1> QED BY <1>1, <1>2, <1>3, <1>4, <1>5, <1>6 DEF Next

\* The phase of the memory, as ActsAsMemory has it.
Phase ==
    CASE pc = "idle" -> "idle"
      [] pc # "idle" /\ acted -> "done"
      [] OTHER -> "called"

LEMMA PhaseIs ==
    ASSUME acted \in BOOLEAN, acted' \in BOOLEAN
    PROVE  /\ pc = "idle" => Phase = "idle"
           /\ pc # "idle" /\ acted => Phase = "done"
           /\ pc # "idle" /\ ~acted => Phase = "called"
           /\ pc' = "idle" => Phase' = "idle"
           /\ pc' # "idle" /\ acted' => Phase' = "done"
           /\ pc' # "idle" /\ ~acted' => Phase' = "called"
BY Zenon DEF Phase

\* A step of DeviceMemory, with the phase by its name.
LEMMA MemorySteps ==
    /\ Memory!Refuse <=> /\ Phase = "idle" /\ op' \in Ops /\ result' = Failed
                         /\ mem' = mem /\ Phase' = Phase
    /\ Memory!Begin <=> /\ Phase = "idle" /\ op' \in Ops /\ Phase' = "called"
                        /\ mem' = mem /\ result' = result
    /\ Memory!TakeEffect <=> /\ Phase = "called" /\ Memory!Wrote(op, mem, mem')
                             /\ Phase' = "done" /\ op' = op /\ result' = result
    /\ Memory!Return <=> /\ Phase = "done" /\ Phase' = "idle" /\ result' # Failed
                         /\ Memory!Returns(op, mem, result') /\ mem' = mem /\ op' = op
    /\ Memory!Fail <=> /\ Phase \in {"called", "done"} /\ Phase' = "idle"
                       /\ result' = Failed /\ mem' = mem /\ op' = op
    /\ Memory!Init <=> /\ mem = InitialMemory /\ op \in Ops /\ Phase = "idle"
                       /\ result = Failed
    /\ UNCHANGED Memory!vars <=> /\ mem' = mem /\ op' = op /\ Phase' = Phase
                                 /\ result' = result
BY Zenon DEF Memory!Refuse, Memory!Begin, Memory!TakeEffect, Memory!Return,
             Memory!Fail, Memory!Init, Memory!vars, Phase

\* Every step of a call is a step of the memory, or none.
LEMMA StepIsMemory ==
    ASSUME CommandsStandard, CallsFit, MinCut >= 15, MemInv, [Next]_vars
    PROVE  [Memory!Next]_Memory!vars
<1>0. AccessInv /\ MemInv'
  BY MemInductive DEF MemInv
<1>1. /\ acted \in BOOLEAN /\ acted' \in BOOLEAN /\ (acted => pc = "answered")
      /\ op \in Ops /\ IsMemory(mem)
  BY <1>0 DEF MemInv, AccessInv, SentInv
<1>2. ASSUME NEW o \in Ops, Call(o) PROVE Memory!Refuse \/ Memory!Begin
  <2>1. pc = "idle" /\ op' = o /\ mem' = mem /\ acted' = acted
    BY <1>2 DEF Call
  <2>2. ~acted /\ ~acted' /\ Phase = "idle"
    BY <1>1, <2>1, PhaseIs
  <2>3. \/ result' = Failed /\ pc' = pc
        \/ result' = result /\ pc' = "sent"
    BY <1>2, Zenon DEF Call
  <2>4. CASE result' = Failed /\ pc' = pc
    BY <1>1, <2>1, <2>2, <2>4, PhaseIs, MemorySteps
  <2>5. CASE result' = result /\ pc' = "sent"
    BY <1>1, <2>1, <2>2, <2>5, PhaseIs, MemorySteps
  <2> QED BY <2>3, <2>4, <2>5
<1>3. CASE Receive
  <2> DEFINE out == Outcome(answer)
  <2>1. /\ pc = "answered" /\ pc' = "idle" /\ mem' = mem /\ op' = op
        /\ result' = IF out.kind = "success" THEN ResultOf(op, out.data) ELSE Failed
    BY <1>3 DEF Receive
  <2>2. AnswerFits
    BY <2>1 DEF MemInv
  <2>3. Phase \in {"called", "done"} /\ (acted => Phase = "done") /\ Phase' = "idle"
    BY <1>1, <2>1, PhaseIs
  <2>4. result' = Failed => Memory!Fail
    BY <2>1, <2>3, MemorySteps
  <2>5. ASSUME result' # Failed PROVE Memory!Return
    <3>1. acted
      <4> SUFFICES ASSUME ~acted PROVE FALSE
        OBVIOUS
      <4>1. CutAnswer(answer, BusyCode, << >>)
        BY <2>2 DEF AnswerFits
      <4>2. BusyCode \in Word16 /\ BusyCode # 0
        BY Word16Is DEF BusyCode
      <4>3. out.kind = "endcode"
        BY <4>1, <4>2, CutOutcome
      <4> QED BY <2>1, <2>5, <4>3
    <3>2. PICK reply : Replied(op, mem, reply) /\ CutAnswer(answer, 0, reply)
      BY <2>2, <3>1 DEF AnswerFits
    <3>3. 0 \in Word16
      BY Word16Is
    <3>4. PICK d : FrontOf(d, reply) /\ out = [kind |-> "success", data |-> d]
      BY <3>2, <3>3, CutOutcome
    <3>5. result' = ResultOf(op, d)
      BY <2>1, <3>4
    <3>6. Memory!Returns(op, mem, result')
      BY <1>1, <2>2, <2>5, <3>2, <3>4, <3>5, AnswerReturned DEF AnswerFits
    <3> QED BY <2>1, <2>3, <2>5, <3>1, <3>6, MemorySteps
  <2>6. Memory!Return \/ Memory!Fail
    BY <2>4, <2>5
  <2> QED BY <2>6 DEF Memory!Next
<1>4. CASE TransportFails
  <2>1. /\ pc \in {"sent", "answered"} /\ pc' = "idle" /\ result' = Failed
        /\ mem' = mem /\ op' = op
    BY <1>4 DEF TransportFails
  <2>2. Phase \in {"called", "done"} /\ Phase' = "idle"
    BY <1>1, <2>1, PhaseIs
  <2>3. Memory!Fail
    BY <2>1, <2>2, MemorySteps
  <2> QED BY <2>3 DEF Memory!Next
<1>5. CASE Execute
  <2>1. pc = "sent" /\ pc' = "answered" /\ acted' /\ op' = op /\ result' = result
    BY <1>5 DEF Execute
  <2>2. Phase = "called" /\ Phase' = "done"
    BY <1>1, <2>1, PhaseIs
  <2>3. Memory!Wrote(op, mem, mem')
    BY <1>0, <1>5, ExecuteIs
  <2>4. Memory!TakeEffect
    BY <2>1, <2>2, <2>3, MemorySteps
  <2> QED BY <2>4 DEF Memory!Next
<1>6. CASE RefusesRequest
  <2>1. /\ pc = "sent" /\ pc' = "answered" /\ op' = op /\ result' = result
        /\ mem' = mem /\ acted' = acted
    BY <1>6 DEF RefusesRequest
  <2>2. Phase' = Phase
    BY <1>1, <2>1, PhaseIs
  <2>3. UNCHANGED Memory!vars
    BY <2>1, <2>2, MemorySteps
  <2> QED BY <2>3
<1>7. CASE CutOff \/ UNCHANGED vars
  <2>1. /\ pc' = pc /\ op' = op /\ result' = result /\ mem' = mem
        /\ acted' = acted
    BY <1>7 DEF CutOff, vars
  <2>2. Phase' = Phase
    BY <1>1, <2>1, PhaseIs
  <2>3. UNCHANGED Memory!vars
    BY <2>1, <2>2, MemorySteps
  <2> QED BY <2>3
<1>8. (\E o \in Ops : Call(o)) => Memory!Next
  BY <1>2 DEF Memory!Next
<1> QED BY <1>3, <1>4, <1>5, <1>6, <1>7, <1>8 DEF Next

\* A call of McClient is a call of a memory that knows nothing of bytes: with the
\* commands of src/commands.toml under any limits, calls whose blocks fit the
\* bytes of a frame and answers cut off nowhere in their header, whatever succeeds
\* returns what the memory holds, a write changes its points and no other, and a
\* call takes effect at most once.
THEOREM ActsAsMemoryCorrect ==
    ASSUME CommandsStandard, CallsFit, MinCut >= 15
    PROVE  Spec => ActsAsMemory
<1>1. Init => MemInv
  <2> SUFFICES ASSUME Init PROVE MemInv
    OBVIOUS
  <2>1. IsMemory(InitialMemory)
    BY AccessAssumption DEF IsMemory
  <2>2. << >> \in Seq(Byte)
    BY EmptySeq
  <2>3. AccessInv
    BY <2>1, <2>2 DEF Init, AccessInv, SentInv
  <2> QED BY <2>3 DEF Init, MemInv
<1>2. MemInv /\ [Next]_vars => MemInv'
  BY MemInductive
<1>3. MemInv /\ [Next]_vars => [Memory!Next]_Memory!vars
  BY StepIsMemory
<1>4. Init => Memory!Init
  <2> SUFFICES ASSUME Init PROVE Memory!Init
    OBVIOUS
  <2>1. mem = InitialMemory /\ op \in Ops /\ pc = "idle" /\ result = Failed
    BY DEF Init
  <2>2. Phase = "idle"
    BY <2>1, Zenon DEF Phase
  <2> QED BY <2>1, <2>2, MemorySteps
<1> QED BY <1>1, <1>2, <1>3, <1>4, PTL DEF Spec, ActsAsMemory, Memory!Spec
====
