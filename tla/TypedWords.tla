----------------------------- MODULE TypedWords -----------------------------
(***************************************************************************)
(* ToWords and FromWords: the words of a typed value, low word first.  A   *)
(* u32 or f32 is the i32 of the same bits, so "i32" stands for the three.  *)
(***************************************************************************)
EXTENDS Integers, Sequences

\* WORDS of the implementations.
WordsOfType(type) == IF type = "i32" THEN 2 ELSE 1

\* Reinterpret the bits of a word, and of a double word given by its words.
Signed16(w) == IF w >= 32768 THEN w - 65536 ELSE w
Double(low, high) == high * 65536 + low

BitsOfWord(w) == [i \in 1..16 |-> (w \div 2^(i - 1)) % 2 = 1]

\* w |= 1 << i for each bit that is set, here from the high bit down.
WordOfBits(bits) ==
    LET high[i \in 0..16] ==
            IF i = 0 THEN 0
            ELSE 2 * high[i - 1] + (IF bits[17 - i] THEN 1 ELSE 0)
    IN  high[16]

ToWords(type, v) ==
    CASE type \in {"u16", "i16"} -> <<v % 65536>>
      [] type = "bits16" -> <<WordOfBits(v)>>
      [] OTHER -> <<v % 65536, (v \div 65536) % 65536>>

FromWords(type, ws) ==
    CASE type = "u16" -> ws[1]
      [] type = "i16" -> Signed16(ws[1])
      [] type = "bits16" -> BitsOfWord(ws[1])
      [] OTHER -> Double(ws[1], Signed16(ws[2]))
====
