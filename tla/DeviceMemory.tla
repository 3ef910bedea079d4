---------------------------- MODULE DeviceMemory ----------------------------
(***************************************************************************)
(* What the operations of McClient promise of the memory of a PLC: a call  *)
(* that is refused changes nothing, any other call takes effect at most    *)
(* once, and one that succeeds returns what the memory holds.  Nothing is  *)
(* said of bytes: a device is a row of bits, a word is 16 of them.         *)
(***************************************************************************)
EXTENDS Integers, Sequences

CONSTANTS
    Ops,              \* the calls of the application
    InitialMemory,    \* [D |-> words, M |-> bits], both indexed from 0
    Failed            \* the result of a call that returns Err

VARIABLES
    mem,       \* the memory of the PLC
    op,        \* the last call
    phase,     \* "idle", "called" or "done"
    result     \* what the last call that ended has returned

vars == <<mem, op, phase, result>>

\* Bit i of a word, counted from 0.
BitOf(w, i) == (w \div 2^i) % 2 = 1

\* Bit k of a device from address a on.
BitAt(m, sym, a, k) ==
    IF sym = "D" THEN BitOf(m.D[a + k \div 16], k % 16) ELSE m.M[a + k]

(***************************************************************************)
(* Values and the words that hold them, low word first.                    *)
(***************************************************************************)
MaxUnsigned == 65535
MinSigned == -32768
MaxSigned == 32767
Values ==
    [u16 |-> 0..MaxUnsigned, i16 |-> MinSigned..MaxSigned, i32 |-> Int,
     bits16 |-> [1..16 -> BOOLEAN]]

WordRange == 65536
WordsPer(type) == IF type = "i32" THEN 2 ELSE 1

ValueBit(type, v, k) ==
    IF type = "bits16" THEN v[k + 1]
    ELSE BitOf(v \div WordRange^(k \div 16), k % 16)

\* The device holds the values vs from address a on.
Holds(m, sym, a, type, vs) ==
    LET bits == 16 * WordsPer(type) IN
    \A i \in 1..Len(vs) : \A k \in 0..(bits - 1) :
        BitAt(m, sym, a, bits * (i - 1) + k) = ValueBit(type, vs[i], k)

HoldsBits(m, a, bs) == \A i \in 1..Len(bs) : bs[i] = m.M[a + i - 1]

(***************************************************************************)
(* Operations.  "D" is short for "D0".                                     *)
(***************************************************************************)
Reads == {"read_words", "read_words_as", "read_bits"}
Writes == {"write_words_as", "write_bits"}

AddressOf(o) == IF o.addr < 0 THEN 0 ELSE o.addr
PointsOf(o) == IF o.do \in Reads THEN o.count ELSE Len(o.values)

\* The addresses that a read or a write is about.
Range(o) ==
    LET words == PointsOf(o) * WordsPer(o.type)
        points == IF o.do \in {"read_bits", "write_bits"} THEN PointsOf(o)
                  ELSE IF o.sym = "M" THEN 16 * words ELSE words
    IN  AddressOf(o)..(AddressOf(o) + points - 1)

Inside(m, o) ==
    /\ o.sym \in DOMAIN m
    /\ Range(o) \subseteq DOMAIN m[o.sym]
    /\ o.do \in {"read_bits", "write_bits"} => o.sym = "M"

Wrote(o, m, m2) ==
    IF o.do \in Writes
    THEN /\ Inside(m, o)
         /\ DOMAIN m2 = DOMAIN m
         /\ \A sym \in DOMAIN m : DOMAIN m2[sym] = DOMAIN m[sym]
         /\ \A sym \in DOMAIN m : \A a \in DOMAIN m[sym] :
                \/ sym = o.sym /\ a \in Range(o)
                \/ m2[sym][a] = m[sym][a]
         /\ IF o.do = "write_bits"
            THEN HoldsBits(m2, AddressOf(o), o.values)
            ELSE Holds(m2, o.sym, AddressOf(o), o.type, o.values)
    ELSE m2 = m

\* A word read from a bit device is given as 16 bits, too.
ReadWords(o, m, r) ==
    /\ Len(r.data_blocks) = 1
    /\ Len(r.data_blocks[1]) = o.count
    /\ Holds(m, o.sym, AddressOf(o), "u16", r.data_blocks[1])
    /\ IF o.sym = "M" /\ o.count = 1
       THEN Len(r.bit_blocks) = 1 /\ Len(r.bit_blocks[1]) = 16
            /\ HoldsBits(m, AddressOf(o), r.bit_blocks[1])
       ELSE DOMAIN r = {"data_blocks"}

\* The answers to all blocks, in their order.
ReadBlocks(o, m, r) ==
    /\ Len(r.word_blocks) = Len(o.words)
    /\ \A i \in 1..Len(o.words) :
           /\ Len(r.word_blocks[i]) = o.words[i].count
           /\ Holds(m, "D", o.words[i].start_addr, "u16", r.word_blocks[i])
    /\ Len(r.bit_blocks) = Len(o.bits)
    /\ \A i \in 1..Len(o.bits) :
           /\ Len(r.bit_blocks[i]) = o.bits[i].count
           /\ HoldsBits(m, o.bits[i].start_addr, r.bit_blocks[i])

\* What a call that succeeds may return.  echo compares nothing: the string
\* may be cut off.
Returns(o, m, r) ==
    CASE o.do = "read_words" -> Inside(m, o) /\ ReadWords(o, m, r)
      [] o.do = "read_words_as" ->
            /\ Inside(m, o)
            /\ Len(r) = o.count
            /\ \A i \in 1..Len(r) : r[i] \in Values[o.type]
            /\ Holds(m, o.sym, AddressOf(o), o.type, r)
      [] o.do = "read_bits" ->
            /\ Inside(m, o)
            /\ Len(r.data_blocks) = 1
            /\ Len(r.data_blocks[1]) = o.count
            /\ HoldsBits(m, AddressOf(o), r.data_blocks[1])
      [] o.do = "read_blocks" -> ReadBlocks(o, m, r)
      [] o.do \in {"echo", "echo_spec"} ->
            Len(r) <= Len(o.values) /\ r = SubSeq(o.values, 1, Len(r))
      [] OTHER -> r = <<>>

----------------------------------------------------------------------------
Init ==
    /\ mem = InitialMemory
    /\ op \in Ops
    /\ phase = "idle"
    /\ result = Failed

Refuse ==
    /\ phase = "idle"
    /\ op' \in Ops
    /\ result' = Failed
    /\ UNCHANGED <<mem, phase>>

Begin ==
    /\ phase = "idle"
    /\ op' \in Ops
    /\ phase' = "called"
    /\ UNCHANGED <<mem, result>>

TakeEffect ==
    /\ phase = "called"
    /\ Wrote(op, mem, mem')
    /\ phase' = "done"
    /\ UNCHANGED <<op, result>>

Return ==
    /\ phase = "done"
    /\ phase' = "idle"
    /\ result' # Failed
    /\ Returns(op, mem, result')
    /\ UNCHANGED <<mem, op>>

Fail ==
    /\ phase \in {"called", "done"}
    /\ phase' = "idle"
    /\ result' = Failed
    /\ UNCHANGED <<mem, op>>

Next == Refuse \/ Begin \/ TakeEffect \/ Return \/ Fail

Spec == Init /\ [][Next]_vars
====
