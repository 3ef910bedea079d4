---------------------------- MODULE CommandCodec ----------------------------
(***************************************************************************)
(* CommandSpec: from parameters to request data and from response data to  *)
(* blocks.  Parameters are a record, like the JSON object of the code: a   *)
(* key may be missing.                                                     *)
(***************************************************************************)
EXTENDS RequestCodec, CommandFile

CONSTANT CommandEntries    \* the commands.toml that is installed

Get(obj, key, default) == IF key \in DOMAIN obj THEN obj[key] ELSE default

\* obj with the keys of other that it does not have.
With(obj, other) ==
    [key \in DOMAIN obj \cup DOMAIN other |->
        IF key \in DOMAIN obj THEN obj[key] ELSE other[key]]

(***************************************************************************)
(* The tables.                                                             *)
(***************************************************************************)
Devices ==
    [D |-> [code |-> 168, category |-> "Word"],
     M |-> [code |-> 144, category |-> "Bit"]]

\* GLOBAL_COMMAND_REGISTRY.
Commands == ParseCommandFile(CommandEntries)

\* An array: what serde makes of one, whatever it holds.
IsArray(a) == Len(a) \in Nat /\ DOMAIN a = 1..Len(a)

ASSUME CommandsAssumption ==
    /\ Commands # Rejected
    /\ IsArray(CommandEntries)
    /\ \A i \in DOMAIN CommandEntries :
          /\ IsArray(CommandEntries[i].request)
          /\ IsArray(CommandEntries[i].templates)
          /\ \A j \in DOMAIN CommandEntries[i].templates :
                IsArray(CommandEntries[i].templates[j].fields)

\* The devices with this code: one, or none.
ByCode(code) == {Devices[s] : s \in {t \in DOMAIN Devices : Devices[t].code = code}}
DeviceOf(obj) ==
    IF "device_code" \in DOMAIN obj THEN ByCode(obj.device_code) ELSE {}

(***************************************************************************)
(* build_request.                                                          *)
(***************************************************************************)

\* The n low bytes of v, low byte first or last: v >>= 8 after each.
WriteNBytes(n, v, le) ==
    LET rest[k \in 0..n] == IF k = 0 THEN v ELSE rest[k - 1] \div 256
    IN  [i \in 1..n |-> rest[IF le THEN i - 1 ELSE n - i] % 256]

\* Numbers that the protocol fixes are low byte first, whatever the table says.
LowFirst(f, series) ==
    \/ f.le
    \/ f.name \in {"command", "subcommand", "device_code"}
    \/ series = "R" /\ f.name = "start_addr"

\* A device code has a width of its own, and an R series request has wider
\* addresses.
FieldWidth(f, series) ==
    CASE f.name = "device_code" -> IF series = "R" THEN 2 ELSE 1
      [] series = "R" /\ f.name = "start_addr" -> 4
      [] OTHER -> f.n

Allows(family, category) ==
    CASE family = "Bit" -> category = "Bit"
      [] family = "Word" -> category \in {"Word", "DoubleWord"}
      [] family = "DoubleWord" -> category = "DoubleWord"
      [] OTHER -> TRUE

Blocks(params, key) == Get(params, key, << >>)

\* validate_code_for_family: a code is a byte, and may be unknown.
CodeAllowed(family, obj) ==
    /\ Get(obj, "device_code", 0) <= 255
    /\ \A d \in DeviceOf(obj) : Allows(family, d.category)

FamiliesMatch(spec, params) ==
    /\ CodeAllowed(spec.family, params)
    /\ \A t \in ToSet(spec.templates) :
           \A b \in ToSet(Blocks(params, t.key)) :
               CodeAllowed(IF t.family = "" THEN spec.family ELSE t.family, b)

\* get_num_field; the block counts are computed.
Numbers(spec, params, series) ==
    LET computed ==
            [command |-> spec.code, subcommand |-> Subcommand(spec.sub, series),
             word_block_count |-> Len(Blocks(params, "word_blocks")),
             bit_block_count |-> Len(Blocks(params, "bit_blocks"))]
    IN  [key \in DOMAIN computed \cup DOMAIN params |->
            IF key \in DOMAIN computed THEN computed[key] ELSE params[key]]

\* The digits 0-9, A-F and a-f.
HexDigits == (48..57) \cup (65..70) \cup (97..102)

WordBytes(w, le) == IF le THEN LowHigh(w) ELSE HighLow(w)

\* The bytes of a field; bytes and a text of digits may be left out.  Parameters
\* are given by what they hold: bytes are a sequence, be it an array or a text in
\* JSON, and a number that stands for the words of a block is a sequence of one.
\* A text of digits is a text: its other form, an array of any bytes, which no
\* operation of McClient passes, is left out.
FieldBytes(f, obj, series) ==
    CASE f.kind = "fixed" ->
            WriteNBytes(FieldWidth(f, series), obj[f.name], LowFirst(f, series))
      [] f.kind = "words" ->
            FlattenSeq([i \in 1..Len(obj[f.name]) |->
                            WordBytes(obj[f.name][i], f.le)])
      [] OTHER -> Get(obj, f.name, << >>)

Has(fields, obj) ==
    \A f \in fields :
        CASE f.kind = "bytes" -> Get(obj, f.name, << >>) \in Seq(Byte)
          [] f.kind = "words" -> f.name \in DOMAIN obj /\ obj[f.name] \in Seq(Word16)
          [] f.kind = "text" -> Get(obj, f.name, << >>) \in Seq(HexDigits)
          [] OTHER -> f.name \in DOMAIN obj /\ obj[f.name] \in Nat

Emit(fields, obj, series) ==
    FlattenSeq([i \in 1..Len(fields) |-> FieldBytes(fields[i], obj, series)])

\* The bytes and texts of a block are left out.
BlockFields(t) == {f \in ToSet(t.fields) : f.kind \in {"fixed", "words"}}
EmitBlock(t, block, series) ==
    FlattenSeq([i \in 1..Len(t.fields) |->
                    IF t.fields[i] \in BlockFields(t)
                    THEN FieldBytes(t.fields[i], block, series) ELSE << >>])
EmitBlocks(t, params, series) ==
    FlattenSeq([i \in 1..Len(params[t.key]) |->
                    EmitBlock(t, params[t.key][i], series)])

Total(numbers) ==
    LET sum[i \in 0..Len(numbers)] == IF i = 0 THEN 0 ELSE sum[i - 1] + numbers[i]
    IN  sum[Len(numbers)]

\* The points of a category that the blocks ask for.
PointsAsked(spec, params, category) ==
    LET asked(b) == IF \E d \in DeviceOf(b) : d.category = category
                    THEN Get(b, "count", 0) ELSE 0
        points(blocks) == Total([i \in 1..Len(blocks) |-> asked(blocks[i])])
    IN  Total([i \in 1..Len(spec.templates) |->
                   points(Blocks(params, spec.templates[i].key))])

\* Faulty variant of WithinLimits: each block by itself.
WithinLimitsEach(spec, params) ==
    \A t \in ToSet(spec.templates) : \A b \in ToSet(Blocks(params, t.key)) :
        \A d \in DeviceOf(b) :
            d.category \in DOMAIN spec.limits
                => Get(b, "count", 0) <= spec.limits[d.category]

\* validate_block_limits.
WithinLimits(spec, params) ==
    \A category \in DOMAIN spec.limits :
        PointsAsked(spec, params, category) <= spec.limits[category]

BuildRequest(spec, params, series) ==
    LET numbers == Numbers(spec, params, series) IN
    IF /\ FamiliesMatch(spec, params)
       /\ Has(ToSet(spec.fields), numbers)
       /\ \A t \in ToSet(spec.templates) :
              /\ t.key \in DOMAIN params
              /\ \A b \in ToSet(Blocks(params, t.key)) : Has(BlockFields(t), b)
       /\ WithinLimits(spec, params)
    THEN Emit(spec.fields, numbers, series)
         \o FlattenSeq([i \in 1..Len(spec.templates) |->
                            EmitBlocks(spec.templates[i], params, series)])
    ELSE Failed

(***************************************************************************)
(* The parameter helpers.                                                  *)
(***************************************************************************)

\* Faulty variant of DeviceParams: the address is not checked.
DeviceParamsAny(sym, addr) ==
    IF sym \in DOMAIN Devices
    THEN [start_addr |-> Max({addr, 0}), device_code |-> Devices[sym].code]
    ELSE NoKeys

MaxAddress == 16777215    \* of three bytes

\* start_addr and device_code of "D100", or of "D" alone (no address).
DeviceParams(sym, addr) ==
    IF addr = Absent
    THEN IF sym \in DOMAIN Devices
         THEN [start_addr |-> 0, device_code |-> Devices[sym].code]
         ELSE [start_addr |-> 0]
    ELSE IF sym \in DOMAIN Devices /\ addr <= MaxAddress
    THEN [start_addr |-> addr, device_code |-> Devices[sym].code]
    ELSE NoKeys

ReadWordsParams(sym, addr, count) ==
    With(DeviceParams(sym, addr),
         [count |-> count, data_blocks |-> <<[count |-> count]>>])

ReadBitsParams(sym, addr, count) ==
    With(DeviceParams(sym, addr),
         [count |-> count, data_blocks |-> <<[count |-> count]>>,
          bit_blocks |-> <<[count |-> count]>>])

WriteWordsParams(sym, addr, words) ==
    With(DeviceParams(sym, addr), [count |-> Len(words), data |-> words])

\* Two points in a byte, the first in the high half.
PackNibbles(bits) == [i \in 1..((Len(bits) + 1) \div 2) |->
    (IF bits[2 * i - 1] THEN 16 ELSE 0)
    + (IF 2 * i <= Len(bits) /\ bits[2 * i] THEN 1 ELSE 0)]

WriteBitsParams(sym, addr, bits) ==
    With(DeviceParams(sym, addr),
         [count |-> Len(bits), payload |-> PackNibbles(bits)])

(***************************************************************************)
(* parse_response: the blocks that were asked for, one after the other.    *)
(* Bytes behind the last block are not looked at.                          *)
(***************************************************************************)
BytesNeeded(kind, count) ==
    CASE kind = "words" -> 2 * count
      [] kind = "bits" -> (count + 7) \div 8
      [] OTHER -> (count + 1) \div 2

\* The bits of word w.
WordBits(w) == [i \in 1..16 |-> (w \div 2^(i - 1)) % 2 = 1]

\* Block of count points at an offset: words; bits, eight in a byte; or points,
\* two in a byte, true unless zero.  The low byte, bit or half is the first one,
\* or the last.
Decode(kind, lowFirst, bytes, offset, count) ==
    [i \in 1..count |->
        CASE kind = "words" ->
                IF lowFirst THEN Word(bytes, offset + 2 * (i - 1))
                ELSE Word(<<bytes[offset + 2 * i], bytes[offset + 2 * i - 1]>>, 0)
          [] kind = "bits" ->
                LET b == bytes[offset + (i - 1) \div 8 + 1]
                    k == (i - 1) % 8
                IN  (b \div 2^(IF lowFirst THEN k ELSE 7 - k)) % 2 = 1
          [] OTHER ->
                LET b == bytes[offset + (i - 1) \div 2 + 1] IN
                IF (i % 2 = 1) # lowFirst THEN b \div 16 # 0 ELSE b % 16 # 0]

\* The blocks asked for, each with its entry; a text is one block.
Asked(spec, params) ==
    FlattenSeq([i \in 1..Len(spec.entries) |->
        LET e == spec.entries[i] IN
        IF e.kind = "text" THEN <<[entry |-> e, block |-> NoKeys]>>
        ELSE [j \in 1..Len(Blocks(params, e.name)) |->
                  [entry |-> e, block |-> Blocks(params, e.name)[j]]]])

\* Faulty variant of Offsets: a block of bits takes a byte at most.
OffsetsByte(asked, len) ==
    LET offset[i \in 1..(Len(asked) + 1)] ==
            IF i = 1 THEN 0
            ELSE IF asked[i - 1].entry.kind = "text" THEN len
            ELSE offset[i - 1]
                 + (IF asked[i - 1].entry.kind = "words"
                    THEN 2 * asked[i - 1].block.count ELSE 1)
    IN  offset

\* Where each of them begins in len bytes, and where the last one ends: a text
\* takes all that is left.
Offsets(asked, len) ==
    LET offset[i \in 1..(Len(asked) + 1)] ==
            IF i = 1 THEN 0
            ELSE IF asked[i - 1].entry.kind = "text" THEN len
            ELSE offset[i - 1] + BytesNeeded(asked[i - 1].entry.kind,
                                             asked[i - 1].block.count)
    IN  offset

\* The numbers up to n that are in S, in their order.
InOrder(S, n) ==
    LET chosen[i \in 0..n] ==
            IF i = 0 THEN << >>
            ELSE IF i \in S THEN Append(chosen[i - 1], i) ELSE chosen[i - 1]
    IN  chosen[n]

\* One word of a bit device is given as bits, too.
GivenAsBits(a, params) ==
    /\ a.entry.kind = "words"
    /\ a.block.count = 1
    /\ \E d \in DeviceOf(With(a.block, params)) : d.category = "Bit"

\* Where there are texts, all that they take must be digits.
ParseResponse(spec, params, bytes) ==
    LET asked == Asked(spec, params)
        offset == Offsets(asked, Len(bytes))
        text(i) == SubSeq(bytes, offset[i] + 1, Len(bytes))
        block(i) == Decode(asked[i].entry.kind, asked[i].entry.lowFirst, bytes,
                           offset[i], asked[i].block.count)
        blocks(chosen) == [n \in 1..Len(chosen) |-> block(chosen[n])]
        asBits == blocks(InOrder({i \in 1..Len(asked) : GivenAsBits(asked[i], params)},
                                 Len(asked)))
        named(name) == {i \in 1..Len(asked) : asked[i].entry.name = name}
        texts == {i \in 1..Len(asked) : asked[i].entry.kind = "text"}
        kinds == {e.name : e \in {f \in ToSet(spec.entries) : f.kind # "text"}}
    IN  IF \/ \E i \in (1..Len(asked)) \ texts : "count" \notin DOMAIN asked[i].block
           \/ \E i \in 1..Len(asked) : offset[i + 1] > Len(bytes)
           \/ \E i \in texts : ~(ToSet(text(i)) \subseteq HexDigits)
        THEN Failed
        ELSE With(With([name \in kinds |-> blocks(InOrder(named(name), Len(asked)))],
                       [name \in {asked[i].entry.name : i \in texts} |->
                            text(CHOOSE i \in texts : asked[i].entry.name = name)]),
                  IF asBits = << >> THEN NoKeys
                  ELSE [bit_blocks |-> [n \in 1..Len(asBits) |->
                                            WordBits(asBits[n][1])]])
====
