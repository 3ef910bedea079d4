---------------------------- MODULE DeviceAccess ----------------------------
(***************************************************************************)
(* A call of McClient from its arguments to its result: parameters,        *)
(* request data, frame, the PLC, answer, blocks, values.  How the frames   *)
(* are exchanged is the subject of McTransport and UdpExchange; here a     *)
(* frame arrives, or the call fails.                                       *)
(***************************************************************************)
EXTENDS CommandCodec, TypedWords

CONSTANTS
    Ops,              \* the calls of the application (see DeviceMemory)
    InitialMemory,    \* of the PLC: [D |-> words, M |-> bits]
    Serial,           \* the serial of a request
    MinCut            \* an answer is cut off behind this many bytes or more

ASSUME AccessAssumption ==
    /\ Serial \in Word16 \ {0}
    /\ MinCut \in Nat
    /\ DOMAIN InitialMemory = {"D", "M"}
    /\ \A sym \in DOMAIN InitialMemory : DOMAIN InitialMemory[sym] \subseteq Nat
    /\ InitialMemory.D \in [DOMAIN InitialMemory.D -> Word16]
    /\ InitialMemory.M \in [DOMAIN InitialMemory.M -> BOOLEAN]

VARIABLES
    series,     \* McClient::plc_series
    mem,        \* the memory of the PLC
    op,         \* the call
    pc,         \* "idle", "sent" or "answered"
    payload,    \* the frame of the request
    answer,     \* the frame of the answer, as the transport returns it
    result,     \* of the last call: Failed, or what Ok holds
    acted       \* history: the PLC has carried the request out

vars == <<series, mem, op, pc, payload, answer, result, acted>>

Init ==
    /\ series \in {"Q", "R"}
    /\ mem = InitialMemory
    /\ op \in Ops
    /\ pc = "idle"
    /\ payload = << >>
    /\ answer = << >>
    /\ result = Failed
    /\ acted = FALSE

(***************************************************************************)
(* The operations of McClient.                                             *)
(***************************************************************************)
CommandId(o) ==
    CASE o.do = "read_words_as" -> "read_words"
      [] o.do = "write_words_as" -> "write_words"
      [] o.do = "echo_spec" -> "echo"
      [] OTHER -> o.do
CommandOf(o) == Commands[CommandId(o)]

\* Faulty variant of RequiredWords: the product is cut to 16 bits.
RequiredWordsWrapped(o) == (WordsOfType(o.type) * o.count) % 65536

\* read_words_as: the words to ask for, which have to fit a u16.
RequiredWords(o) ==
    LET words == WordsOfType(o.type) * o.count IN
    IF words > 65535 THEN Failed ELSE words

\* write_words_as encodes one value after the other.
Flattened(o) ==
    FlattenSeq([i \in 1..Len(o.values) |-> ToWords(o.type, o.values[i])])

ParamsOf(o) ==
    CASE o.do = "read_words" -> ReadWordsParams(o.sym, o.addr, o.count)
      [] o.do = "read_words_as" ->
            ReadWordsParams(o.sym, o.addr, RequiredWords(o))
      [] o.do = "read_bits" -> ReadBitsParams(o.sym, o.addr, o.count)
      [] o.do = "write_words_as" ->
            WriteWordsParams(o.sym, o.addr, Flattened(o))
      [] o.do = "write_bits" -> WriteBitsParams(o.sym, o.addr, o.values)
      [] o.do = "echo_spec" -> [payload |-> o.values]
      [] OTHER -> [word_blocks |-> o.words, bit_blocks |-> o.bits]

\* The blocks of a call are in arrays.
ASSUME OpsAssumption ==
    \A o \in Ops : CommandId(o) \in DOMAIN Commands =>
        \A t \in ToSet(CommandOf(o).templates) :
            t.key \in DOMAIN ParamsOf(o) => IsArray(ParamsOf(o)[t.key])

\* echo makes its request without the registry.
EchoCode == 1561
EchoHeader == LowHigh(EchoCode) \o LowHigh(0)
EchoLengths == 1..960
EchoData(o) ==
    IF Len(o.values) \in EchoLengths /\ o.values \in Seq(HexDigits)
    THEN EchoHeader \o o.values
    ELSE Failed

RequestData(o) ==
    IF o.do = "echo" THEN EchoData(o)
    ELSE IF \/ o.do = "read_words_as" /\ RequiredWords(o) = Failed
            \/ CommandId(o) \notin DOMAIN Commands
    THEN Failed
    ELSE BuildRequest(CommandOf(o), ParamsOf(o), series)

\* read_words_as: whole values, at most as many as were asked for.
Elements(o, words) ==
    LET n == WordsOfType(o.type) IN
    [i \in 1..Min({o.count, Len(words) \div n}) |->
        FromWords(o.type, SubSeq(words, n * (i - 1) + 1, n * i))]

\* What the call makes of the response data.
ResultOf(o, data) ==
    IF o.do = "echo" THEN data
    ELSE LET parsed == ParseResponse(CommandOf(o), ParamsOf(o), data) IN
         IF parsed = Failed THEN Failed
         ELSE CASE o.do = "read_words_as" ->
                      Elements(o, FlattenSeq(parsed.data_blocks))
                [] o.do = "echo_spec" -> parsed.payload
                [] OTHER -> parsed

Call(o) ==
    /\ pc = "idle"
    /\ op' = o
    /\ LET data == RequestData(o)
           request == IF data = Failed THEN Failed ELSE Request(Serial, data)
       IN  IF request = Failed
           THEN result' = Failed /\ UNCHANGED <<pc, payload>>
           ELSE /\ payload' = BuildPayload(request, "MC4E")
                /\ pc' = "sent"
                /\ UNCHANGED result
    /\ UNCHANGED <<series, mem, answer, acted>>

\* parse_mc_payload, the end code, parse_response and the rest of the call.
Receive ==
    /\ pc = "answered"
    /\ pc' = "idle"
    /\ LET out == Outcome(answer) IN
       result' = IF out.kind = "success" THEN ResultOf(op, out.data) ELSE Failed
    /\ payload' = << >>
    /\ answer' = << >>
    /\ acted' = FALSE
    /\ UNCHANGED <<series, mem, op>>

\* The transport returns an error, before or after the PLC has acted.
TransportFails ==
    /\ pc \in {"sent", "answered"}
    /\ pc' = "idle"
    /\ result' = Failed
    /\ payload' = << >>
    /\ answer' = << >>
    /\ acted' = FALSE
    /\ UNCHANGED <<series, mem, op>>

(***************************************************************************)
(* The PLC (not part of the crate).  It takes the series of a request from *)
(* the subcommand.                                                         *)
(***************************************************************************)
ForR(data) == Word(data, 2) \in {2, 3}

\* n bytes at offset i, low byte first.
Number(data, i, n) ==
    LET high[k \in 0..n] ==
            IF k = 0 THEN 0 ELSE 256 * high[k - 1] + data[i + n + 1 - k]
    IN  high[n]

PointLen(data) == IF ForR(data) THEN 8 ELSE 6

\* Start address, device and number of points at offset i.
PointAt(data, i) ==
    LET a == IF ForR(data) THEN 4 ELSE 3
        code == Number(data, i + a, IF ForR(data) THEN 2 ELSE 1)
    IN  [addr |-> Number(data, i, a),
         sym |-> IF code = Devices.D.code THEN "D"
                 ELSE IF code = Devices.M.code THEN "M" ELSE "?",
         count |-> Number(data, i + PointLen(data) - 2, 2)]

BitPoints(p) == p.addr..(p.addr + p.count - 1)
WordPoints(p) ==
    IF p.sym = "D" THEN BitPoints(p) ELSE p.addr..(p.addr + 16 * p.count - 1)

CanAccess(p, points) ==
    /\ p.sym \in DOMAIN mem
    /\ p.count > 0
    /\ points \subseteq DOMAIN mem[p.sym]

WordData(p) ==
    FlattenSeq([i \in 1..p.count |-> LowHigh(
        IF p.sym = "D" THEN mem.D[p.addr + i - 1]
        ELSE WordOfBits([k \in 1..16 |-> mem.M[p.addr + 16 * (i - 1) + k - 1]]))])

\* Points in halves of bytes; an odd one is followed by a half of any value.
NibbleData(p, pad) ==
    LET half(i) == LET on == IF i <= p.count THEN mem.M[p.addr + i - 1] ELSE pad
                   IN  IF on THEN 1 ELSE 0
    IN  [j \in 1..((p.count + 1) \div 2) |-> 16 * half(2 * j - 1) + half(2 * j)]

\* Eight points in a byte, as test_build_and_parse_block_request has them.
BitData(p) ==
    [j \in 1..((p.count + 7) \div 8) |-> WordOfBits(
        [k \in 1..16 |-> /\ k <= 8 /\ 8 * (j - 1) + k <= p.count
                         /\ mem.M[p.addr + 8 * (j - 1) + k - 1]])]

\* An answer with these data, which have to fit the length field.
Reply(data) ==
    /\ Len(data) + 2 <= MaxWord
    /\ answer' = Answer("MC4E", Serial, 0, data)

\* The memory with these values from the address of p on.
Written(p, values) ==
    [mem EXCEPT ![p.sym] =
        [a \in DOMAIN @ |-> IF a - p.addr \in DOMAIN values
                            THEN values[a - p.addr] ELSE @[a]]]

ReadReply(data, bits) ==
    LET p == PointAt(data, 4) IN
    /\ Len(data) = 4 + PointLen(data)
    /\ CanAccess(p, IF bits THEN BitPoints(p) ELSE WordPoints(p))
    /\ IF bits
       THEN /\ p.sym = "M"
            /\ \E pad \in BOOLEAN : Reply(NibbleData(p, pad))
       ELSE Reply(WordData(p))
    /\ UNCHANGED mem

WriteReply(data, bits) ==
    LET p == PointAt(data, 4)
        first == 4 + PointLen(data)
        points == IF bits THEN BitPoints(p) ELSE WordPoints(p)
        nibble(i) == LET b == data[first + (i \div 2) + 1] IN
                     IF i % 2 = 0 THEN b \div 16 ELSE b % 16
        bitOfWord(i) ==
            (Word(data, first + 2 * (i \div 16)) \div 2^(i % 16)) % 2
        value(i) == IF bits THEN nibble(i) # 0
                    ELSE IF p.sym = "M" THEN bitOfWord(i) = 1
                    ELSE Word(data, first + 2 * i)
    IN  /\ Len(data) >= first
        /\ Len(data) = first + (IF bits THEN (p.count + 1) \div 2
                                ELSE 2 * p.count)
        /\ CanAccess(p, points)
        /\ bits => p.sym = "M"
        /\ mem' = Written(p, [i \in {a - p.addr : a \in points} |-> value(i)])
        /\ Reply(<< >>)

BlocksReply(data) ==
    LET n == data[5] + data[6]
        p == [i \in 1..n |-> PointAt(data, 6 + PointLen(data) * (i - 1))]
        words(i) == i <= data[5]
    IN  /\ Len(data) >= 6
        /\ Len(data) = 6 + PointLen(data) * n
        /\ \A i \in 1..n :
               /\ words(i) \/ p[i].sym = "M"
               /\ CanAccess(p[i], IF words(i) THEN WordPoints(p[i])
                                  ELSE BitPoints(p[i]))
        /\ Reply(FlattenSeq([i \in 1..n |->
                       IF words(i) THEN WordData(p[i]) ELSE BitData(p[i])]))
        /\ UNCHANGED mem

ReadCode == 1025
WriteCode == 5121
BlocksCode == 1030
CarriedOut(data) ==
    LET code == Word(data, 0)
        bits == Word(data, 2) \in {1, 3}
    IN  \/ code = ReadCode /\ ReadReply(data, bits)
        \/ code = WriteCode /\ WriteReply(data, bits)
        \/ code = BlocksCode /\ BlocksReply(data)
        \/ code = EchoCode /\ Reply(SubSeq(data, 5, Len(data))) /\ UNCHANGED mem

Execute ==
    /\ pc = "sent"
    /\ pc' = "answered"
    /\ acted' = TRUE
    /\ CarriedOut(TryFromPayload(payload).data)
    /\ UNCHANGED <<series, op, payload, result>>

\* An end code: the PLC is busy, or cannot do it.
BusyCode == 49240
RefusesRequest ==
    /\ pc = "sent"
    /\ pc' = "answered"
    /\ answer' = Answer("MC4E", Serial, BusyCode, << >>)
    /\ UNCHANGED <<series, mem, op, payload, result, acted>>

\* A datagram is cut off (see AnswerWhole of UdpExchange).
CutOff ==
    /\ pc = "answered"
    /\ \E n \in MinCut..(Len(answer) - 1) : answer' = SubSeq(answer, 1, n)
    /\ UNCHANGED <<series, mem, op, pc, payload, result, acted>>

----------------------------------------------------------------------------
Next ==
    \/ \E o \in Ops : Call(o)
    \/ Receive \/ TransportFails
    \/ Execute \/ RefusesRequest \/ CutOff

Spec == Init /\ [][Next]_vars

----------------------------------------------------------------------------
\* Bytes are bytes and words are words, in the frames and in the memory.
TypeOK ==
    /\ series \in {"Q", "R"}
    /\ op \in Ops
    /\ pc \in {"idle", "sent", "answered"}
    /\ DOMAIN mem = {"D", "M"}
    /\ mem.D \in [DOMAIN InitialMemory.D -> Word16]
    /\ mem.M \in [DOMAIN InitialMemory.M -> BOOLEAN]
    /\ payload \in Seq(Byte)
    /\ answer \in Seq(Byte)
    /\ pc # "idle" <=> payload # << >>
    /\ acted => pc = "answered"

\* A write changes its points and no other, a read returns what is there, and
\* a call that is refused, fails or gets an end code never invents a result:
\* encoding, padding, offsets, widths and typed values together implement a
\* memory that knows nothing of bytes.
Memory == INSTANCE DeviceMemory WITH
    phase <- CASE pc = "idle" -> "idle"
               [] pc # "idle" /\ acted -> "done"
               [] OTHER -> "called"
ActsAsMemory == Memory!Spec

\* What that takes of the commands: the calls use those of src/commands.toml, with
\* any limits, and read_blocks has the two templates which that file puts behind
\* write_blocks.
PointFields ==
    <<Field("command", "fixed", 2, FALSE), Field("subcommand", "fixed", 2, FALSE),
      Field("start_addr", "fixed", 3, TRUE), Field("device_code", "fixed", 1, TRUE),
      Field("count", "fixed", 2, TRUE)>>
CountFields ==
    <<PointFields[1], PointFields[2], Field("word_block_count", "fixed", 1, TRUE),
      Field("bit_block_count", "fixed", 1, TRUE)>>
TemplateOf(key, family) ==
    [key |-> key, family |-> family,
     fields |-> <<PointFields[3], PointFields[4], PointFields[5]>>]
Layout(code, sub, family, fields, entries, templates) ==
    [code |-> code, sub |-> [of |-> sub], family |-> family, fields |-> fields,
     entries |-> entries, templates |-> templates]
Layouts ==
    [read_words |-> Layout(ReadCode, [Q |-> 0, R |-> 2], "Any", PointFields,
                           <<Entry("data_blocks", "words", TRUE)>>, << >>),
     read_bits |-> Layout(ReadCode, [Q |-> 1, R |-> 3], "Bit", PointFields,
                          <<Entry("data_blocks", "nibbles", FALSE)>>, << >>),
     write_words |-> Layout(WriteCode, [Q |-> 0, R |-> 2], "Any",
                            Append(PointFields, Field("data", "words", 2, TRUE)),
                            << >>, << >>),
     write_bits |-> Layout(WriteCode, [Q |-> 1, R |-> 3], "Bit",
                           Append(PointFields, Field("payload", "bytes", 0, TRUE)),
                           << >>, << >>),
     read_blocks |-> Layout(BlocksCode, [Q |-> 0, R |-> 2], "Any", CountFields,
                            <<Entry("word_blocks", "words", TRUE),
                              Entry("bit_blocks", "bits", TRUE)>>,
                            <<TemplateOf("word_blocks", "Word"),
                              TemplateOf("bit_blocks", "Bit")>>),
     echo |-> Layout(EchoCode, NoKeys, "Any",
                     <<PointFields[1], PointFields[2],
                       Field("payload", "text", 0, TRUE)>>,
                     <<Entry("payload", "text", TRUE)>>, << >>)]
CommandsStandard ==
    \A o \in Ops : o.do # "echo" =>
        /\ CommandId(o) \in DOMAIN Commands \cap DOMAIN Layouts
        /\ \A part \in DOMAIN Layouts[CommandId(o)] :
               CommandOf(o)[part] = Layouts[CommandId(o)][part]

\* What it takes of the calls: arguments of the types of Rust, and blocks whose
\* numbers fit the bytes of the frame.  build_request does not look:
\* write_n_bytes takes the low bytes.
TypedCall(o) ==
    /\ o.do \in {"read_words", "read_words_as", "read_bits"} => o.count \in Word16
    /\ o.do \in {"write_words_as", "write_bits"} => IsArray(o.values)
    /\ o.do \in {"read_words", "read_words_as", "read_bits", "write_words_as",
                 "write_bits"} => o.addr \in Nat \cup {Absent}
    /\ o.do \in {"read_words_as", "write_words_as"} => o.type \in DOMAIN Memory!Values
    /\ o.do = "read_words" => o.type = "u16"
    /\ o.do = "write_words_as" => ToSet(o.values) \subseteq Memory!Values[o.type]
    /\ o.do = "write_bits" => ToSet(o.values) \subseteq BOOLEAN
BlockFits(b) ==
    /\ Get(b, "start_addr", 0) <= MaxAddress
    /\ Get(b, "count", 0) <= MaxWord
    /\ Get(b, "device_code", Devices.D.code) \in {Devices.D.code, Devices.M.code}
CallsFit ==
    \A o \in Ops :
        /\ o.do \in {"read_words", "read_words_as", "read_bits", "read_blocks",
                     "write_words_as", "write_bits", "echo", "echo_spec"}
        /\ TypedCall(o)
        /\ o.do = "read_blocks" =>
               /\ IsArray(o.words) /\ IsArray(o.bits)
               /\ Len(o.words) <= 255 /\ Len(o.bits) <= 255
               /\ \A b \in ToSet(o.words) \cup ToSet(o.bits) : BlockFits(b)

\* try_from_payload "is the inverse of build_mc_payload": the serial, the route,
\* the length and the data of a request reach a server as they were built.
ServerSeesRequest ==
    pc = "sent" =>
        LET r == TryFromPayload(payload) IN
        /\ r.data = RequestData(op)
        /\ r.serial = Serial
        /\ r.route = DefaultRoute
        /\ r.len = Len(payload) - 13

\* "Resolves per-series subcommand mappings": a server that is told the series
\* finds, by the two codes of a request, the very command the request was built
\* from, in whatever order its hash map is; told nothing, it finds that command
\* or none, never another.
RequestFound ==
    pc = "sent" =>
        LET data == TryFromPayload(payload).data
            found(s) == FindByCodeAndSub(Commands, Word(data, 0), Word(data, 2), s)
        IN  /\ found(series) = {CommandId(op)}
            /\ found(AnySeries) \subseteq {CommandId(op)}

\* What that takes of the commands: a request begins with command and
\* subcommand, echo has those that echo() writes, and two commands differ in
\* the code, or in the subcommands of a series and in those of it and of Q.
BeginsWithCodes(fields) ==
    /\ Len(fields) >= 2
    /\ fields[1].name = "command" /\ fields[2].name = "subcommand"
    /\ \A i \in {1, 2} : fields[i].kind = "fixed" /\ fields[i].n = 2
CommandsApart ==
    /\ \A o \in Ops :
           /\ CommandId(o) \in DOMAIN Commands
           /\ BeginsWithCodes(CommandOf(o).fields)
           /\ o.do = "echo" => CommandOf(o).code = EchoCode
                               /\ CommandOf(o).sub.of = NoKeys
    /\ \A a, b \in DOMAIN Commands : \A s \in {"Q", "R"} :
           a # b /\ Commands[a].code = Commands[b].code =>
               Subcommand(Commands[a].sub, s)
                   \notin {Subcommand(Commands[b].sub, t) : t \in {s, "Q"}}

\* The declared families bind bit calls and block reads: no bits of a word device
\* are sent, and no word blocks of a bit device.  The declared limits bind block
\* reads, and only these: no more points of one category, summed over the blocks,
\* than the limit says.
OnlyAllowedPointsSent ==
    pc = "sent" /\ op.do \in {"read_bits", "write_bits", "read_blocks"} =>
        LET data == TryFromPayload(payload).data
            n == IF op.do = "read_blocks" THEN data[5] + data[6] ELSE 1
            first == IF op.do = "read_blocks" THEN 6 ELSE 4
            limits == CommandOf(op).limits
            p(i) == PointAt(data, first + PointLen(data) * (i - 1))
            total[i \in 0..n] ==
                IF i = 0 THEN [D |-> 0, M |-> 0]
                ELSE [total[i - 1] EXCEPT ![p(i).sym] = @ + p(i).count]
        IN  IF op.do = "read_blocks"
            THEN /\ \A i \in 1..n : p(i).sym = IF i <= data[5] THEN "D" ELSE "M"
                 /\ "Word" \in DOMAIN limits => total[n].D <= limits.Word
                 /\ "Bit" \in DOMAIN limits => total[n].M <= limits.Bit
            ELSE p(1).sym = "M"
====
