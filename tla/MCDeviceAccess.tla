--------------------------- MODULE MCDeviceAccess ---------------------------
(* DeviceAccess on 4 words and 20 bits. *)
EXTENDS DeviceAccess

Memory4 == [D |-> [a \in 0..3 |-> <<0, 513, 65534, 32768>>[a + 1]],
            M |-> [a \in 0..19 |-> a \in {1, 2, 4, 15, 18}]]

\* commands.toml with block templates and limits for read_blocks, and the words
\* of write_words as "data:words:le", as an application installs it.
AppCommands ==
    [EmbeddedCommands EXCEPT
        ![3] = [@ EXCEPT !.request[6] = <<"data", "words", "le">>],
        ![8] = [@ EXCEPT !.templates = BlockTemplates,
                         !.limits = [word_points |-> 3, bit_points |-> 10]]]

ReadOp(do, type, sym, addr, count) ==
    [do |-> do, type |-> type, sym |-> sym, addr |-> addr, count |-> count]
WriteOp(do, type, sym, addr, values) ==
    [do |-> do, type |-> type, sym |-> sym, addr |-> addr, values |-> values]
Block(sym, addr, count) ==
    [start_addr |-> addr, device_code |-> Devices[sym].code, count |-> count]
BlocksOp(words, bits) ==
    [do |-> "read_blocks", words |-> words, bits |-> bits]

\* Both kinds of devices, a symbol without address, the last word, too many.
WordReads ==
    {ReadOp("read_words", "u16", "D", 0, 2), ReadOp("read_words", "u16", "D", -1, 1),
     ReadOp("read_words", "u16", "D", 3, 2), ReadOp("read_words", "u16", "M", 2, 1),
     ReadOp("read_words", "u16", "D", 0, 0)}

\* An unknown symbol, and the first address that needs four bytes.
Unknown ==
    {ReadOp("read_words", "u16", "Q", 0, 1), ReadOp("read_words", "u16", "Q", -1, 1),
     ReadOp("read_words", "u16", "D", 16777216, 1)}

\* The product 2 * 32769 is 2 more than 16 bits hold.
TypedReads ==
    {ReadOp("read_words_as", type, "D", 1, 1) : type \in {"u16", "i16", "bits16"}}
    \cup {ReadOp("read_words_as", "i32", "D", 0, 2),
          ReadOp("read_words_as", "i32", "D", 2, 1),
          ReadOp("read_words_as", "i16", "M", 0, 1),
          ReadOp("read_words_as", "i32", "D", 0, 32769),
          ReadOp("read_words_as", "i32", "D", 0, 32767)}

BitReads ==
    {ReadOp("read_bits", "u16", "M", 0, 3), ReadOp("read_bits", "u16", "M", 17, 2),
     ReadOp("read_bits", "u16", "D", 0, 3)}

WordWrites ==
    {WriteOp("write_words_as", "i32", "D", 1, <<-2>>),
     WriteOp("write_words_as", "i32", "D", 0, <<65538, 513>>),
     WriteOp("write_words_as", "i16", "D", 3, <<-32768>>),
     WriteOp("write_words_as", "u16", "M", 3, <<33026>>),
     WriteOp("write_words_as", "bits16", "D", 2, <<[i \in 1..16 |-> i \in {1, 9}]>>)}

BitWrites ==
    {WriteOp("write_bits", "u16", "M", 2, <<TRUE, FALSE, TRUE>>),
     WriteOp("write_bits", "u16", "M", 18, <<FALSE, TRUE>>),
     WriteOp("write_bits", "u16", "M", 18, <<TRUE, TRUE, TRUE>>),
     WriteOp("write_bits", "u16", "D", 0, <<TRUE>>),
     WriteOp("write_bits", "u16", "M", 0, << >>)}

\* Two word blocks and a bit block of more than one byte; the wrong device; two
\* word blocks that are within the limit only one by one; no count.
BlockReads ==
    {BlocksOp(<<Block("D", 0, 2), Block("D", 3, 1)>>,
              <<Block("M", 1, 9), Block("M", 18, 1)>>),
     BlocksOp(<<Block("M", 0, 1)>>, << >>),
     BlocksOp(<<Block("D", 0, 2), Block("D", 2, 2)>>, << >>),
     BlocksOp(<<[start_addr |-> 0, device_code |-> 168]>>, << >>)}

Echoes == {WriteOp("echo", "u16", "", 0, v) : v \in {<<48, 65>>, << >>, <<71>>}}
          \cup {WriteOp("echo_spec", "u16", "", 0, v) : v \in {<<70, 57, 97>>, <<58>>}}

AllOps == WordReads \cup Unknown \cup TypedReads \cup BitReads \cup WordWrites
          \cup BitWrites \cup BlockReads \cup Echoes

ASSUME AppCommandsApart == CommandsApart
ASSUME AppCommandsStandard == CommandsStandard
ASSUME AppCallsFit == CallsFit
====
