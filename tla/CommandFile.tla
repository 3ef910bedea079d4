---------------------------- MODULE CommandFile ----------------------------
(***************************************************************************)
(* Files of command definitions: how a commands.toml becomes the registry  *)
(* of CommandSpecs, what validate_str accepts, and how a server finds the  *)
(* command of a request.  A text of the little language of formats is      *)
(* given by its parts at the colons.                                       *)
(***************************************************************************)
EXTENDS Integers, SequencesExt, FiniteSetsExt

CONSTANT Rejected                      \* an Err of the loader

NoKeys == << >>                        \* an empty table or object
AnySeries == "any"                     \* the series is not given
MaxU16 == 65535
U16 == 0..MaxU16

(***************************************************************************)
(* The types of the fields and of the entries.                             *)
(***************************************************************************)
NumberTypes ==
    {[text |-> "1", n |-> 1, le |-> TRUE], [text |-> "2", n |-> 2, le |-> TRUE],
     [text |-> "2le", n |-> 2, le |-> TRUE], [text |-> "3le", n |-> 3, le |-> TRUE],
     [text |-> "2be", n |-> 2, le |-> FALSE]}

Field(name, kind, n, le) == [name |-> name, kind |-> kind, n |-> n, le |-> le]

WordsTypes == {"words", "words_be", "words_le"}

\* The type is all that follows the first colon.  Only a type that begins with
\* "words" may have further colons: words are big-endian unless it ends with "le".
\* Numbers are low byte first unless theirs says otherwise.
ParseFieldSpec(text) ==
    IF Len(text) < 2 \/ (Len(text) > 2 /\ text[2] \notin WordsTypes)
    THEN Rejected
    ELSE CASE text[2] \in {"bytes", "rest", ".."} ->
                  Field(text[1], "bytes", 0, TRUE)
           [] text[2] \in WordsTypes ->
                  Field(text[1], "words", 2,
                        text[Len(text)] \in {"words_le", "le"})
           [] text[2] = "ascii_hex" -> Field(text[1], "text", 0, TRUE)
           [] text[2] \in {t.text : t \in NumberTypes} ->
                  LET t == CHOOSE u \in NumberTypes : u.text = text[2]
                  IN  Field(text[1], "fixed", t.n, t.le)
           [] OTHER -> Rejected

Entry(name, kind, lowFirst) ==
    [name |-> name, kind |-> kind, lowFirst |-> lowFirst]

\* The option turns the order of bits or nibbles round.
ParseEntry(text) ==
    IF Len(text) < 2 THEN Rejected
    ELSE LET option(o) == Len(text) > 2 /\ text[3] = o IN
         CASE text[2] = "blocks_words_le" -> Entry(text[1], "words", TRUE)
           [] text[2] = "blocks_words_be" -> Entry(text[1], "words", FALSE)
           [] text[2] = "blocks_bits_packed" ->
                  Entry(text[1], "bits", ~option("msb"))
           [] text[2] = "blocks_nibbles" ->
                  Entry(text[1], "nibbles", option("low"))
           [] text[2] = "ascii_hex" -> Entry(text[1], "text", TRUE)
           [] OTHER -> Rejected

\* collect::<Result<Vec<_>, _>>: one that is bad makes them all bad.
ParseAll(texts, Parse(_)) ==
    IF \E i \in DOMAIN texts : Parse(texts[i]) = Rejected THEN Rejected
    ELSE [i \in DOMAIN texts |-> Parse(texts[i])]

ParseFamily(text) ==
    CASE text \in {"Bit", "bit"} -> "Bit"
      [] text \in {"Word", "word"} -> "Word"
      [] text \in {"DoubleWord", "doubleword"} -> "DoubleWord"
      [] OTHER -> "Any"

\* The blocks of a template are found under the plural of its name, and have
\* the family of the command when the template has none.
Key(template) == template.name \o "s"

ParseTemplate(raw) ==
    LET fields == ParseAll(raw.fields, ParseFieldSpec) IN
    IF fields = Rejected THEN Rejected
    ELSE [key |-> Key(raw), fields |-> fields,
          family |-> IF raw.family = "" THEN "" ELSE ParseFamily(raw.family)]

\* A number, a table for the series, or nothing.
ParseSubcommand(raw) ==
    CASE raw.type = "number" ->
            IF raw.value \in U16 THEN [of |-> [any |-> raw.value]]
            ELSE Rejected
      [] raw.type = "table" ->
            IF \A s \in DOMAIN raw.of : raw.of[s] \in U16
            THEN [of |-> raw.of] ELSE Rejected
      [] raw.type = "none" -> [of |-> NoKeys]
      [] OTHER -> Rejected

\* A limit that is negative is as good as none.
ParseLimits(raw) ==
    LET name == [Word |-> "word_points", DoubleWord |-> "dword_points",
                 Bit |-> "bit_points"]
        given == {c \in DOMAIN name : name[c] \in DOMAIN raw /\ raw[name[c]] >= 0}
    IN  [c \in given |-> raw[name[c]]]

(***************************************************************************)
(* parse_command_file and validate_str.                                    *)
(***************************************************************************)
CommandIds ==
    {"read_words", "write_words", "read_bits", "write_bits", "echo",
     "read_random_words", "write_random_words", "write_random_bits",
     "read_blocks", "write_blocks"}

\* What serde demands of an entry; a name has to be a table of languages.
WellTyped(raw) ==
    /\ raw.id \in CommandIds
    /\ raw.code \in U16
    /\ raw.name # "text"

ParseCommand(raw) ==
    LET fields == ParseAll(raw.request, ParseFieldSpec)
        entries == ParseAll(raw.response, ParseEntry)
        templates == ParseAll(raw.templates, ParseTemplate)
        sub == ParseSubcommand(raw.sub)
    IN  IF \/ ~WellTyped(raw)
           \/ fields = Rejected \/ entries = Rejected
           \/ templates = Rejected \/ sub = Rejected
        THEN Rejected
        ELSE [id |-> raw.id, code |-> raw.code, sub |-> sub,
              family |-> ParseFamily(raw.family), fields |-> fields,
              entries |-> entries, templates |-> templates,
              limits |-> ParseLimits(raw.limits)]

\* The last entry with an id stays.
ParseCommandFile(file) ==
    IF \E i \in DOMAIN file : ParseCommand(file[i]) = Rejected THEN Rejected
    ELSE [id \in {file[i].id : i \in DOMAIN file} |->
              ParseCommand(file[Max({i \in DOMAIN file : file[i].id = id})])]

\* The checks of one entry: each response is named for a field or for the
\* blocks of a template.  Kinds of responses and subcommands are not looked at.
ValidCommand(raw) ==
    LET fields == ParseAll(raw.request, ParseFieldSpec)
        names == {fields[i].name : i \in DOMAIN fields}
        plurals == {Key(raw.templates[i]) : i \in DOMAIN raw.templates}
    IN  /\ WellTyped(raw)
        /\ fields # Rejected
        /\ \A i \in DOMAIN raw.templates :
               /\ raw.templates[i].repeat \in names
               /\ raw.templates[i].family \in
                      {"", "Bit", "bit", "Word", "word", "DoubleWord",
                       "doubleword", "Any", "any"}
               /\ ParseAll(raw.templates[i].fields, ParseFieldSpec) # Rejected
        /\ \A i \in DOMAIN raw.response :
               /\ Len(raw.response[i]) >= 2
               /\ raw.response[i][1] \in names \cup plurals

ValidFile(file) ==
    /\ \A i \in DOMAIN file : ValidCommand(file[i])
    /\ \A i, j \in DOMAIN file : file[i].id = file[j].id => i = j

(***************************************************************************)
(* Lookups.                                                                *)
(***************************************************************************)

\* The subcommand for a series: of Q when none is given, and of some series
\* (the first of the hash map, as long as the registry lives) when a table
\* does not have it.
Subcommand(sub, series) ==
    LET wanted == IF series = AnySeries THEN "Q" ELSE series IN
    CASE DOMAIN sub.of = {} -> 0
      [] wanted \in DOMAIN sub.of -> sub.of[wanted]
      [] OTHER -> sub.of[CHOOSE s \in DOMAIN sub.of : TRUE]

\* Faulty variant of FindByCodeAndSub: the series is not looked at.
FindIgnoringSeries(specs, code, sub, series) ==
    {id \in DOMAIN specs :
        specs[id].code = code /\ Subcommand(specs[id].sub, AnySeries) = sub}

\* find_by_code_and_sub returns the first of these in the order of a hash map.
FindByCodeAndSub(specs, code, sub, series) ==
    {id \in DOMAIN specs :
        specs[id].code = code /\ Subcommand(specs[id].sub, series) = sub}

(***************************************************************************)
(* src/commands.toml.  Its two block templates belong to write_blocks, the *)
(* command they follow.                                                    *)
(***************************************************************************)
HeaderText == <<<<"command", "2be">>, <<"subcommand", "2be">>>>
PointText ==
    <<<<"start_addr", "3le">>, <<"device_code", "1">>, <<"count", "2le">>>>
CountsText == <<<<"word_block_count", "1">>, <<"bit_block_count", "1">>>>
BlocksText == <<<<"word_blocks", "blocks_words_le">>,
                <<"bit_blocks", "blocks_bits_packed">>>>
BlockTemplates ==
    <<[name |-> "word_block", repeat |-> "word_block_count",
       fields |-> PointText, family |-> "Word"],
      [name |-> "bit_block", repeat |-> "bit_block_count",
       fields |-> PointText, family |-> "Bit"]>>

BySeries(q, r) == [type |-> "table", of |-> [Q |-> q, R |-> r]]
Bits(points) == [bit_points |-> points]
Points == [word_points |-> 960, dword_points |-> 480, bit_points |-> 15360]

RawCommand(id, code, sub, family, request, response, limits) ==
    [id |-> id, name |-> "table", code |-> code, sub |-> sub,
     family |-> family, request |-> request, response |-> response,
     templates |-> << >>, limits |-> limits]

EmbeddedCommands ==
    LET point == HeaderText \o PointText
        counts == HeaderText \o CountsText
    IN
    <<RawCommand("read_words", 1025, BySeries(0, 2), "Any", point,
                 <<<<"data_blocks", "blocks_words_le">>>>, Points),
      RawCommand("read_bits", 1025, BySeries(1, 3), "Bit", point,
                 <<<<"data_blocks", "blocks_nibbles", "high">>>>, Bits(7168)),
      RawCommand("write_words", 5121, BySeries(0, 2), "Any",
                 point \o <<<<"data", "words_le">>>>, << >>, Points),
      RawCommand("write_bits", 5121, BySeries(1, 3), "Bit",
                 point \o <<<<"payload", "bytes">>>>, << >>, Bits(7168)),
      RawCommand("read_random_words", 1027, BySeries(0, 2), "Word", counts,
                 BlocksText, NoKeys),
      RawCommand("write_random_words", 5123, BySeries(0, 2), "Word", counts,
                 << >>, NoKeys),
      RawCommand("write_random_bits", 5123, BySeries(1, 3), "Bit", counts,
                 << >>, NoKeys),
      RawCommand("read_blocks", 1030, BySeries(0, 2), "", counts, BlocksText,
                 NoKeys),
      [RawCommand("write_blocks", 5126, BySeries(0, 2), "", << >>, << >>,
                  NoKeys) EXCEPT !.templates = BlockTemplates],
      RawCommand("echo", 1561, [type |-> "none"], "Any",
                 HeaderText \o <<<<"payload", "ascii_hex">>>>,
                 <<<<"payload", "ascii_hex">>>>, NoKeys)>>
====
