----------------------------- MODULE ErrorFile ------------------------------
(***************************************************************************)
(* Files of error codes: how an error_codes.toml becomes a table of        *)
(* entries.  A code is a number or a text; a text is a sequence of         *)
(* characters.                                                             *)
(***************************************************************************)
EXTENDS Integers, SequencesExt

CONSTANT Failed                        \* an Err

LOCAL Texts == INSTANCE DeviceFile WITH Embedded <- << >>

U16(n) == IF n \in 0..65535 THEN n ELSE Failed

\* parse_hex_or_int: hexadecimal behind "0x", decimal otherwise.
CodeOf(raw) ==
    IF "number" \in DOMAIN raw THEN U16(raw.number)
    ELSE LET text == Texts!Trim(raw.text)
             hex == Len(text) >= 2 /\ text[1] = "0" /\ text[2] = "x"
         IN  U16(IF hex
                   THEN Texts!Numeral(SubSeq(text, 3, Len(text)), "Hexadecimal")
                   ELSE Texts!Numeral(text, "Decimal"))

\* from_str: one bad entry makes the file bad.
Readable(file) == \A i \in DOMAIN file : CodeOf(file[i].code) # Failed

\* Each part of an entry may be missing (None of an Option).
EntryOf(raw) ==
    [name |-> raw.name, description |-> raw.description,
     category |-> raw.category]

\* The table that a registration makes of a file: of two entries for a code the
\* last one stays, with nothing of the other.
Table(file) ==
    FoldLeft(LAMBDA map, raw : (CodeOf(raw.code) :> EntryOf(raw)) @@ map,
             << >>, file)
====
