----------------------------- MODULE DeviceFile -----------------------------
(***************************************************************************)
(* Device lists and device texts: how src/devices.toml and                 *)
(* define/device.toml become lists of devices, and how a text like "D100"  *)
(* or "W1FFF" becomes a device and an address.  Texts and symbols are      *)
(* sequences of characters.                                                *)
(***************************************************************************)
EXTENDS Integers, SequencesExt

CONSTANTS
    Embedded,    \* the entries of src/devices.toml
    Failed       \* Err, or the None of a lookup

(***************************************************************************)
(* The files.  An entry has a symbol, a code, a category, a base (which    *)
(* may be any text) and the series.                                        *)
(***************************************************************************)
Known(e) == e.code <= 255

EmbeddedSymbols == {e.symbol : e \in {d \in ToSet(Embedded) : Known(d)}}

CodeByName ==
    [s \in EmbeddedSymbols |->
        Embedded[Max({i \in DOMAIN Embedded :
                          Known(Embedded[i]) /\ Embedded[i].symbol = s})].code]

EmbeddedCodes == {CodeByName[s] : s \in EmbeddedSymbols}

\* NAME_BY_CODE is made in the order of a hash map: where two symbols have
\* one code, either may be the name of the code, in this process.
NamesByCode ==
    {[c \in EmbeddedCodes |-> CHOOSE s \in kept : CodeByName[s] = c] :
        kept \in {k \in SUBSET EmbeddedSymbols :
                      \A c \in EmbeddedCodes :
                          \E s \in k : {r \in k : CodeByName[r] = c} = {s}}}

Acceptable(e) ==
    /\ e.category \in {"Bit", "Word", "DoubleWord"}
    /\ e.base \in {"Decimal", "Hexadecimal"}
    /\ e.series \subseteq {"Q", "R"}
    /\ Known(e)
    /\ e.code \in EmbeddedCodes

\* A device does not keep the symbol of its entry.
DeviceOfEntry(e) ==
    [code |-> e.code, category |-> e.category, base |-> e.base]

\* parse_devices_toml: one bad entry makes the file bad.
ParseDevices(entries) ==
    IF \A i \in DOMAIN entries : Acceptable(entries[i])
    THEN [i \in DOMAIN entries |-> DeviceOfEntry(entries[i])]
    ELSE Failed

\* The list in the crate, or an empty one.
CompiledDevices ==
    LET list == ParseDevices(Embedded) IN
    IF list = Failed THEN << >> ELSE list

(***************************************************************************)
(* The tables made from a list.  The last device of a name or code stays.  *)
(***************************************************************************)
SymbolsOf(list, names) == {names[list[i].code] : i \in DOMAIN list}

\* Faulty variant of BySymbol: the first device of a name stays.
BySymbolFirst(list, names, sym) ==
    IF sym \in SymbolsOf(list, names)
    THEN list[Min({i \in DOMAIN list : names[list[i].code] = sym})]
    ELSE Failed

BySymbol(list, names, sym) ==
    IF sym \in SymbolsOf(list, names)
    THEN list[Max({i \in DOMAIN list : names[list[i].code] = sym})]
    ELSE Failed

ByCode(list, code) ==
    IF \E i \in DOMAIN list : list[i].code = code
    THEN list[Max({i \in DOMAIN list : list[i].code = code})]
    ELSE Failed

(***************************************************************************)
(* The texts.                                                              *)
(***************************************************************************)
Capitals == <<"A", "B", "C", "D", "E", "F", "G", "H", "I", "J", "K", "L", "M",
              "N", "O", "P", "Q", "R", "S", "T", "U", "V", "W", "X", "Y", "Z">>
Smalls == <<"a", "b", "c", "d", "e", "f", "g", "h", "i", "j", "k", "l", "m",
            "n", "o", "p", "q", "r", "s", "t", "u", "v", "w", "x", "y", "z">>
HexDigits == <<"0", "1", "2", "3", "4", "5", "6", "7", "8", "9",
               "A", "B", "C", "D", "E", "F">>
HexLetters == {HexDigits[i] : i \in 11..16}

IsLetter(c) == c \in ToSet(Capitals) \cup ToSet(Smalls)
Capital(c) ==
    IF c \in ToSet(Smalls) THEN Capitals[CHOOSE i \in 1..26 : Smalls[i] = c]
    ELSE c
Uppercase(text) == [i \in DOMAIN text |-> Capital(text[i])]

\* Without the blanks at both ends.
Blank == " "
Trim(text) ==
    LET inked == {i \in DOMAIN text : text[i] # Blank} IN
    IF inked = {} THEN << >> ELSE SubSeq(text, Min(inked), Max(inked))

\* Faulty variant of SymbolLen: a digit A to F ends the symbol.
SymbolLenShort(text) ==
    Max({n \in 0..Len(text) : \A i \in 1..n :
             /\ IsLetter(text[i])
             /\ i > 1 => Capital(text[i]) \notin HexLetters})

\* All letters at the beginning, so a hexadecimal address that begins with a
\* letter becomes a part of the symbol.
SymbolLen(text) ==
    Max({n \in 0..Len(text) : \A i \in 1..n : IsLetter(text[i])})

SymbolPart(text) == Uppercase(SubSeq(text, 1, SymbolLen(text)))
NumberPart(text) == Trim(SubSeq(text, SymbolLen(text) + 1, Len(text)))

Radix(base) == IF base = "Hexadecimal" THEN 16 ELSE 10
DigitsOf(base) == {HexDigits[i] : i \in 1..Radix(base)}
DigitValue(c) == (CHOOSE i \in 1..16 : HexDigits[i] = Capital(c)) - 1

\* A plus is allowed.
Plus == "+"
Unsigned(part) == IF part # << >> /\ part[1] = Plus THEN Tail(part) ELSE part

IsNumber(body, base) ==
    body # << >> /\ \A i \in DOMAIN body : Capital(body[i]) \in DigitsOf(base)

AddressMax == 16777215

\* u32::from_str_radix, and the check against 0xFFFFFF.
Numeral(part, base) ==
    LET body == Unsigned(part)
        value[i \in 0..Len(body)] ==
            IF i = 0 THEN 0
            ELSE Min({Radix(base) * value[i - 1] + DigitValue(body[i]),
                      AddressMax + 1})
        number == value[Len(body)]
    IN  IF IsNumber(body, base) /\ number <= AddressMax THEN number ELSE Failed

OnlyLetters(text) == \A i \in DOMAIN text : IsLetter(text[i])

\* The helpers look a symbol up; other texts are refused without a table.
NeedsTable(text) ==
    LET t == Trim(text) IN
    \/ SymbolLen(t) > 0 /\ NumberPart(t) # << >>
    \/ OnlyLetters(text)

\* parse_device_and_address.
ParseDeviceAndAddress(list, names, text) ==
    LET t == Trim(text)
        device == BySymbol(list, names, SymbolPart(t))
        addr == Numeral(NumberPart(t), device.base)
    IN  IF \/ SymbolLen(t) = 0 \/ NumberPart(t) = << >>
           \/ device = Failed \/ addr = Failed
        THEN Failed
        ELSE [device |-> device, addr |-> addr]

\* start_addr and device_code of the parameter helpers, as one reading: a
\* symbol alone has the address 0.
ReadingOf(list, names, text) ==
    LET full == ParseDeviceAndAddress(list, names, text)
        alone == BySymbol(list, names, Uppercase(text))
    IN  IF full # Failed THEN full
        ELSE IF OnlyLetters(text) /\ alone # Failed
        THEN [device |-> alone, addr |-> 0]
        ELSE Failed
====
