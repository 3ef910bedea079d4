---------------------------- MODULE DeviceTables ----------------------------
(***************************************************************************)
(* What "D100" means in a process.  DEVICE_BY_SYMBOL turns the text into a *)
(* device code when the parameters are made; DEVICE_BY_CODE turns the code *)
(* back into a device when the request is built or its answer decoded.     *)
(* Each table is made once, by the first task that needs it, from the list *)
(* of get_runtime_devices_slice, which reads define/device.toml.           *)
(***************************************************************************)
EXTENDS DeviceFile

CONSTANTS
    Tasks,
    Files,       \* what define/device.toml may hold: name -> entries
    Texts,       \* the device texts of the application
    Stable,      \* TRUE: the file is acceptable always or never
    None

\* The files that parse_devices_toml accepts.
Good == {f \in DOMAIN Files : ParseDevices(Files[f]) # Failed}

Names == {"bySymbol", "byCode"}
Lists == Good \cup {"compiled"}
Contents == DOMAIN Files \cup {"absent"}

DevicesOf(list) ==
    IF list = "compiled" THEN CompiledDevices ELSE ParseDevices(Files[list])

\* A text that means something means one of these.
Addresses == 0..AddressMax
Devices == UNION {ToSet(DevicesOf(l)) : l \in Lists}
Meanings == [device : Devices, addr : Addresses]

ASSUME DeviceAssumption ==
    /\ Stable \in BOOLEAN
    /\ {"absent", "compiled", None} \cap DOMAIN Files = {}
    /\ None \notin {"absent", "compiled", "bySymbol", "byCode"}
    /\ None \notin Tasks \cup Texts
    /\ Failed \notin Addresses \cup Meanings
    /\ \A s \in Texts : s \in Seq(STRING)
    /\ Len(Embedded) \in Nat /\ DOMAIN Embedded = 1..Len(Embedded)
    /\ \A e \in ToSet(Embedded) : e.symbol \in Seq(ToSet(Capitals))
    /\ \A f \in DOMAIN Files :
           Len(Files[f]) \in Nat /\ DOMAIN Files[f] = 1..Len(Files[f])

VARIABLES
    names,        \* NAME_BY_CODE
    file,         \* define/device.toml next to the executable
    store,        \* RUNTIME_DEVICES_STORE
    tables,       \* DEVICE_BY_SYMBOL and DEVICE_BY_CODE: the list of each
    maker,        \* the task that runs the initializer of a table
    pc,           \* where a task is
    want,         \* the table a task makes
    parsed,       \* the list a task has parsed from the file
    text,         \* the device text of a task
    named,        \* the device and the address the text means to the helpers
    checked,      \* the device with its code, when the request is built
    overrides,    \* DEVICE_OVERRIDES: the file they come from
    registered    \* the files whose registration has returned Ok

tableVars == <<names, file, store, tables, maker, want, parsed>>
textVars == <<text, named, checked>>
vars == <<tableVars, textVars, pc, overrides, registered>>

Init ==
    /\ names \in NamesByCode
    /\ file \in Contents
    /\ store = None
    /\ tables = [n \in Names |-> None]
    /\ maker = [n \in Names |-> None]
    /\ pc = [t \in Tasks |-> "idle"]
    /\ want = [t \in Tasks |-> None]
    /\ parsed = [t \in Tasks |-> None]
    /\ text = [t \in Tasks |-> None]
    /\ named = [t \in Tasks |-> Failed]
    /\ checked = [t \in Tasks |-> Failed]
    /\ overrides = None
    /\ registered = {}

(***************************************************************************)
(* A task makes a request for a device text.                               *)
(***************************************************************************)

\* create_*_params with a text.
Ask(t) ==
    /\ pc[t] = "idle"
    /\ \E s \in Texts :
          /\ text' = [text EXCEPT ![t] = s]
          /\ pc' = [pc EXCEPT ![t] = IF NeedsTable(s) THEN "symbol" ELSE "idle"]
    /\ named' = [named EXCEPT ![t] = Failed]
    /\ checked' = [checked EXCEPT ![t] = Failed]
    /\ UNCHANGED <<tableVars, overrides, registered>>

\* Faulty variant of Name: the file is looked up each time.
NameFresh(t) ==
    /\ pc[t] = "symbol"
    /\ tables["bySymbol"] # None
    /\ named' = [named EXCEPT ![t] = ReadingOf(DevicesOf(
                    IF file \in Good THEN file ELSE "compiled"), names, text[t])]
    /\ pc' = [pc EXCEPT ![t] = IF named'[t] = Failed THEN "idle" ELSE "code"]
    /\ UNCHANGED <<tableVars, text, checked, overrides, registered>>

\* The text by the first table.  Without a device there is no request.
Name(t) ==
    /\ pc[t] = "symbol"
    /\ tables["bySymbol"] # None
    /\ named' = [named EXCEPT ![t] =
                    ReadingOf(DevicesOf(tables["bySymbol"]), names, text[t])]
    /\ pc' = [pc EXCEPT ![t] = IF named'[t] = Failed THEN "idle" ELSE "code"]
    /\ UNCHANGED <<tableVars, text, checked, overrides, registered>>

\* The code by the second table, in validate_code_for_family and the limits.
Check(t) ==
    /\ pc[t] = "code"
    /\ tables["byCode"] # None
    /\ checked' = [checked EXCEPT ![t] =
                      ByCode(DevicesOf(tables["byCode"]), named[t].device.code)]
    /\ pc' = [pc EXCEPT ![t] = "idle"]
    /\ UNCHANGED <<tableVars, text, named, overrides, registered>>

(***************************************************************************)
(* The tables.                                                             *)
(***************************************************************************)
Needs(t) == IF pc[t] = "symbol" THEN "bySymbol" ELSE "byCode"

\* The first task that needs a table makes it, others wait.
Make(t) ==
    /\ pc[t] \in {"symbol", "code"}
    /\ tables[Needs(t)] = None
    /\ maker[Needs(t)] = None
    /\ maker' = [maker EXCEPT ![Needs(t)] = t]
    /\ want' = [want EXCEPT ![t] = Needs(t)]
    /\ pc' = [pc EXCEPT ![t] = "read"]
    /\ UNCHANGED <<names, file, store, tables, parsed, textVars, overrides,
                   registered>>

\* get_q_devices and get_r_devices want no table.
ListDevices(t) ==
    /\ pc[t] = "idle"
    /\ pc' = [pc EXCEPT ![t] = "read"]
    /\ UNCHANGED <<tableVars, textVars, overrides, registered>>

\* Faulty variant of ReadFile: a list with bad entries is kept, too.
ReadFileUnchecked(t) ==
    /\ pc[t] = "read"
    /\ parsed' = [parsed EXCEPT ![t] = IF file = "absent" THEN None ELSE file]
    /\ pc' = [pc EXCEPT ![t] = IF file = "absent" THEN "get" ELSE "set"]
    /\ UNCHANGED <<names, file, store, tables, maker, want, textVars,
                   overrides, registered>>

\* find_define_device_toml, the read and the parse; a bad file is logged.
ReadFile(t) ==
    /\ pc[t] = "read"
    /\ parsed' = [parsed EXCEPT ![t] = IF file \in Good THEN file ELSE None]
    /\ pc' = [pc EXCEPT ![t] = IF file \in Good THEN "set" ELSE "get"]
    /\ UNCHANGED <<names, file, store, tables, maker, want, textVars,
                   overrides, registered>>

\* Faulty variant of SetStore: the list read last is the one in the store.
SetStoreLast(t) ==
    /\ pc[t] = "set"
    /\ store' = parsed[t]
    /\ pc' = [pc EXCEPT ![t] = "get"]
    /\ UNCHANGED <<names, file, tables, maker, want, parsed, textVars,
                   overrides, registered>>

\* RUNTIME_DEVICES_STORE.set, "ignore if already set".
SetStore(t) ==
    /\ pc[t] = "set"
    /\ store' = IF store = None THEN parsed[t] ELSE store
    /\ pc' = [pc EXCEPT ![t] = "get"]
    /\ UNCHANGED <<names, file, tables, maker, want, parsed, textVars,
                   overrides, registered>>

\* The store, or else the compiled list; the table is made from it.
GetSlice(t) ==
    /\ pc[t] = "get"
    /\ LET slice == IF store = None THEN "compiled" ELSE store IN
       IF want[t] = None
       THEN UNCHANGED <<tables, maker>>
       ELSE /\ tables' = [tables EXCEPT ![want[t]] = slice]
            /\ maker' = [maker EXCEPT ![want[t]] = None]
    /\ pc' = [pc EXCEPT ![t] = CASE want[t] = "bySymbol" -> "symbol"
                                 [] want[t] = "byCode" -> "code"
                                 [] OTHER -> "idle"]
    /\ want' = [want EXCEPT ![t] = None]
    /\ parsed' = [parsed EXCEPT ![t] = None]
    /\ UNCHANGED <<names, file, store, textVars, overrides, registered>>

(***************************************************************************)
(* The overrides, which the tables never look at.                          *)
(***************************************************************************)

\* Faulty variant of RegisterOverrides: the last registration stays.
RegisterOverridesLast(t) ==
    /\ pc[t] = "idle"
    /\ \E f \in DOMAIN Files :
          /\ overrides' = f
          /\ registered' = registered \cup {f}
    /\ UNCHANGED <<tableVars, textVars, pc>>

\* DeviceRegistry::register_overrides of any file, good or bad: an error when
\* there are overrides.
RegisterOverrides(t) ==
    /\ pc[t] = "idle"
    /\ \E f \in DOMAIN Files :
          /\ overrides' = IF overrides = None THEN f ELSE overrides
          /\ registered' = IF overrides = None THEN registered \cup {f}
                           ELSE registered
    /\ UNCHANGED <<tableVars, textVars, pc>>

\* Somebody installs another device.toml (not part of the crate).
Install ==
    /\ file' \in Contents
    /\ Stable => (file' \in Good <=> file \in Good)
    /\ UNCHANGED <<names, store, tables, maker, want, parsed, textVars, pc,
                   overrides, registered>>

----------------------------------------------------------------------------
Next ==
    \/ \E t \in Tasks :
          \/ Ask(t) \/ Name(t) \/ Check(t)
          \/ Make(t) \/ ListDevices(t) \/ ReadFile(t) \/ SetStore(t)
          \/ GetSlice(t) \/ RegisterOverrides(t)
    \/ Install

Spec == Init /\ [][Next]_vars

----------------------------------------------------------------------------
TypeOK ==
    /\ names \in NamesByCode
    /\ file \in Contents
    /\ store \in Good \cup {None}
    /\ tables \in [Names -> Lists \cup {None}]
    /\ maker \in [Names -> Tasks \cup {None}]
    /\ pc \in [Tasks -> {"idle", "symbol", "code", "read", "set", "get"}]
    /\ want \in [Tasks -> Names \cup {None}]
    /\ parsed \in [Tasks -> Good \cup {None}]
    /\ text \in [Tasks -> Texts \cup {None}]
    /\ named \in [Tasks -> Meanings \cup {Failed}]
    /\ checked \in [Tasks -> Devices \cup {Failed}]
    /\ overrides \in DOMAIN Files \cup {None}
    /\ registered \subseteq DOMAIN Files

\* The two tables come from one device list, also when they are made at
\* different times and the file is replaced in between: the code that one
\* gives for a symbol is the one the other knows.  (This needs Stable.)
TablesAgree ==
    tables["bySymbol"] # None /\ tables["byCode"] # None
        => tables["bySymbol"] = tables["byCode"]

\* The device whose category is checked against the command is the one the
\* text names, so a word device never passes for a bit device.
ChecksNamedDevice ==
    \A t \in Tasks : checked[t] # Failed => checked[t] = named[t].device

\* One text means one device and one address in the whole process, in every
\* task and at all times, whatever is installed in between.
SameReading ==
    \A t, u \in Tasks :
        /\ text[t] = text[u]
        /\ checked[t] # Failed
        /\ pc[u] = "idle" /\ text[u] # None
        => named[t] = named[u] /\ checked[t] = checked[u]

\* The value of a text of digits, by the weights of its places.
ValueOf(part, base) ==
    LET weight[k \in 0..Len(part)] ==
            IF k = 0 THEN 1 ELSE Radix(base) * weight[k - 1]
        value[k \in 0..Len(part)] ==
            IF k = 0 THEN 0
            ELSE value[k - 1] + weight[k - 1] * DigitValue(part[Len(part) - k + 1])
    IN  value[Len(part)]

\* Split behind n characters, a text reads as a device and an address.
Behind(s, n) == Unsigned(Trim(SubSeq(s, n + 1, Len(s))))
Reads(list, s, n) ==
    LET device == BySymbol(list, names, Uppercase(SubSeq(s, 1, n)))
    IN  /\ device # Failed
        /\ IsNumber(Behind(s, n), device.base)
        /\ ValueOf(Behind(s, n), device.base) <= AddressMax
Readings(list, s) == {n \in 1..Len(s) : Reads(list, s, n)}

\* A text that is accepted reads as that device and address and in no other way,
\* and one that is refused does not read at all, unless its address begins
\* with a letter.  Letters alone are the address 0, never a number.
OnlyReading ==
    \A t \in Tasks :
        text[t] # None /\ pc[t] \in {"idle", "code"} /\ tables["bySymbol"] # None =>
            LET s == Trim(text[t])
                readings == Readings(DevicesOf(tables["bySymbol"]), s)
            IN  IF named[t] = Failed
                THEN \A n \in readings : IsLetter(s[n + 1])
                ELSE IF OnlyLetters(s)
                THEN named[t].addr = 0
                ELSE \E n \in readings :
                        /\ readings = {n}
                        /\ Uppercase(SubSeq(s, 1, n)) = names[named[t].device.code]
                        /\ ValueOf(Behind(s, n), named[t].device.base)
                              = named[t].addr

\* What that takes of the lists: no symbol is one of a hexadecimal device with
\* the digits A to F behind it.
SymbolsApart ==
    \A l \in Lists, nm \in NamesByCode :
        \A p, q \in SymbolsOf(DevicesOf(l), nm) :
            /\ BySymbol(DevicesOf(l), nm, p).base = "Hexadecimal"
            /\ Len(p) < Len(q) /\ SubSeq(q, 1, Len(p)) = p
            => \E i \in (Len(p) + 1)..Len(q) : q[i] \notin HexLetters

\* No two registrations have succeeded, and what is registered is the first.
OneRegistration ==
    IF overrides = None THEN registered = {} ELSE registered = {overrides}

\* The symbols that device.rs:155 names as examples (D, TS, LTN) are known
\* when the compiled list is in use: every symbol of it is.
EmbeddedSymbolsKnown ==
    tables["bySymbol"] = "compiled" =>
        EmbeddedSymbols \subseteq SymbolsOf(CompiledDevices, names)
====
