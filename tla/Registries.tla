----------------------------- MODULE Registries -----------------------------
(***************************************************************************)
(* The process-wide registries of commands and error codes, used by tasks  *)
(* that create clients, install files of the application and call.         *)
(***************************************************************************)
EXTENDS ErrorFile

CONSTANTS
    Tasks,
    OwnCommands,     \* command registries the application has made
    EmbeddedFile,    \* src/error_codes.toml
    AppFiles,        \* error-code files of the application
    None

\* The ErrorRegistry of each file that loads.
Tables == {Table(f) : f \in {g \in AppFiles \cup {EmbeddedFile} : Readable(g)}}
EmbeddedTable == Table(EmbeddedFile)
AppTables == Tables \ {EmbeddedTable}
Codes == UNION {DOMAIN m : m \in Tables}
Entries == UNION {{m[c] : c \in DOMAIN m} : m \in Tables}

CommandRegistries == OwnCommands \cup {"embedded"}

ASSUME RegistriesAssumption ==
    /\ None \notin Tables /\ None \notin Codes /\ None \notin Entries
    /\ None \notin CommandRegistries
    /\ "embedded" \notin OwnCommands
    /\ EmbeddedTable \in Tables

VARIABLES
    commands,    \* GLOBAL_COMMAND_REGISTRY
    told,        \* history: what set_global has returned Ok for
    errors,      \* ERROR_REGISTRY: the entry of each code
    isSet,       \* ERROR_REGISTRY has been initialized
    pc,          \* where a task is
    table,       \* the table a task is registering
    client,      \* the task has an McClient
    accepted,    \* history: the tables whose registration has returned Ok
    code,        \* the end code a task is reporting
    name,        \* the name it has looked up
    report,      \* the name and description it has reported
    crossed      \* history: tasks whose code got a new entry between lookups

callVars == <<code, name, report>>
vars == <<commands, told, errors, isSet, pc, table, client, accepted, code,
          name, report, crossed>>

Init ==
    /\ commands = None
    /\ told = {}
    /\ errors = [c \in Codes |-> None]
    /\ isSet = FALSE
    /\ pc = [t \in Tasks |-> "idle"]
    /\ table = [t \in Tasks |-> None]
    /\ client = [t \in Tasks |-> FALSE]
    /\ accepted = {}
    /\ code = [t \in Tasks |-> None]
    /\ name = [t \in Tasks |-> None]
    /\ report = [t \in Tasks |-> <<None, None>>]
    /\ crossed = {}

(***************************************************************************)
(* Commands: the first registry that is set stays.                         *)
(***************************************************************************)

\* Faulty variant of SetCommands: the last one stays.
SetCommandsLast(s) ==
    /\ commands' = s
    /\ told' = told \cup {s}

\* OnceCell::set: an error, ignored or returned, when there is a registry.
SetCommands(s) ==
    IF commands = None
    THEN commands' = s /\ told' = told \cup {s}
    ELSE UNCHANGED <<commands, told>>

\* set_global, or load_and_set_global_from_exe_define with a file that loads.
SetGlobal(t, s) ==
    /\ pc[t] = "idle"
    /\ SetCommands(s)
    /\ UNCHANGED <<errors, isSet, pc, table, client, accepted, crossed>>
    /\ UNCHANGED callVars

\* McClient::new, or init_defaults: load_and_set_global_from_src, of which
\* "already set" is ignored; the embedded error codes are registered next.
LoadDefaults(t, where) ==
    /\ pc[t] = "idle"
    /\ SetCommands("embedded")
    /\ pc' = [pc EXCEPT ![t] = where]
    /\ table' = [table EXCEPT ![t] = EmbeddedTable]
    /\ UNCHANGED <<errors, isSet, client, accepted, crossed>>
    /\ UNCHANGED callVars
NewClient(t) == LoadDefaults(t, "register for client")
InitDefaults(t) == LoadDefaults(t, "register")

(***************************************************************************)
(* Error codes: files are merged, entry by entry.                          *)
(***************************************************************************)
Only(m) ==
    [c \in Codes |-> IF c \in DOMAIN m THEN m[c] ELSE None]

\* Faulty variant of Merged: the new table replaces the old one.
MergedReplace(m) == Only(m)

\* Faulty variant of Merged: an entry without a name keeps the one it had.
MergedFieldwise(m) ==
    [c \in Codes |->
        IF c \notin DOMAIN m THEN errors[c]
        ELSE IF m[c].name = None /\ errors[c] # None
        THEN [m[c] EXCEPT !.name = errors[c].name]
        ELSE m[c]]

\* The entries of m are inserted over those of the registry.
Merged(m) ==
    [c \in Codes |-> IF c \in DOMAIN m THEN m[c] ELSE errors[c]]

Registering == {"register", "register for client"}
Merging == {"merge", "merge for client"}

\* from_str or from_path, and register_or_merge if that gives a registry.
RegisterOrMerge(t, m) ==
    /\ pc[t] = "idle"
    /\ pc' = [pc EXCEPT ![t] = "register"]
    /\ table' = [table EXCEPT ![t] = m]
    /\ UNCHANGED <<commands, told, errors, isSet, client, accepted, crossed>>
    /\ UNCHANGED callVars

\* The entries of m take effect; some tasks may be between their two lookups.
Crosses(m) ==
    crossed' = crossed \cup {t \in Tasks : pc[t] = "description"
                                          /\ code[t] \in DOMAIN m}

\* register_or_merge returns Ok, and McClient::new with it.
Registered(t, forClient) ==
    /\ pc' = [pc EXCEPT ![t] = "idle"]
    /\ accepted' = accepted \cup {table[t]}
    /\ client' = [client EXCEPT ![t] = @ \/ forClient]
    /\ Crosses(table[t])
    /\ UNCHANGED <<commands, told, table>>
    /\ UNCHANGED callVars

\* ERROR_REGISTRY.set succeeds: the table is the registry.
SetErrors(t) ==
    /\ pc[t] \in Registering
    /\ ~isSet
    /\ isSet' = TRUE
    /\ errors' = Only(table[t])
    /\ Registered(t, pc[t] = "register for client")

\* Faulty variant of SetErrorsFails: an existing registry is good enough.
SetErrorsFailsOk(t) ==
    /\ pc[t] \in Registering
    /\ isSet
    /\ Registered(t, pc[t] = "register for client")
    /\ UNCHANGED <<errors, isSet>>

\* ERROR_REGISTRY.set fails: somebody else was first.
SetErrorsFails(t) ==
    /\ pc[t] \in Registering
    /\ isSet
    /\ pc' = [pc EXCEPT ![t] = IF @ = "register" THEN "merge"
                               ELSE "merge for client"]
    /\ UNCHANGED <<commands, told, errors, isSet, table, client, accepted,
                   crossed>>
    /\ UNCHANGED callVars

\* The inserts, under the write lock.
Merge(t) ==
    /\ pc[t] \in Merging
    /\ errors' = Merged(table[t])
    /\ Registered(t, pc[t] = "merge for client")
    /\ UNCHANGED isSet

\* register_codes, also by way of a path or the file next to the program: Ok
\* only for the first.
RegisterCodes(t, m) ==
    /\ pc[t] = "idle"
    /\ IF isSet
       THEN UNCHANGED <<errors, isSet, accepted, crossed>>
       ELSE /\ isSet' = TRUE
            /\ errors' = Only(m)
            /\ accepted' = accepted \cup {m}
            /\ Crosses(m)
    /\ UNCHANGED <<commands, told, pc, table, client>>
    /\ UNCHANGED callVars

(***************************************************************************)
(* Calls: check_response_end_code looks an entry up twice, each time under *)
(* the read lock.                                                          *)
(***************************************************************************)
EndCode(t) ==
    /\ pc[t] = "idle"
    /\ client[t]
    /\ commands # None
    /\ \E c \in Codes : code' = [code EXCEPT ![t] = c]
    /\ pc' = [pc EXCEPT ![t] = "name"]
    /\ UNCHANGED <<commands, told, errors, isSet, table, client, accepted, name,
                   report, crossed>>

\* The name, or the description, of an entry, if any.
NameIn(e) == IF e = None THEN None ELSE e.name
DescriptionIn(e) == IF e = None THEN None ELSE e.description

\* code_name and code_description.
NameOf(c) == NameIn(errors[c])
DescriptionOf(c) == DescriptionIn(errors[c])

CodeName(t) ==
    /\ pc[t] = "name"
    /\ name' = [name EXCEPT ![t] = NameOf(code[t])]
    /\ pc' = [pc EXCEPT ![t] = "description"]
    /\ crossed' = crossed \ {t}
    /\ UNCHANGED <<commands, told, errors, isSet, table, client, accepted, code,
                   report>>

\* Faulty variant of CodeDescription: the name stands for the description, too.
CodeDescriptionRaw(t) ==
    /\ pc[t] = "description"
    /\ report' = [report EXCEPT ![t] = <<name[t], name[t]>>]
    /\ pc' = [pc EXCEPT ![t] = "idle"]
    /\ UNCHANGED <<commands, told, errors, isSet, table, client, accepted, code,
                   name, crossed>>

CodeDescription(t) ==
    /\ pc[t] = "description"
    /\ report' = [report EXCEPT ![t] = <<name[t], DescriptionOf(code[t])>>]
    /\ pc' = [pc EXCEPT ![t] = "idle"]
    /\ UNCHANGED <<commands, told, errors, isSet, table, client, accepted, code,
                   name, crossed>>

----------------------------------------------------------------------------
Next == \E t \in Tasks :
    \/ \E s \in OwnCommands : SetGlobal(t, s)
    \/ NewClient(t) \/ InitDefaults(t)
    \/ \E m \in AppTables : RegisterOrMerge(t, m) \/ RegisterCodes(t, m)
    \/ SetErrors(t) \/ SetErrorsFails(t) \/ Merge(t)
    \/ EndCode(t) \/ CodeName(t) \/ CodeDescription(t)

Spec == Init /\ [][Next]_vars

----------------------------------------------------------------------------
\* The codes that the application leaves alone.
OnlyEmbedded ==
    DOMAIN EmbeddedTable \ UNION {DOMAIN m : m \in AppTables}

\* code_category: "Unknown" also for an entry without a category.
CodeCategory(c) ==
    IF errors[c] = None \/ errors[c].category = None THEN "Unknown"
    ELSE errors[c].category

Names == {e.name : e \in Entries} \cup {None}
Descriptions == {e.description : e \in Entries} \cup {None}

TypeOK ==
    /\ commands \in CommandRegistries \cup {None}
    /\ told \subseteq CommandRegistries
    /\ errors \in [Codes -> Entries \cup {None}]
    /\ isSet \in BOOLEAN
    /\ pc \in [Tasks -> {"idle", "name", "description"} \cup Registering
                        \cup Merging]
    /\ table \in [Tasks -> Tables \cup {None}]
    /\ client \in [Tasks -> BOOLEAN]
    /\ accepted \subseteq Tables
    /\ code \in [Tasks -> Codes \cup {None}]
    /\ name \in [Tasks -> Names]
    /\ report \in [Tasks -> Names \X Descriptions]
    /\ crossed \subseteq Tasks

\* "A single authoritative command spec": whoever is told that its command
\* registry is installed has the one that encodes and decodes from then on, for
\* every client; no two are told so.
InForce == \A s \in told : commands = s

\* However registrations race, a file whose registration returned Ok is there as
\* a whole: each of its codes has an entry, now and later.
NothingLost == \A m \in accepted : \A c \in DOMAIN m : errors[c] # None

\* A client can be used as soon as it exists: there is a command registry, every
\* embedded error code has an entry, and those the application has not touched
\* have the category of the embedded file.
ClientReady ==
    \A t \in Tasks : client[t] =>
        /\ commands # None
        /\ \A c \in DOMAIN EmbeddedTable : errors[c] # None
        /\ \A c \in OnlyEmbedded :
               EmbeddedTable[c].category \in {None, CodeCategory(c)}

\* The entries that registrations have given code c so far.  A code that is not
\* built in may have none.
EntriesOf(c) ==
    {m[c] : m \in {n \in accepted : c \in DOMAIN n}}
    \cup (IF c \in DOMAIN EmbeddedTable THEN {} ELSE {None})

\* An error message is made by two lookups while other tasks register files.  Its
\* name and its description are those of entries that were registered for the
\* very code: of one entry, unless a file with an entry for that code was
\* registered between the lookups, of which the message then is a mixture.
OneEntryUnlessCrossed ==
    \A t \in Tasks : code[t] # None /\ pc[t] = "idle" =>
        \E e, f \in EntriesOf(code[t]) :
            /\ report[t] = <<NameIn(e), DescriptionIn(f)>>
            /\ e = f \/ t \in crossed

\* "Adding built-in definitions should not unexpectedly remove or replace
\* user-provided entries."
UserEntriesKept ==
    \A m \in accepted \cap AppTables : \A c \in DOMAIN m : errors[c] = m[c]
====
