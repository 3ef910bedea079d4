-------------------------- MODULE RegistriesProofs --------------------------
(***************************************************************************)
(* What a client finds in the registries, for any number of tasks, command *)
(* registries and error-code files.                                        *)
(***************************************************************************)
EXTENDS Registries, TLAPS

(***************************************************************************)
(* The tables of the files, which never change.                            *)
(***************************************************************************)

\* An entry of a table is an entry, and not the lack of one.
LEMMA EntryOfTable ==
    ASSUME NEW m \in Tables, NEW c \in DOMAIN m
    PROVE  /\ c \in Codes
           /\ m[c] \in Entries
           /\ m[c] # None
<1>1. c \in Codes
  BY Zenon DEF Codes
<1>2. m[c] \in {m[d] : d \in DOMAIN m}
  OBVIOUS
<1>3. m[c] \in Entries
  BY <1>2, Zenon DEF Entries
<1> QED BY <1>1, <1>3, RegistriesAssumption

\* A code that only the embedded file describes has its entry from there.
LEMMA EmbeddedOnly ==
    ASSUME NEW c \in OnlyEmbedded
    PROVE  /\ c \in DOMAIN EmbeddedTable
           /\ c \in Codes
           /\ EmbeddedTable[c] \in Entries
           /\ EmbeddedTable[c] # None
           /\ \A m \in Tables : c \in DOMAIN m => m = EmbeddedTable
<1>1. c \in DOMAIN EmbeddedTable
  BY DEF OnlyEmbedded
<1>2. \A m \in AppTables : c \notin DOMAIN m
  BY DEF OnlyEmbedded
<1>3. EmbeddedTable \in Tables
  BY RegistriesAssumption
<1> QED BY <1>1, <1>2, <1>3, EntryOfTable DEF AppTables

(***************************************************************************)
(* The invariant.                                                          *)
(***************************************************************************)
Wanted(t) == pc[t] \in Registering \cup Merging
Reading(t) == pc[t] \in {"name", "description"}

\* A task that registers has a table, the embedded one if it makes a client,
\* for whom the commands are there already; merging goes on when another table
\* was registered.
TaskOK(t) ==
    /\ Wanted(t) => table[t] \in Tables
    /\ pc[t] \in {"register for client", "merge for client"}
         => table[t] = EmbeddedTable /\ commands # None
    /\ pc[t] \in Merging => isSet
    /\ client[t] => commands # None /\ EmbeddedTable \in accepted
    /\ Reading(t) => client[t] /\ code[t] \in Codes

\* Nothing is accepted before there is a registry, and what is in the registry
\* comes from a table that was accepted.
TablesKept ==
    /\ ~isSet => accepted = {}
    /\ \A c \in Codes : errors[c] # None =>
           \E m \in accepted : c \in DOMAIN m /\ errors[c] = m[c]

\* The message of a task is made of these two entries.
MadeOf(t, e, f) ==
    /\ report[t] = <<NameIn(e), DescriptionIn(f)>>
    /\ e = f \/ t \in crossed

\* The lookups of a call: the name comes from an entry that is in the registry
\* until a table with the code is registered.
LookupOK(t) ==
    /\ pc[t] = "description" =>
           \E e \in EntriesOf(code[t]) :
               /\ name[t] = NameIn(e)
               /\ errors[code[t]] = e \/ t \in crossed
    /\ ~Reading(t) /\ code[t] # None =>
           \E e, f \in EntriesOf(code[t]) : MadeOf(t, e, f)

IInv ==
    /\ TypeOK
    /\ InForce
    /\ NothingLost
    /\ TablesKept
    /\ \A t \in Tasks : TaskOK(t) /\ LookupOK(t)

LEMMA InitHolds == Init => IInv
<1> SUFFICES ASSUME Init PROVE IInv
  OBVIOUS
<1>1. TypeOK
  BY RegistriesAssumption
  DEF Init, TypeOK, Names, Descriptions, CommandRegistries, Registering, Merging
<1>2. \A t \in Tasks : code[t] = None
  BY DEF Init
<1>3. InForce /\ NothingLost /\ TablesKept
  BY DEF Init, InForce, NothingLost, TablesKept
<1>4. \A t \in Tasks : TaskOK(t) /\ LookupOK(t)
  BY <1>2 DEF Init, TaskOK, LookupOK, Wanted, Reading, Registering, Merging
<1> QED BY <1>1, <1>3, <1>4 DEF IInv

(***************************************************************************)
(* The registry after a registration.                                      *)
(***************************************************************************)

\* What a table does to the registry, alone or merged: its codes get its
\* entries, and no other code changes.
LEMMA OnlyEffect ==
    ASSUME NEW m \in Tables
    PROVE  /\ Only(m) \in [Codes -> Entries \cup {None}]
           /\ \A c \in DOMAIN m : Only(m)[c] = m[c] /\ Only(m)[c] # None
           /\ \A c \in Codes : c \notin DOMAIN m => Only(m)[c] = None
BY EntryOfTable DEF Only

LEMMA MergedEffect ==
    ASSUME NEW m \in Tables, TypeOK
    PROVE  /\ Merged(m) \in [Codes -> Entries \cup {None}]
           /\ \A c \in DOMAIN m : Merged(m)[c] = m[c] /\ Merged(m)[c] # None
           /\ \A c \in Codes : c \notin DOMAIN m => Merged(m)[c] = errors[c]
<1>1. errors \in [Codes -> Entries \cup {None}]
  BY DEF TypeOK
<1> QED BY <1>1, EntryOfTable DEF Merged

\* Registering m as the first table keeps what is claimed of the tables.
LEMMA FirstTable ==
    ASSUME NEW m \in Tables, IInv, ~isSet, isSet' = TRUE,
           errors' = Only(m), accepted' = accepted \cup {m}
    PROVE  NothingLost' /\ TablesKept'
<1>1. accepted' = {m}
  BY DEF IInv, TablesKept
<1>2. NothingLost'
  BY <1>1, OnlyEffect DEF NothingLost
<1>3. TablesKept'
  BY <1>1, OnlyEffect DEF TablesKept
<1> QED BY <1>2, <1>3

\* Merging m keeps it, too.
LEMMA NextTable ==
    ASSUME NEW m \in Tables, IInv, isSet, isSet' = isSet,
           errors' = Merged(m), accepted' = accepted \cup {m}
    PROVE  NothingLost' /\ TablesKept'
<1>1. \A c \in DOMAIN m : errors'[c] # None
  BY MergedEffect DEF IInv
<1>2. \A n \in accepted : \A c \in DOMAIN n : errors'[c] # None
  <2> TAKE n \in accepted
  <2> TAKE c \in DOMAIN n
  <2>1. n \in Tables
    BY DEF IInv, TypeOK
  <2>2. c \in Codes /\ errors[c] # None
    BY <2>1, EntryOfTable DEF IInv, NothingLost
  <2> QED BY <2>2, MergedEffect DEF IInv
<1>3. NothingLost'
  BY <1>1, <1>2 DEF NothingLost
<1>4. ASSUME NEW c \in Codes, errors'[c] # None
      PROVE  \E n \in accepted' : c \in DOMAIN n /\ errors'[c] = n[c]
  <2>1. CASE c \in DOMAIN m
    BY <2>1, MergedEffect DEF IInv
  <2>2. CASE c \notin DOMAIN m
    BY <1>4, <2>2, MergedEffect DEF IInv, TablesKept
  <2> QED BY <2>1, <2>2
<1>5. TablesKept'
  BY <1>4 DEF TablesKept
<1> QED BY <1>3, <1>5

(***************************************************************************)
(* The steps of a task.                                                    *)
(***************************************************************************)

\* More accepted tables give a code more entries.
LEMMA EntriesGrow ==
    ASSUME accepted \subseteq accepted', NEW c, NEW e \in EntriesOf(c)
    PROVE  e \in EntriesOf(c)'
BY DEF EntriesOf

\* What is claimed of the lookups of a task that does not take part in the step,
\* or that neither begins nor ends them.
LEMMA LookupKept ==
    ASSUME NEW u \in Tasks, LookupOK(u), accepted \subseteq accepted',
           code'[u] = code[u], name'[u] = name[u], report'[u] = report[u],
           Reading(u)' <=> Reading(u),
           pc'[u] = "description" => pc[u] = "description",
           u \in crossed => u \in crossed',
           pc[u] = "description"
               => errors'[code[u]] = errors[code[u]] \/ u \in crossed'
    PROVE  LookupOK(u)'
<1>1. ASSUME pc'[u] = "description"
      PROVE  \E e \in EntriesOf(code[u])' :
                 /\ name'[u] = NameIn(e)
                 /\ errors'[code'[u]] = e \/ u \in crossed'
  <2>1. PICK e \in EntriesOf(code[u]) :
            /\ name[u] = NameIn(e)
            /\ errors[code[u]] = e \/ u \in crossed
    BY <1>1 DEF LookupOK
  <2>2. e \in EntriesOf(code[u])'
    BY EntriesGrow
  <2> QED BY <1>1, <2>1, <2>2
<1>2. ASSUME ~Reading(u)', code'[u] # None
      PROVE  \E e, f \in EntriesOf(code[u])' : MadeOf(u, e, f)'
  <2>1. PICK e \in EntriesOf(code[u]), f \in EntriesOf(code[u]) : MadeOf(u, e, f)
    BY <1>2 DEF LookupOK
  <2>2. e \in EntriesOf(code[u])' /\ f \in EntriesOf(code[u])'
    BY EntriesGrow
  <2>3. MadeOf(u, e, f)'
    BY <2>1 DEF MadeOf, NameIn, DescriptionIn
  <2> QED BY <2>2, <2>3
<1> QED BY <1>1, <1>2 DEF LookupOK

\* Setting the commands: whoever is told so has those in force, and commands
\* that are there stay.
LEMMA CommandsKept ==
    ASSUME NEW s \in CommandRegistries, TypeOK, InForce, SetCommands(s)
    PROVE  /\ commands' \in CommandRegistries \cup {None}
           /\ told' \subseteq CommandRegistries
           /\ InForce'
           /\ commands' # None
           /\ commands # None => commands' = commands
<1>1. CASE commands = None
  <2>1. commands' = s /\ told' = told \cup {s}
    BY <1>1 DEF SetCommands
  <2>2. told = {}
    BY <1>1, RegistriesAssumption DEF InForce, TypeOK
  <2>3. InForce'
    BY <2>1, <2>2 DEF InForce
  <2> QED BY <1>1, <2>1, <2>3, RegistriesAssumption DEF TypeOK
<1>2. CASE commands # None
  <2>1. UNCHANGED <<commands, told>>
    BY <1>2 DEF SetCommands
  <2> QED BY <1>2, <2>1 DEF TypeOK, InForce
<1> QED BY <1>1, <1>2

LEMMA SetGlobalKeeps ==
    ASSUME IInv, NEW t \in Tasks, NEW s \in OwnCommands, SetGlobal(t, s)
    PROVE  IInv'
<1>1. s \in CommandRegistries /\ SetCommands(s)
  BY DEF CommandRegistries, SetGlobal
<1>2. InForce' /\ commands' # None
  BY <1>1, CommandsKept DEF IInv
<1>3. TypeOK'
  BY <1>1, CommandsKept DEF IInv, TypeOK, SetGlobal, callVars
<1>4. NothingLost' /\ TablesKept'
  BY DEF IInv, NothingLost, TablesKept, SetGlobal
<1>5. \A u \in Tasks : TaskOK(u)'
  BY <1>2 DEF IInv, TaskOK, Wanted, Reading, SetGlobal, callVars
<1>6. \A u \in Tasks : LookupOK(u)'
  BY LookupKept DEF IInv, Reading, SetGlobal, callVars
<1> QED BY <1>2, <1>3, <1>4, <1>5, <1>6 DEF IInv

LEMMA LoadDefaultsKeeps ==
    ASSUME IInv, NEW t \in Tasks, NEW where \in Registering,
           LoadDefaults(t, where)
    PROVE  IInv'
<1>1. /\ SetCommands("embedded")
      /\ pc[t] = "idle"
      /\ pc' = [pc EXCEPT ![t] = where]
      /\ table' = [table EXCEPT ![t] = EmbeddedTable]
      /\ UNCHANGED <<errors, isSet, client, accepted, crossed, code, name,
                     report>>
  BY DEF LoadDefaults, callVars
<1>2. InForce' /\ commands' # None
  BY <1>1, CommandsKept DEF IInv, CommandRegistries
<1>3. TypeOK'
  BY <1>1, CommandsKept, RegistriesAssumption
  DEF IInv, TypeOK, CommandRegistries
<1>4. NothingLost' /\ TablesKept'
  BY <1>1 DEF IInv, NothingLost, TablesKept
<1>5. \A u \in Tasks : TaskOK(u)'
  BY <1>1, <1>2, RegistriesAssumption
  DEF IInv, TypeOK, TaskOK, Wanted, Reading, Registering, Merging
<1>6. \A u \in Tasks : LookupOK(u)'
  BY <1>1, LookupKept DEF IInv, TypeOK, Reading, Registering
<1> QED BY <1>2, <1>3, <1>4, <1>5, <1>6 DEF IInv

LEMMA RegisterOrMergeKeeps ==
    ASSUME IInv, NEW t \in Tasks, NEW m \in AppTables, RegisterOrMerge(t, m)
    PROVE  IInv'
<1>1. /\ pc[t] = "idle"
      /\ pc' = [pc EXCEPT ![t] = "register"]
      /\ table' = [table EXCEPT ![t] = m]
      /\ m \in Tables
      /\ UNCHANGED <<commands, told, errors, isSet, client, accepted, crossed,
                     code, name, report>>
  BY DEF RegisterOrMerge, callVars, AppTables
<1>2. TypeOK'
  BY <1>1 DEF IInv, TypeOK, Registering
<1>3. InForce' /\ NothingLost' /\ TablesKept'
  BY <1>1 DEF IInv, InForce, NothingLost, TablesKept
<1>4. \A u \in Tasks : TaskOK(u)'
  BY <1>1 DEF IInv, TypeOK, TaskOK, Wanted, Reading, Registering, Merging
<1>5. \A u \in Tasks : LookupOK(u)'
  BY <1>1, LookupKept DEF IInv, TypeOK, Reading
<1> QED BY <1>2, <1>3, <1>4, <1>5 DEF IInv

\* The end of a registration, whichever way it went.
LEMMA RegisteredKeeps ==
    ASSUME IInv, NEW t \in Tasks, Wanted(t),
           Registered(t, pc[t] \in {"register for client", "merge for client"}),
           errors' \in [Codes -> Entries \cup {None}],
           isSet' \in BOOLEAN, isSet => isSet',
           NothingLost', TablesKept',
           \A u \in Tasks : Reading(u) /\ code[u] \notin DOMAIN table[t]
               => errors'[code[u]] = errors[code[u]]
    PROVE  IInv'
<1>1. /\ pc' = [pc EXCEPT ![t] = "idle"]
      /\ accepted' = accepted \cup {table[t]}
      /\ client' = [client EXCEPT ![t] = client[t]
                        \/ pc[t] \in {"register for client", "merge for client"}]
      /\ crossed' = crossed \cup {u \in Tasks : pc[u] = "description"
                                               /\ code[u] \in DOMAIN table[t]}
      /\ UNCHANGED <<commands, told, table, code, name, report>>
  BY DEF Registered, Crosses, callVars
<1>2. table[t] \in Tables
  BY DEF IInv, TaskOK
<1>3. TypeOK'
  <2>1. client' \in [Tasks -> BOOLEAN]
    BY <1>1, Zenon DEF IInv, TypeOK
  <2>2. pc' \in [Tasks -> {"idle", "name", "description"} \cup Registering
                          \cup Merging]
    BY <1>1 DEF IInv, TypeOK
  <2>3. accepted' \subseteq Tables
    BY <1>1, <1>2 DEF IInv, TypeOK
  <2> QED BY <1>1, <2>1, <2>2, <2>3 DEF IInv, TypeOK
<1>4. InForce'
  BY <1>1 DEF IInv, InForce
<1>5. ASSUME NEW u \in Tasks PROVE TaskOK(u)'
  <2>1. CASE u = t
    <3>1. client'[t] => commands' # None /\ EmbeddedTable \in accepted'
      BY <1>1 DEF IInv, TypeOK, TaskOK
    <3>2. pc'[t] = "idle"
      BY <1>1 DEF IInv, TypeOK
    <3> QED BY <2>1, <3>1, <3>2
            DEF TaskOK, Wanted, Reading, Registering, Merging
  <2>2. CASE u # t
    <3>1. pc'[u] = pc[u] /\ client'[u] = client[u]
      BY <1>1, <2>2 DEF IInv, TypeOK
    <3>2. TaskOK(u)
      BY DEF IInv
    <3> QED BY <1>1, <3>1, <3>2 DEF TaskOK, Wanted, Reading
  <2> QED BY <2>1, <2>2
<1>6. ASSUME NEW u \in Tasks PROVE LookupOK(u)'
  <2>1. /\ Reading(u)' <=> Reading(u)
        /\ pc'[u] = "description" => pc[u] = "description"
    BY <1>1 DEF IInv, TypeOK, Reading, Wanted, Registering, Merging
  <2>2. pc[u] = "description"
          => errors'[code[u]] = errors[code[u]] \/ u \in crossed'
    BY <1>1 DEF Reading
  <2>3. u \in crossed => u \in crossed'
    BY <1>1
  <2> QED BY <1>1, <2>1, <2>2, <2>3, LookupKept DEF IInv
<1> QED BY <1>3, <1>4, <1>5, <1>6, TablesKept', NothingLost' DEF IInv

LEMMA SetErrorsKeeps ==
    ASSUME IInv, NEW t \in Tasks, SetErrors(t)
    PROVE  IInv'
<1>1. /\ pc[t] \in Registering
      /\ ~isSet
      /\ isSet' = TRUE
      /\ errors' = Only(table[t])
      /\ Registered(t, pc[t] = "register for client")
  BY DEF SetErrors
<1>2. table[t] \in Tables
  BY <1>1 DEF IInv, TaskOK, Wanted
<1>3. NothingLost' /\ TablesKept'
  BY <1>1, <1>2, FirstTable DEF Registered
<1>4. (pc[t] = "register for client")
        <=> pc[t] \in {"register for client", "merge for client"}
  BY <1>1 DEF Registering
<1>5. Registered(t, pc[t] \in {"register for client", "merge for client"})
  BY <1>1, <1>4 DEF Registered
<1>6. errors' \in [Codes -> Entries \cup {None}]
  BY <1>1, <1>2, OnlyEffect
<1>7. \A u \in Tasks : ~Reading(u)
  BY <1>1 DEF IInv, TaskOK, TablesKept
<1> QED BY <1>1, <1>3, <1>5, <1>6, <1>7, RegisteredKeeps DEF Wanted

LEMMA MergeKeeps ==
    ASSUME IInv, NEW t \in Tasks, Merge(t)
    PROVE  IInv'
<1>1. /\ pc[t] \in Merging
      /\ errors' = Merged(table[t])
      /\ Registered(t, pc[t] = "merge for client")
      /\ UNCHANGED isSet
  BY DEF Merge
<1>2. table[t] \in Tables /\ isSet
  BY <1>1 DEF IInv, TaskOK, Wanted
<1>3. NothingLost' /\ TablesKept'
  BY <1>1, <1>2, NextTable DEF Registered
<1>4. (pc[t] = "merge for client")
        <=> pc[t] \in {"register for client", "merge for client"}
  BY <1>1 DEF Merging
<1>5. Registered(t, pc[t] \in {"register for client", "merge for client"})
  BY <1>1, <1>4 DEF Registered
<1>6. errors' \in [Codes -> Entries \cup {None}]
  BY <1>1, <1>2, MergedEffect DEF IInv
<1>7. isSet' \in BOOLEAN
  BY <1>1 DEF IInv, TypeOK
<1>8. \A u \in Tasks : Reading(u) /\ code[u] \notin DOMAIN table[t]
        => errors'[code[u]] = errors[code[u]]
  BY <1>1, <1>2, MergedEffect DEF IInv, TaskOK
<1> QED BY <1>1, <1>3, <1>5, <1>6, <1>7, <1>8, RegisteredKeeps DEF Wanted

LEMMA SetErrorsFailsKeeps ==
    ASSUME IInv, NEW t \in Tasks, SetErrorsFails(t)
    PROVE  IInv'
<1> DEFINE where == IF pc[t] = "register" THEN "merge" ELSE "merge for client"
<1>1. /\ pc[t] \in Registering
      /\ isSet
      /\ pc' = [pc EXCEPT ![t] = where]
      /\ UNCHANGED <<commands, told, errors, isSet, table, client, accepted,
                     crossed, code, name, report>>
  BY DEF SetErrorsFails, callVars
<1>2. where \in Merging
  BY DEF Merging
<1>3. TypeOK'
  BY <1>1, <1>2 DEF IInv, TypeOK
<1>4. InForce' /\ NothingLost' /\ TablesKept'
  BY <1>1 DEF IInv, InForce, NothingLost, TablesKept
<1>5. \A u \in Tasks : TaskOK(u)'
  BY <1>1 DEF IInv, TypeOK, TaskOK, Wanted, Reading, Registering, Merging
<1>6. \A u \in Tasks : LookupOK(u)'
  BY <1>1, <1>2, LookupKept DEF IInv, TypeOK, Reading, Registering, Merging
<1> QED BY <1>3, <1>4, <1>5, <1>6 DEF IInv

LEMMA Stutters == IInv /\ UNCHANGED vars => IInv'
<1> SUFFICES ASSUME IInv, UNCHANGED vars PROVE IInv'
  OBVIOUS
<1>1. \A t \in Tasks : TaskOK(t)' /\ LookupOK(t)'
  BY LookupKept DEF IInv, TaskOK, Wanted, Reading, vars
<1> QED BY <1>1 DEF IInv, TypeOK, InForce, NothingLost, TablesKept, vars

LEMMA RegisterCodesKeeps ==
    ASSUME IInv, NEW t \in Tasks, NEW m \in AppTables, RegisterCodes(t, m)
    PROVE  IInv'
<1>1. m \in Tables /\ UNCHANGED <<commands, told, pc, table, client, code,
                                   name, report>>
  BY DEF RegisterCodes, AppTables, callVars
<1>2. CASE isSet
  <2>1. UNCHANGED vars
    BY <1>1, <1>2 DEF RegisterCodes, vars
  <2> QED BY <2>1, Stutters
<1>3. CASE ~isSet
  <2>1. /\ isSet' = TRUE /\ errors' = Only(m) /\ accepted' = accepted \cup {m}
        /\ crossed' = crossed \cup {u \in Tasks : pc[u] = "description"
                                                 /\ code[u] \in DOMAIN m}
    BY <1>3 DEF RegisterCodes, Crosses
  <2>2. NothingLost' /\ TablesKept'
    BY <1>1, <1>3, <2>1, FirstTable
  <2>3. TypeOK'
    BY <1>1, <2>1, OnlyEffect DEF IInv, TypeOK
  <2>4. InForce'
    BY <1>1 DEF IInv, InForce
  <2>5. \A u \in Tasks : TaskOK(u)'
    BY <1>1, <2>1 DEF IInv, TaskOK, Wanted, Reading
  <2>6. \A u \in Tasks : ~Reading(u)
    BY <1>3 DEF IInv, TaskOK, TablesKept
  <2>7. \A u \in Tasks : LookupOK(u)'
    BY <1>1, <2>1, <2>6, LookupKept DEF IInv, Reading
  <2> QED BY <2>2, <2>3, <2>4, <2>5, <2>7 DEF IInv
<1> QED BY <1>2, <1>3

(***************************************************************************)
(* The steps of a lookup.                                                  *)
(***************************************************************************)

\* What is found under a code is an entry that was registered for it.
LEMMA FoundEntry ==
    ASSUME IInv, NEW t \in Tasks, Reading(t)
    PROVE  /\ code[t] \in Codes
           /\ errors[code[t]] \in EntriesOf(code[t])
           /\ NameOf(code[t]) \in Names
           /\ DescriptionOf(code[t]) \in Descriptions
<1>1. code[t] \in Codes /\ client[t]
  BY DEF IInv, TaskOK
<1>2. errors[code[t]] \in Entries \cup {None}
  BY <1>1 DEF IInv, TypeOK
<1>3. NameOf(code[t]) \in Names /\ DescriptionOf(code[t]) \in Descriptions
  BY <1>2 DEF NameOf, DescriptionOf, NameIn, DescriptionIn, Names, Descriptions
<1>4. CASE errors[code[t]] = None
  <2>1. code[t] \notin DOMAIN EmbeddedTable
    BY <1>1, <1>4 DEF IInv, TaskOK, NothingLost
  <2> QED BY <1>1, <1>3, <1>4, <2>1 DEF EntriesOf
<1>5. CASE errors[code[t]] # None
  <2>1. PICK m \in accepted :
            code[t] \in DOMAIN m /\ errors[code[t]] = m[code[t]]
    BY <1>1, <1>5 DEF IInv, TablesKept
  <2> QED BY <1>1, <1>3, <2>1 DEF EntriesOf
<1> QED BY <1>4, <1>5

LEMMA EndCodeKeeps ==
    ASSUME IInv, NEW t \in Tasks, EndCode(t)
    PROVE  IInv'
<1>1. PICK c \in Codes :
        /\ pc[t] = "idle" /\ client[t]
        /\ code' = [code EXCEPT ![t] = c]
        /\ pc' = [pc EXCEPT ![t] = "name"]
        /\ UNCHANGED <<commands, told, errors, isSet, table, client, accepted,
                       name, report, crossed>>
  BY DEF EndCode
<1>2. TypeOK'
  BY <1>1 DEF IInv, TypeOK
<1>3. InForce' /\ NothingLost' /\ TablesKept'
  BY <1>1 DEF IInv, InForce, NothingLost, TablesKept
<1>4. \A u \in Tasks : TaskOK(u)'
  BY <1>1 DEF IInv, TypeOK, TaskOK, Wanted, Reading, Registering, Merging
<1>5. ASSUME NEW u \in Tasks PROVE LookupOK(u)'
  <2>1. CASE u = t
    <3>1. pc'[u] = "name"
      BY <1>1, <2>1 DEF IInv, TypeOK
    <3> QED BY <3>1 DEF LookupOK, Reading
  <2>2. CASE u # t
    BY <1>1, <2>2, LookupKept DEF IInv, TypeOK, Reading
  <2> QED BY <2>1, <2>2
<1> QED BY <1>2, <1>3, <1>4, <1>5 DEF IInv

LEMMA CodeNameKeeps ==
    ASSUME IInv, NEW t \in Tasks, CodeName(t)
    PROVE  IInv'
<1>1. /\ pc[t] = "name"
      /\ name' = [name EXCEPT ![t] = NameOf(code[t])]
      /\ pc' = [pc EXCEPT ![t] = "description"]
      /\ crossed' = crossed \ {t}
      /\ UNCHANGED <<commands, told, errors, isSet, table, client, accepted,
                     code, report>>
  BY DEF CodeName
<1>2. /\ NameOf(code[t]) \in Names
      /\ errors[code[t]] \in EntriesOf(code[t])
  BY <1>1, FoundEntry DEF Reading
<1>3. TypeOK'
  BY <1>1, <1>2 DEF IInv, TypeOK
<1>4. InForce' /\ NothingLost' /\ TablesKept'
  BY <1>1 DEF IInv, InForce, NothingLost, TablesKept
<1>5. \A u \in Tasks : TaskOK(u)'
  BY <1>1 DEF IInv, TypeOK, TaskOK, Wanted, Reading, Registering, Merging
<1>6. ASSUME NEW u \in Tasks PROVE LookupOK(u)'
  <2>1. CASE u = t
    <3> DEFINE e == errors[code[t]]
    <3>1. /\ pc'[t] = "description" /\ name'[t] = NameIn(e)
          /\ code'[t] = code[t] /\ errors'[code'[t]] = e
      BY <1>1 DEF IInv, TypeOK, NameOf
    <3>2. e \in EntriesOf(code[t])'
      BY <1>1, <1>2, EntriesGrow
    <3> HIDE DEF e
    <3> QED BY <2>1, <3>1, <3>2 DEF LookupOK, Reading, NameIn
  <2>2. CASE u # t
    BY <1>1, <2>2, LookupKept DEF IInv, TypeOK, Reading
  <2> QED BY <2>1, <2>2
<1> QED BY <1>3, <1>4, <1>5, <1>6 DEF IInv

LEMMA CodeDescriptionKeeps ==
    ASSUME IInv, NEW t \in Tasks, CodeDescription(t)
    PROVE  IInv'
<1>1. /\ pc[t] = "description"
      /\ report' = [report EXCEPT ![t] = <<name[t], DescriptionOf(code[t])>>]
      /\ pc' = [pc EXCEPT ![t] = "idle"]
      /\ UNCHANGED <<commands, told, errors, isSet, table, client, accepted,
                     code, name, crossed>>
  BY DEF CodeDescription
<1>2. /\ DescriptionOf(code[t]) \in Descriptions
      /\ errors[code[t]] \in EntriesOf(code[t])
  BY <1>1, FoundEntry DEF Reading
<1>3. TypeOK'
  BY <1>1, <1>2 DEF IInv, TypeOK
<1>4. InForce' /\ NothingLost' /\ TablesKept'
  BY <1>1 DEF IInv, InForce, NothingLost, TablesKept
<1>5. \A u \in Tasks : TaskOK(u)'
  BY <1>1 DEF IInv, TypeOK, TaskOK, Wanted, Reading, Registering, Merging
<1>6. ASSUME NEW u \in Tasks PROVE LookupOK(u)'
  <2>1. CASE u = t
    <3>1. PICK e \in EntriesOf(code[t]), f \in EntriesOf(code[t]) :
              /\ errors[code[t]] = f
              /\ name[t] = NameIn(e) /\ (e = f \/ t \in crossed)
      BY <1>1, <1>2 DEF IInv, LookupOK
    <3>2. /\ pc'[t] = "idle" /\ code'[t] = code[t]
          /\ report'[t] = <<NameIn(e), DescriptionIn(f)>>
      BY <1>1, <3>1 DEF IInv, TypeOK, DescriptionOf
    <3>3. e \in EntriesOf(code[t])' /\ f \in EntriesOf(code[t])'
      BY <1>1, <1>2, EntriesGrow
    <3>4. MadeOf(t, e, f)'
      BY <1>1, <3>1, <3>2 DEF MadeOf, NameIn, DescriptionIn
    <3>5. LookupOK(t)'
      BY <3>2, <3>3, <3>4 DEF LookupOK
    <3> QED BY <2>1, <3>5
  <2>2. CASE u # t
    BY <1>1, <2>2, LookupKept DEF IInv, TypeOK, Reading
  <2> QED BY <2>1, <2>2
<1> QED BY <1>3, <1>4, <1>5, <1>6 DEF IInv

(***************************************************************************)
(* The theorems.                                                           *)
(***************************************************************************)
LEMMA NextKeeps == IInv /\ [Next]_vars => IInv'
<1> SUFFICES ASSUME IInv, [Next]_vars PROVE IInv'
  OBVIOUS
<1>1. CASE UNCHANGED vars
  BY <1>1, Stutters
<1>2. ASSUME NEW t \in Tasks, NEW s \in OwnCommands, SetGlobal(t, s)
      PROVE  IInv'
  BY <1>2, SetGlobalKeeps
<1>3. ASSUME NEW t \in Tasks, NewClient(t) \/ InitDefaults(t) PROVE IInv'
  BY <1>3, LoadDefaultsKeeps DEF NewClient, InitDefaults, Registering
<1>4. ASSUME NEW t \in Tasks, NEW m \in AppTables,
             RegisterOrMerge(t, m) \/ RegisterCodes(t, m)
      PROVE  IInv'
  BY <1>4, RegisterOrMergeKeeps, RegisterCodesKeeps
<1>5. ASSUME NEW t \in Tasks, SetErrors(t) \/ SetErrorsFails(t) \/ Merge(t)
      PROVE  IInv'
  BY <1>5, SetErrorsKeeps, SetErrorsFailsKeeps, MergeKeeps
<1>6. ASSUME NEW t \in Tasks, EndCode(t) \/ CodeName(t) \/ CodeDescription(t)
      PROVE  IInv'
  BY <1>6, EndCodeKeeps, CodeNameKeeps, CodeDescriptionKeeps
<1> QED BY <1>1, <1>2, <1>3, <1>4, <1>5, <1>6 DEF Next

LEMMA Inductive == Spec => []IInv
BY InitHolds, NextKeeps, PTL DEF Spec

\* Each variable keeps its type, whatever the tasks do.
THEOREM TypeCorrect == Spec => []TypeOK
<1>1. IInv => TypeOK
  BY DEF IInv
<1> QED BY <1>1, Inductive, PTL

\* Whoever was told that its command registry is installed has the one in
\* force: of any number of registries set by any number of tasks the first.
THEOREM InForceCorrect == Spec => []InForce
<1>1. IInv => InForce
  BY DEF IInv
<1> QED BY <1>1, Inductive, PTL

\* No race of registrations loses a file that was registered.
THEOREM NothingLostCorrect == Spec => []NothingLost
<1>1. IInv => NothingLost
  BY DEF IInv
<1> QED BY <1>1, Inductive, PTL

\* A client finds commands, all embedded codes, and the embedded entries of the
\* codes that no other file describes.
THEOREM ClientReadyCorrect == Spec => []ClientReady
<1>1. ASSUME IInv, NEW t \in Tasks, client[t]
      PROVE  /\ commands # None
             /\ \A c \in DOMAIN EmbeddedTable : errors[c] # None
             /\ \A c \in OnlyEmbedded :
                    EmbeddedTable[c].category \in {None, CodeCategory(c)}
  <2>1. commands # None /\ EmbeddedTable \in accepted
    BY <1>1 DEF IInv, TaskOK
  <2>2. \A c \in DOMAIN EmbeddedTable : errors[c] # None
    BY <1>1, <2>1 DEF IInv, NothingLost
  <2>3. ASSUME NEW c \in OnlyEmbedded
        PROVE  EmbeddedTable[c].category \in {None, CodeCategory(c)}
    <3>1. errors[c] # None
      BY <2>2, EmbeddedOnly
    <3>2. PICK m \in accepted : c \in DOMAIN m /\ errors[c] = m[c]
      BY <1>1, <3>1, EmbeddedOnly DEF IInv, TablesKept
    <3>3. errors[c] = EmbeddedTable[c]
      BY <1>1, <3>2, EmbeddedOnly DEF IInv, TypeOK
    <3> QED BY <3>1, <3>3 DEF CodeCategory
  <2> QED BY <2>1, <2>2, <2>3
<1>2. IInv => ClientReady
  BY <1>1 DEF ClientReady
<1> QED BY <1>2, Inductive, PTL

\* The name and the description of a message come from registered entries of its
\* code; they come from two entries only if a registration with that code came
\* between the two lookups, for any number of tasks and files.
THEOREM OneEntryCorrect == Spec => []OneEntryUnlessCrossed
<1>1. IInv => OneEntryUnlessCrossed
  BY DEF IInv, LookupOK, MadeOf, Reading, OneEntryUnlessCrossed
<1> QED BY <1>1, Inductive, PTL

\* A message about a code that no file of the application describes has the built-in
\* name and description, however many registrations come between the lookups.
COROLLARY BuiltInReported ==
    Spec => [](\A t \in Tasks : code[t] \in OnlyEmbedded /\ pc[t] = "idle"
                  => report[t] = <<NameIn(EmbeddedTable[code[t]]),
                                   DescriptionIn(EmbeddedTable[code[t]])>>)
<1> DEFINE Own(t) == code[t] \in OnlyEmbedded /\ pc[t] = "idle"
               => report[t] = <<NameIn(EmbeddedTable[code[t]]),
                                DescriptionIn(EmbeddedTable[code[t]])>>
<1>1. ASSUME IInv, NEW t \in Tasks PROVE Own(t)
  <2> SUFFICES ASSUME code[t] \in OnlyEmbedded, pc[t] = "idle"
               PROVE  report[t] = <<NameIn(EmbeddedTable[code[t]]),
                                    DescriptionIn(EmbeddedTable[code[t]])>>
    OBVIOUS
  <2>1. code[t] # None
    BY EmbeddedOnly, RegistriesAssumption
  <2>2. PICK e \in EntriesOf(code[t]), f \in EntriesOf(code[t]) : MadeOf(t, e, f)
    BY <1>1, <2>1 DEF IInv, LookupOK, Reading
  <2>3. \A e1 \in EntriesOf(code[t]) : e1 = EmbeddedTable[code[t]]
    BY <1>1, EmbeddedOnly DEF EntriesOf, IInv, TypeOK
  <2> QED BY <2>2, <2>3 DEF MadeOf
<1>2. IInv => \A t \in Tasks : Own(t)
  BY <1>1
<1> QED BY <1>2, Inductive, PTL
====
