# A verification of melsec_mc

`melsec_mc` is a client library for Mitsubishi PLCs: it turns calls such as
`read_words("D100", 4)` into MC3E or MC4E frames, exchanges them over TCP or UDP
and decodes the answers.  This directory holds TLA+ models of it, the TLC runs
that check them and the proofs that TLAPS checks.

## 1. Inventory

| Component | Source | State | Operations | What makes it correct |
|---|---|---|---|---|
| TCP transport, connection pool | `transport.rs` 26-221 | `TARGET_CONNS`: for each "host:port" a tokio mutex over an optional stream and its time of use; for each call a socket and a buffer | `send_and_recv_tcp`, `perform_stream_io` | exchanges with one target exclude each other; a socket has one owner; a call gets its own answer; no path keeps the mutex |
| Retry loop | `mc_client.rs` 585-640 | attempt counter | `send_and_recv_with_retry` | bounded resends; a success means the request took effect |
| UDP transport | `transport.rs` 223-328 | a socket for each address, a buffer, counters | `send_and_recv_udp` | as above, with loss, duplicates and foreign datagrams |
| Frame detection, reassembly | `mc_frame.rs` 20-75, `transport.rs` 64-122 | the bytes read so far | `detect_frame`, the read loop | the answer is found however TCP cuts it; the scan ends |
| Frame parsing, end codes | `mc_frame.rs` 77-207, `response.rs`, `mc_client.rs` 260-283 | none | `parse_frame`, `parse_mc_payload`, `check_response_end_code` | the client sees the end code and the data the PLC sent |
| Request builder | `request.rs` | `SERIAL_COUNTER` (atomic) | `next_serial`, `try_with_request_data`, `build_with_format`, `try_from_payload` | serials are never 0; the length field covers the data |
| Command registry, codec | `command_registry.rs`, `commands.rs`, `commands.toml` | `GLOBAL_COMMAND_REGISTRY` (set once) | parse and validate a command file, set the registry (five ways), `find_by_code_and_sub`, `build_request`, `parse_response`, parameter helpers | one registry for encoding and decoding, known to whoever set it; a file is loaded as a whole or refused; no count or address is cut silently |
| Error-code registry | `error_codes.rs` | `ERROR_REGISTRY`: a set-once cell with a read-write lock | parse a file (codes as numbers or texts), `register_codes`, `register_or_merge`, lookups of name, description and category | no registered entry is lost; a message describes one entry, or those before and after a registration |
| Device tables, overrides | `device.rs`, `device_registry.rs`, `device_code.rs` | the names of the codes, the compiled and the runtime list, two lazy tables, `DEVICE_OVERRIDES` | lookups, `get_runtime_devices_slice`, `register_overrides`, `parse_device_and_address` | the table that encodes and the one that checks agree; one text means one device and address for the life of the process |
| Typed words | `mc_client.rs` 23-177, 323-523 | none | `FromWords`, `ToWords`, `read_words_as`, `write_words_as`, `write_bits` | round trips; no overflow of counts |
| Configuration, endpoint, errors | `config.rs`, `endpoint.rs`, `error.rs`, `toml_helpers.rs` | environment, read once | getters | - |

How they interact.  A call of `McClient` takes a `CommandSpec` from the global
registry, encodes its parameters (looking devices up in the device tables), wraps
the bytes into a request with a fresh serial, and hands the payload to the retry
loop, which calls a transport.  The transports share state between tasks only
through `TARGET_CONNS`.  The answer goes through `parse_mc_payload`, the end-code
check (which looks names up in the error registry) and `parse_response`.

What is hard here: futures that interleave at awaits and can be dropped at any of
them; a pooled connection that outlives the exchange; requests that are written,
given up and carried out later; reads that end anywhere in a frame; datagrams
that are lost or foreign; process-wide cells that several tasks initialize at
once.  `PROJECT.json` lists these hazards at their lines.

## 2. Modules

| Module | Models | Lines of thought |
|---|---|---|
| `AtLeastOnce` | the abstract promise of a call | a request is sent at most `Limit` times, each copy is lost or takes effect once, success needs an effect, copies of a failed call may still take effect |
| `McTransport` | retry loop, `send_and_recv_tcp`, `perform_stream_io`, the pool, the PLCs and the network | one action for each await to await step of a call |
| `McTransportProofs` | - | types, exclusion, ownership, answers and resends of `McTransport`, and that it refines `AtLeastOnce` |
| `McFrame` | layouts, `detect_frame`, `parse_frame`, end-code check | operators on byte sequences, EXTENDed by `FrameScanner` |
| `FrameScanner` | the read loop of `perform_stream_io` on bytes | one action for each exit or `continue` of the loop |
| `FrameFacts` | - | induction over numbers in the form of sets, facts about `FlattenSeq`, the parts of an MC4E frame |
| `FrameScannerProofs` | - | the theorems about `FrameScanner`; EXTENDS `FrameFacts` |
| `UdpExchange` | retry loop and `send_and_recv_udp` | one call; it refines `AtLeastOnce`, too |
| `UdpExchangeProofs` | - | the theorems about `UdpExchange` |
| `ErrorFile` | the files of error codes | how a file becomes a table, or is refused |
| `CommandFile` | command files: formats, templates, subcommands, limits, `validate_str`, `find_by_code_and_sub` | a text of the small language of formats is given by its parts at the colons |
| `Registries` | command and error registries | one action for each access to a cell or lock; EXTENDS `ErrorFile` |
| `RegistriesProofs` | - | the theorems about `Registries` |
| `DeviceFile` | device files, names of codes, `parse_device_and_address` | operators on entries and on texts, which are sequences of characters |
| `DeviceTables` | the lazy tables, their use for one text, overrides | one action for each access to a cell, with the file as environment; EXTENDS `DeviceFile` |
| `DeviceTablesProofs` | - | the theorems about `DeviceTables` |
| `RequestCodec` | `McRequest`: building and `try_from_payload` | EXTENDS `McFrame` |
| `CommandCodec` | `CommandSpec`: `build_request`, `parse_response`, parameter helpers | EXTENDS `RequestCodec` and `CommandFile`; operators on parameter objects (records in which a key may be missing) |
| `TypedWords` | `FromWords`, `ToWords` | operators on words |
| `DeviceMemory` | the abstract promise of the operations of `McClient` | a memory of bits; a call takes effect at most once, a success returns what is there |
| `DeviceAccess` | `read_words`, `read_words_as`, `read_bits`, `write_words`, `write_words_as`, `write_bits`, `echo`, commands of the application | composes `CommandCodec` and `TypedWords` with a PLC; refines `DeviceMemory` |
| `CodecProofs` | - | the theorems about `CommandFile`, `CommandCodec`, `TypedWords` and the frames of `DeviceAccess` |
| `MemoryProofs` | - | that `DeviceAccess` refines `DeviceMemory`, and which points it asks for; EXTENDS `CodecProofs` |
| `MC...` | instances for TLC | small sets, symmetry |

`McTransport` and `FrameScanner` are two views of the same loop: `McTransport`
treats a frame as one message, `FrameScanner` shows when that is right.  The test
of the serial is the same in both (`Matches`, `Matching`).

### McTransport

A member of `Calls` is one API call.  Its place `pc` stands for the await it is
at: `resolve` (`lookup_host`), `lock` (the mutex of the target; tokio grants it in
order, so waiters form a `queue`), `connect`, `write`, `read`, `backoff`; then `ok`,
`err` or `cancelled`.  `stream` is the `TcpStream` the future owns, `cached` the
`Option` behind the mutex, `holder` the guard.  Dropping a stream (`DropStream`) loses
what was not read, while what was written may still reach the PLC: `toPlc` outlives
the stream, and a connection name is used again only when nothing is in transit on
it.  A read returns any number of the frames that have arrived; frames behind the
answer die with the local buffer.  A pooled stream found too old is dropped: how
old it is, is a choice (`AcquireFresh` with a cached stream).  `Cancel` is the caller
dropping the future at any await.

The PLC (`Execute`, `AnswerTwice`) carries the requests of a connection out in order
and may, up to `MaxDup` times, answer twice; `PeerClose` breaks a connection, losing
requests and perhaps answers.  `last` remembers which request a PLC carried out
last, `sent` and `applied` count: they are history and no guard reads them.

Simplifications: times are choices (a timeout may fire whenever the client has
one); `write_all` is one step, and a write that fails or is cut short leaves no
complete request; an address of a target does not change the PLC behind it; a task
that makes several calls in turn is the interleavings in which they do not overlap.

### FrameScanner and McFrame

`items` is what the PLC sends, `wire` the bytes not read, `buf` the buffer.  `Read`
appends any piece of the wire; `TakeFrame`, `DropFrame`, `SkipByte` and `NeedMore` are the
turns of the inner loop.  With `HeadersWhole` no read leaves 11 to 14 bytes of an
answer, which is what a PLC that sends an answer in one segment gives; without it
the code goes wrong (findings).

### UdpExchange

Each attempt and each address binds a socket of its own, so calls share nothing
and one call is enough.  `here` and `gone` count copies of the request in transit
from the open and from closed sockets, `cap` is `buf.len()`.  Answers may be lost, reordered
with strays, or duplicated; duplicates of requests are not modelled.

### Registries and ErrorFile

The command registry is a cell that is set once: by `set_global`, by the file next to the
program, by `McClient::new` and by `init_defaults`, each of which either tells its caller that
the cell was taken or ignores it.  `told` remembers who was told that its registry is in force.
`register_or_merge` is two steps: the attempt to set the cell and, if that fails, the
inserts under the write lock.  The message of an end code takes two lookups, name and
description, with the lock released between them; `crossed` remembers during whose lookups a file with the very
code was registered.  Such a message may mix two entries: the application's description of `0xC061`
behind the built-in name.  `OneEntryUnlessCrossed` says that this is the only way to get a mixture.  A file is a sequence of entries whose
codes are numbers or texts (`"0xC061"`, `" 49249"`); `ErrorFile` reads it as `from_str` does: one
code that is no 16-bit number refuses the file, the last entry of a code stays.

### DeviceTables and DeviceFile

`NAME_BY_CODE` is made in the order of a hash map; where two symbols of `devices.toml` have one
code, which of them names the code differs from process to process, so `names` is chosen in `Init`.
Each of the two lazy tables is made by the first task that wants it (`maker`), in three steps:
read the file, set the store, take the slice.  A task that makes a call turns its text into
a device and an address through `DEVICE_BY_SYMBOL` and looks the device up again by its
code, through `DEVICE_BY_CODE`, when the request is built.  The file may change at any time (with `Stable`,
only between contents of one kind: acceptable, or not).  `ParseDeviceAndAddress` reads a text
character by character: all letters at its beginning are the symbol, the rest is the address in the
base of the device, so a hexadecimal address has to start with a digit.  `OnlyReading` compares that with
a definition of its own: a text may be cut into a symbol and an address at every place, and an address is worth the
sum of its digits by the weights of their places.  An accepted text has one such reading, the accepted one.  That
asks `SymbolsApart` of the list: no symbol begins with that of a hexadecimal device and goes on with letters that are
digits.

### DeviceAccess, CommandCodec, TypedWords and RequestCodec

One call at a time goes the whole way: `Call` makes parameters, request data and a
frame, or refuses; a PLC (`Execute`, external) takes the frame apart, byte by byte, on
a memory of words and bits; `Receive` is `parse_mc_payload`, the end-code check,
`parse_response` and the conversion of values.  The PLC knows nothing of
`CommandCodec`: it reads widths from the subcommand, so an error that encoding and
decoding share does not cancel out.  `DeviceMemory` sees neither frames nor words but
bits, defined without any of the operators of the codec.

The symbols are `D` (words) and `M` (bits); their numbers and categories are those of
`devices.toml`.  An address of -1 stands for a symbol without an address.  `"i32"` stands
for `u32`, `i32` and `f32`, whose conversions are the same up to the name of the bits.
`write_words` is `write_words_as` with type `u16`.  Frames are MC4E: MC3E answers do
not reach the client (see the findings).  `MinCut` is 15: an answer that is cut to 11 to 14
bytes, as a UDP receive buffer can cut it, is taken for a frame with a short header, and
its length field is returned as data; with `MinCut` 11 `ActsAsMemory` is violated.  `mem`, the
PLC's, and `acted` are outside the client.

`read_blocks` is a command with block templates: the limits of `commands.toml` are only
enforced for such commands, so what `OnlyAllowedPointsSent` says of limits it says of block reads; what it says of
families it says of bit calls, too.

## 3. Runs

| Run | Specification and bounds | Shows |
|---|---|---|
| `MCMcTransport_pool` | 3 timed calls, 1 target, 3 connections, 1 attempt, 2 addresses, all serials equal | `TypeOK`, `SerializedTraffic`, `StreamOwnership`, `PrivateExchange`, `OwnAnswer`, `ExchangeInvariant`, `BoundedResend`, `TakesEffectInOrder` |
| `MCMcTransport_waits` | one timed and one untimed call, 1 target, 2 connections, 2 attempts, 1 address, 2 serials, 1 double answer, `FairSpec` | `OwnAnswer`, `KeepsPromise`, `TimedCallReturns`, `EveryCallReturns` |
| `MCFrameScanner_answers` | streams of 1 or 2 answers (3 serials, 2 end codes, 3 data fields) and of 2 or 3 items with malformed and oversized headers; every cut but those of `HeadersWhole` | `TypeOK`, `Aligned`, `AnswerFound`, `AnswerIntact`, `AnswerCarriesSerial`, `ScanEnds` |
| `MCUdpExchange_loops` | 2 attempts, 2 addresses, 2 UDP attempts, 2 strays, 1 duplicate | `TypeOK`, `SendBudget`, `OwnAnswer`, `KeepsPromise`, `CallReturns` |
| `MCRegistries_races` | 2 tasks, 2 command registries of the application, an error file that overlaps the embedded one in one code, 6 files that are refused | `TypeOK`, `InForce`, `NothingLost`, `ClientReady`, `OneEntryUnlessCrossed` |
| `MCDeviceTables_installed` | 2 tasks, a part of the embedded list in which two symbols share a code, 4 contents of the file, 10 texts, `Stable` | `TypeOK`, `TablesAgree`, `ChecksNamedDevice`, `SameReading`, `OnlyReading`, `OneRegistration` |
| `MCDeviceAccess_roundtrip` | 4 words, 20 bits, calls with good and bad arguments, commands of an application with every kind of field and entry, Q and R series, end codes, answers cut to any length from 15 bytes | `TypeOK`, `ServerSeesRequest`, `RequestFound`, `OnlyAllowedPointsSent`, `ActsAsMemory` |

The other five runs are the disagreements below.

Why the bounds are enough.  Pool: two calls race for a connection and a third
finds what they left; a third connection is one that is dropped while its request is still on
the way; with two addresses the inner loop of the transport turns and a call writes to a
second connection; with
`SerialMax` 1 the serial check does not help, so the exclusion alone has to give each call its
answer.  Waits: two attempts are one failure and one retry, the call that waits
in the mutex is the timed or the untimed one, and with a double answer the serial check has to help, so
there are as many serials as calls.  Scanner: two
frames have every relation of a dropped to a returned one, and serials and data
contain the byte that starts a frame.  UDP: each of the three loops turns twice.
Registries: every race is one of two tasks at one cell or lock; the tables have a code only one of
them describes, and one that both do, so that its entry is replaced between two lookups of a call, and one file names a code twice.  Device tables: a table is made by one task
while the other waits for it or uses the other table; the file is absent, bad, or one of two good ones that
change the base and category of a device or the code of a symbol; the texts have a prefix that is a symbol
of its own, an address in either base, one with a letter that is a digit, none at all, and one out of range.
Device access: counts are odd and even, beyond one byte of bits and beyond the memory; words
have the sign bit of either width; blocks are two of a kind with a kind behind them, so every
offset depends on a block before; the element counts are the two on either side of 65535
words; addresses are the first one that is too large.  The codec treats a point like its
neighbours, so longer blocks add nothing.

### Fairness

`FairSpec` asks weak fairness of `Proceed(c)`: the executor polls every started call
and its timers fire.  Each `Proceed` step of a waiting call is enabled only when it
is at the head of the queue of a free mutex, and tokio's mutex is first come first
served, so weak fairness is enough.  Nothing is asked of the PLC, and under this alone
`TimedCallReturns` holds: a timed call returns, unless a call without a timer waits for the PLC
in front of it, inside the mutex.  Such a call may wait there for ever if the PLC stays silent; `EveryCallReturns` is therefore
an implication whose premise, `PlcAnswers`, is that a PLC carries out and answers what reaches it.
`MaxDup` and `MaxStray` bound frames
that do not match: each restarts the read timeout, and an endless stream of them
would hold a call for ever.  The scan of the buffer has no await, hence `WF(Scan)`.

### Disagreements found

| Run | Says | Does |
|---|---|---|
| `MCFrameScanner_fragment` | `mc_frame.rs:22-23`: "Returns Ok(None) when the header is incomplete" | with 11 to 14 bytes of an MC4E answer `detect_frame` reads the access route as a length; with the default route the length is too large, a byte is dropped and the answer is not found |
| `MCFrameScanner_mc3e` | `tests/real/real_mc_format.rs:110`: MC3E responses without a serial are parsed | the transport compares a part of the access route with serial 0 and drops every MC3E answer |
| `MCUdpExchange_shrunk` | `transport.rs:224`: "receive a single response packet" | after a shorter datagram was discarded the answer is cut off |
| `MCRegistries_policy` | `docs/registry_policy.md:9-10`: built-in definitions do not replace user-provided entries | `register_or_merge` overwrites them each time a client is created |
| `MCDeviceTables_symbols` | `device.rs:155`: symbols are given "e.g. "D", "TS", "LTN"" | `devices.toml` gives `LTN` and `LSTN` one code, and a device keeps only its code: in each process one of the two names the code, as the order of a hash map has it, and the other is unknown |

Seen while reading, not made a run:

- Tables: the first lookup makes them from `define/device.toml`, where `docs/commands.md:106` says that
  overrides are not applied automatically, and the overrides that are registered are never consulted;
  `Z` is declared a bit device.
- Error codes: `error_codes.rs:5-6`, 275 and 287 speak of a fallback to the embedded entries that
  does not exist; a text without `0x` is decimal, so `"0054"` is 54.
- Command files: `validate_str` refuses the crate's own `commands.toml` (the `data_blocks` of `read_words`
  is neither a field nor a template) and accepts response kinds and subcommand types that the loader
  refuses; `validate_exe_define` does the same for files next to the program.  The example of
  `docs/commands.md:12` and 36 gives `name` as a text, which does not load.  `command:2be` is
  written low byte first, where `docs/commands.md:18` has
  explicit endianness (the PLC does want it low byte first).  The limits of `read_words` and its
  like have no effect, because limits are only compared with blocks; the block templates of the
  embedded file belong to `write_blocks`, whose `request_format` is empty, and not to `read_blocks`;
  a 256th block makes the block count 0.
- Requests: `try_from_payload` (`request.rs:156`, "the inverse of `build_mc_payload`") does
  not recover the timer of an MC4E request, which is the reason why `ServerSeesRequest` does not
  mention it; the first serial is 2, where `request.rs:7` says that the counter starts
  at 1 (the counter does, the first request does not).

## 4. Proofs

`McTransportProofs` proves, for every value of the constants allowed by
`TransportAssumption` (any number of calls, targets, connections, attempts, addresses):

| Theorem | Statement |
|---|---|
| `TypeCorrect` | `Spec => []TypeOK` |
| `SerializedCorrect` | `Spec => []SerializedTraffic` |
| `OwnershipCorrect` | `Spec => []StreamOwnership` |
| `OwnAnswerCorrect` | `MaxDup = 0 => (Spec => []OwnAnswer)` |
| `PrivateExchangeCorrect` | `MaxDup = 0 => (Spec => []PrivateExchange)` |

`TypeOK` alone is not inductive: `Connect` takes one from `left`, so `CallShape` says that
a connecting call has an address left and that a call owns a stream exactly while
it writes or reads.  `SerializedTraffic` needs `MutexShape`, which ties the places of a
call to the holder of the mutex and says that the slot is empty while the mutex is
held.  `StreamOwnership` is inductive over the two, because a new connection is one
nobody owns and a stream moves between a call and the slot of its target.
`OwnAnswer` is far from inductive: the serials may all be equal, so it rests on what is
in transit.  `Traffic` says that a pooled or new connection is silent and that the
connection of an exchange holds nothing but that call's one request or one answer.
The conjunction `ExchangeInvariant` is an invariant of the run `MCMcTransport_pool`, too.
`MaxDup = 0` is the assumption that a PLC answers a request once; without it only the
serials protect a call, and the run `MCMcTransport_waits` checks that.

The second half of the module builds on these:

| Theorem | Statement |
|---|---|
| `SendsBounded` | a call writes its request at most `Attempts * (MaxRemotes + 1)` times: to the pooled connection and to each address, in each attempt |
| `BoundedResendCorrect` | `MaxDup = 0 => (Spec => []BoundedResend)` |
| `ExchangeInvariantCorrect` | `MaxDup = 0 => (Spec => []ExchangeInvariant)` |
| `KeepsPromiseCorrect` | `MaxDup = 0 => (Spec => KeepsPromise)`: `McTransport` implements `AtLeastOnce` |
| `TakesEffectInOrderCorrect` | `MaxDup = 0 => (Spec => TakesEffectInOrder)` |

`Budget` ties the number of writes to the loop counters, so each write is paid for by a turn.  `Accounts`
says that effects and the connections that still carry the request together are no more than the
writes, which is what `AtLeastOnce` asks of its `copies`; a success maps to `Succeed` because, by
`Traffic`, the answer on the connection is to a request that was carried out.
`TakesEffectInOrder` is an action property over requests on several connections.  Its invariant, `LastInOrder`,
is about targets where no call met a failure: all that was written to them has been carried out but for the
request of the exchange that runs, so the call whose answer waits to be read is the one the PLC carried out last.

`UdpExchangeProofs` does the same for UDP, for any number of attempts, addresses, UDP attempts, foreign
datagrams and duplicates:

| Theorem | Statement |
|---|---|
| `TypeCorrect`, `SendBudgetCorrect` | `Spec => []TypeOK`, `Spec => []SendBudget` |
| `OwnAnswerCorrect` | `StraysDiffer => (Spec => []OwnAnswer)` |
| `KeepsPromiseCorrect` | `StraysDiffer => (Spec => KeepsPromise)` |

`Loops` says where the three loop counters can be at each place, `Reckoning` adds the sends that
are still possible to those that happened.  `StraysDiffer` is that nobody else sends a datagram of four
and more bytes with this serial; the serial is all that a UDP call has to tell its answer, so without it the
theorem is false.  `SendBudget` needs no such assumption.

`FrameScannerProofs` is about every stream of bytes and every way it is cut into reads:

| Theorem | Statement |
|---|---|
| `TypeCorrect` | `Spec => []TypeOK` |
| `AnswerCarriesSerialCorrect` | `Format = "MC4E" => (Spec => []AnswerCarriesSerial)` |
| `AlignedCorrect`, `AnswerFoundCorrect`, `AnswerIntactCorrect` | `Format = "MC4E" /\ HeadersWhole => (Spec => []Aligned)`, `AnswerFound`, `AnswerIntact` |

`ScannerAssumption` says no more of `Inputs` than that its elements are streams of bytes.  The serial that the transport
expects is computed from the payload, `ExpectedIsSerial`; it is never 0, so what
matches is a frame with a whole MC4E header.  For MC3E the formula is false, as the run `MCFrameScanner_mc3e` shows, and
without `HeadersWhole` the other three are, as `MCFrameScanner_fragment` shows.

The inductive invariant `ScanInv` says of every stream that the buffer is a window of it: what was read and not
yet given away (`Windows`), and that no read ended in bytes 11 to 14 of an answer (`Uncut`).  For a stream of answers
it adds that the window begins where an answer begins, behind answers to other serials (`Placed`), and that a result is the
first answer to this request (`Delivered`).  The invariant is stable because the frame that `DetectFrame` finds at the start of a whole
answer is that answer, whatever bytes follow, and because it finds none in a piece of up to 10 bytes or with data
that are still to come.  Where an answer starts is the sum of the lengths of those before it; `FrameFacts` has the
induction that takes: the set of the numbers of which a formula holds contains 0 and each successor.

`RegistriesProofs`, for any number of tasks and any files:

| Theorem | Statement |
|---|---|
| `TypeCorrect`, `InForceCorrect`, `NothingLostCorrect` | `Spec => []TypeOK`, `InForce`, `NothingLost` |
| `ClientReadyCorrect`, `OneEntryCorrect` | `Spec => []ClientReady`, `OneEntryUnlessCrossed` |
| `BuiltInReported` | a message about a code that no file of the application describes has the built-in name and description, always |

The inductive invariant adds `TablesKept` (nothing is accepted before there is a registry, and each entry of the registry is that
of an accepted table), `TaskOK` (what a task is about to register is a table
that was parsed, and a merge follows somebody's set) and `LookupOK` (the name that was read first is that of an entry
which is still the registry's, unless a table with the code was registered since).  A code that only the embedded file describes
has one entry at most, which gives `ClientReady` its categories and `BuiltInReported` its messages.

`DeviceTablesProofs`, for any number of tasks, any embedded list, files and texts:

| Theorem | Statement |
|---|---|
| `TypeCorrect` | `Spec => []TypeOK` |
| `TablesAgreeCorrect` | `Stable => (Spec => []TablesAgree)` |
| `ChecksNamedDeviceCorrect` | `Stable => (Spec => []ChecksNamedDevice)` |
| `SameReadingCorrect` | `Spec => []SameReading` |
| `OneRegistrationCorrect` | `Spec => []OneRegistration` |
| `OnlyReadingCorrect` | `SymbolsApart => (Spec => []OnlyReading)` |

A table that was made stays, and what was made from the store stays equal to it; `Stable` rules out that one
table is made before the file becomes acceptable and the other after it.  `TypeOK` is proved together with `ReadingInv`:
that what a task found is a device of some list, with an address of 24 bits, rests on where its two tables come from.

`OnlyReading` is about texts, lists and files of any length.  The code reads digits from the left and gives up
beyond 24 bits; the lemmas `LeftIsRight` and `NumeralReads` show that what it gets is the sum of the digits by their
weights, cut off at the same limit.  A second reading would need a symbol that is longer or shorter than the letters
in front: none is longer, because symbols are letters, and a shorter one leaves letters that are digits, which
`SymbolsApart` excludes.
That holds of `src/devices.toml`: its hexadecimal devices `X`, `Y`, `B`, `W`, `SB`, `SW`, `DX`, `DY` begin no other symbol
that goes on with `A` to `F` only.  TLC evaluates it for the lists of the runs.  A file that made `S` or `L`
hexadecimal would break it, because `SB`, `SD` and `LCC` are symbols, too.

`CodecProofs` proves of the operators of the codec, and of `DeviceAccess`, what TLC sees at a few values only:

| Theorem | Statement |
|---|---|
| `TypedRoundTrip` | `FromWords` undoes `ToWords` for every `u16`, `i16` and 32-bit value |
| `NibbleRoundTrip` | the nibble decoder undoes `PackNibbles` for every number of points |
| `ValidFileKeepsAll` | a command file that `validate_str` accepts and that loads loses no command: under each id is what that entry says |
| `AccessTypeCorrect` | `Spec => []TypeOK` of `DeviceAccess` |
| `ServerSeesRequestCorrect` | `Spec => []ServerSeesRequest` |
| `RequestFoundCorrect` | `CommandsApart => (Spec => []RequestFound)` |

The first three are about operators, need no invariant, and split the arithmetic of `\div` and `%` from
the selection of a type.  The others are about any commands, calls with any arguments, memories and cuts.
`AccessInv` follows the bytes through every field of a command: each parameter helper gives bytes or refuses, so
requests and answers are bytes, and what the PLC stores are words again.  `SentInv` says that what is on the way was
made by `TryWithRequestData` and `BuildRequest`; the length field covers what is behind it because request data are
bounded by `MaxData`.  The addresses of the PLC's memory are numbers (`AccessAssumption`).  `CommandsApart` is that the commands of the calls are known and carry their codes in front, and that two commands
differ in their code or in the subcommand of each series, without which a lookup in a hash map may find either; TLC evaluates it for the commands of the run.

`MemoryProofs` proves that a call of `McClient` is a call of a memory that knows nothing of bytes:

| Theorem | Statement |
|---|---|
| `OnlyAllowedPointsSentCorrect` | `CommandsStandard, CallsFit` give `Spec => []OnlyAllowedPointsSent` |
| `ActsAsMemoryCorrect` | `CommandsStandard, CallsFit, MinCut >= 15` give `Spec => ActsAsMemory`: `DeviceAccess` implements `DeviceMemory` |

They hold for any set of calls, any points, values and counts (a read of more than 65535 words and a write that no frame can
hold are refused), as many blocks in a read as the two count bytes can say, any memory and both series.
Three things are assumed.

- `CommandsStandard`: the calls use the commands of `src/commands.toml`, under any limits, and `read_blocks` has the two
  block templates.  TLC evaluates it for the commands of the run.
- `CallsFit`: arguments have the types of Rust, and the blocks of `read_blocks` fit their fields: at most 255 of a kind,
  addresses of three bytes, counts of two, devices `D` and `M`.  `write_n_bytes` does not look, it writes the low bytes; so with a
  256th block or a larger address the request means something else.  What `McClient`'s own operations pass needs no such
  assumption: `parse_device_and_address` checks addresses, and a count is a `u16` or the length of a request that has to fit.
- `MinCut >= 15`: an answer is not cut off within its header (see section 2, DeviceAccess).

The argument follows a call.  `PointData`, `BlocksData` and `EchoBySpec` say, byte by byte, what `BuildRequest` makes of a call, and
the lemmas behind them that the PLC, which uses nothing of `CommandCodec`, reads the same points out of it (`PointsCarriedOut`, `BlocksReplies`).  `CallCarriedOut` joins them: the memory
afterwards is one that `Wrote` allows, and the reply is `Replied`, which says what the memory holds in words, in half bytes
and in bits.  `CutAnswer` is stable when the answer is cut again, and `CutOutcome` says that the client then sees the front of the reply
or the end code.  `ParseResponse` finds its blocks by offsets that are a sum over all blocks before; `PartFound` shows for any number of
blocks that, if nothing is missing, each block is decoded from the bytes that were written for it, and `InOrderRun` that
blocks of one name come out in their order.  An answer that is short of a byte is refused, which is why a cut answer never gives a
wrong result; a text is the exception, `echo` returns what came, and `DeviceMemory` says so.  `AnswerReturned` collects what the
five kinds of results come to.  The inductive invariant `MemInv` is `AccessInv` with `AnswerFits`: an answer on its way is that of the PLC to this
very call about the memory as it is, or an end code, with or without its end.

Each lemma about a step has one case for each action and hides the parts of the
state the action leaves alone.  Numbers with five digits are named and stay folded, since the provers do not
cope with them.

Only model-checked: the liveness properties `TimedCallReturns`, `EveryCallReturns`, `ScanEnds` and `CallReturns` (fairness
and ENABLED are out of the prover's reach), and the runs that show a disagreement.  All invariants, the action properties and the three refinements
are proved, under the assumptions that their theorems name.  Where a proof needs induction over data, the data
are numbered and the induction runs over sets of numbers (`Induction` in `FrameFacts`), since the induction
theorems of the library have operators as parameters.

## 5. State of the plan

Done: all modules of section 2 and the proofs of section 4.

Nothing of the plan is left.  What the models leave out is listed next.

### Not modelled

- Configuration (`config.rs`): the environment is read once; its values are the constants `Attempts`
  and `UdpAttempts`, and the idle time is a choice.
- `endpoint.rs`, `error.rs`, `toml_helpers.rs`, `plc_series.rs`, `mc_define.rs`: plain data and text helpers without state.
- The syntax of TOML and JSON, `display_name`, the predicates such as `is_network_error` (constant ranges without a caller),
  file access, logging, the wording of messages, examples, and the durations of timeouts and back-offs.
- Parameters of `build_request` are given by what they hold: bytes are a sequence, be they an array or a text
  (`command_registry.rs` 1118-1134), and a number in place of the words of a block (1087-1105) is a sequence of one.  One
  form is left out: an array of bytes for an `ascii_hex` field (1158-1169), whose bytes need not be digits;
  `McClient` passes a text.
- What `perform_stream_io` read behind the answer when it was cut within a frame: `McTransport` drops whole frames with the
  local buffer, and `FrameScanner` is about one exchange.
