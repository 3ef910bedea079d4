---------------------------- MODULE McTransport ----------------------------
(***************************************************************************)
(* The TCP transport: calls of McClient::send_and_recv_with_retry over     *)
(* send_and_recv_tcp and perform_stream_io, sharing the pool TARGET_CONNS. *)
(*                                                                         *)
(* A member of Calls is one API call (one future); a task that makes       *)
(* several calls in turn is the interleavings in which they do not         *)
(* overlap.  Every attempt of a call sends the same payload, so a request  *)
(* in flight, and the frame that answers it, are both named by the call.   *)
(* A step runs from one await to the next.                                 *)
(***************************************************************************)
EXTENDS Integers, SequencesExt

CONSTANTS
    Calls,        \* the API calls
    Timed,        \* the calls whose client has monitoring_timer > 0
    Targets,      \* "host:port" strings, the keys of TARGET_CONNS
    Streams,      \* TCP connections that exist at one time
    Attempts,     \* melsec_tcp_retry_attempts
    MaxRemotes,   \* socket addresses a target resolves to, at most
    SerialMax,    \* 16#FFFF in the code
    MaxDup,       \* bound: answers the PLC sends twice
    None          \* no call, no stream

ASSUME TransportAssumption ==
    /\ Timed \subseteq Calls
    /\ Attempts \in Nat
    /\ MaxRemotes \in Nat \ {0}
    /\ SerialMax \in Nat \ {0}
    /\ MaxDup \in Nat
    /\ None \notin Calls
    /\ None \notin Streams

VARIABLES
    serialCounter, \* SERIAL_COUNTER
    serial,        \* the serial in the payload of a call, 0 before it is built
    target,        \* the target of a call (of its McClient)
    pc,            \* where the future of a call is
    attempt,       \* the loop variable of send_and_recv_with_retry
    left,          \* addresses of the iterator addrs not tried yet
    stream,        \* the connection perform_stream_io of the call owns
    reply,         \* the frame the call returned
    holder,        \* the call that holds the mutex of a target
    queue,         \* the calls waiting for that mutex, in the order of tokio
    cached,        \* the Option<TcpStream> the mutex protects
    toPlc,         \* requests in transit on a connection
    fromPlc,       \* frames not read yet on a connection
    closed,        \* the connections the remote end has closed
    sent,          \* how often the payload of a call was written
    applied,       \* how often the PLC carried the request of a call out
    last,          \* the call whose request a PLC carried out last
    dups           \* answers sent twice so far

callVars == <<serial, target, attempt, left, stream, reply>>
poolVars == <<holder, queue, cached>>
plcVars == <<sent, applied, last, dups>>
vars == <<serialCounter, serial, target, pc, attempt, left, stream, reply,
          holder, queue, cached, toPlc, fromPlc, closed, sent, applied, last,
          dups>>

Holding == {"connect", "write", "read"}
Active == {"resolve", "lock", "backoff"} \cup Holding
Returned == {"ok", "err", "cancelled"}
Places == {"idle"} \cup Active \cup Returned

Init ==
    /\ serialCounter = 1
    /\ serial = [c \in Calls |-> 0]
    /\ target \in [Calls -> Targets]
    /\ pc = [c \in Calls |-> "idle"]
    /\ attempt = [c \in Calls |-> 1]
    /\ left = [c \in Calls |-> 0]
    /\ stream = [c \in Calls |-> None]
    /\ reply = [c \in Calls |-> None]
    /\ holder = [t \in Targets |-> None]
    /\ queue = [t \in Targets |-> <<>>]
    /\ cached = [t \in Targets |-> None]
    /\ toPlc = [s \in Streams |-> <<>>]
    /\ fromPlc = [s \in Streams |-> <<>>]
    /\ closed = {}
    /\ sent = [c \in Calls |-> 0]
    /\ applied = [c \in Calls |-> 0]
    /\ last = [t \in Targets |-> None]
    /\ dups = 0

(***************************************************************************)
(* Helpers.                                                                *)
(***************************************************************************)

\* The client holds the socket: in the pool, or in a running exchange.
Open(s) == \/ \E t \in Targets : cached[t] = s
           \/ \E c \in Calls : stream[c] = s

\* No socket and nothing in transit: the name is free for a new connection.
Unused(s) == ~Open(s) /\ toPlc[s] = <<>>

\* Faulty variant of NextSerial: the counter is not wrapped.
NextSerialNoWrap(v) == v + 1

\* next_serial: 0 is never issued.
NextSerial(v) == IF v = SerialMax THEN 1 ELSE v + 1

\* Faulty variant of Matches: any frame is taken for the answer.
MatchesAnything(c, f) == TRUE

\* The test of the reassembly loop, on the serial of frame f.
Matches(c, f) == serial[c] = 0 \/ serial[f] = serial[c]

\* What is left of the frames in transit when a read took the first k.
Unread(q, k) == SubSeq(q, k + 1, Len(q))

\* The guard of the mutex goes out of scope.
Unlock(c) == holder' = [holder EXCEPT ![target[c]] = None]

\* The TcpStream of the call goes out of scope: unread frames are gone, while
\* what was written may still reach the PLC.
DropStream(c) ==
    /\ stream' = [stream EXCEPT ![c] = None]
    /\ fromPlc' = [fromPlc EXCEPT ![stream[c]] = <<>>]
    /\ closed' = closed \ {stream[c]}

\* Faulty variant of AttemptFails: one attempt too many.
AttemptFailsOnceMore(c) ==
    IF attempt[c] <= Attempts
    THEN /\ pc' = [pc EXCEPT ![c] = "backoff"]
         /\ attempt' = [attempt EXCEPT ![c] = @ + 1]
    ELSE /\ pc' = [pc EXCEPT ![c] = "err"]
         /\ UNCHANGED attempt

\* The Err arm of send_and_recv_with_retry: back off, or give up.
AttemptFails(c) ==
    IF attempt[c] < Attempts
    THEN /\ pc' = [pc EXCEPT ![c] = "backoff"]
         /\ attempt' = [attempt EXCEPT ![c] = @ + 1]
    ELSE /\ pc' = [pc EXCEPT ![c] = "err"]
         /\ UNCHANGED attempt

\* Faulty variant of ExchangeFails: the stream stays in the pool, with the
\* answer that may still come.
ExchangeFailsPooled(c) ==
    /\ stream' = [stream EXCEPT ![c] = None]
    /\ cached' = [cached EXCEPT ![target[c]] = stream[c]]
    /\ AttemptFails(c) /\ Unlock(c)
    /\ UNCHANGED <<serialCounter, serial, target, left, reply, queue, toPlc,
                   fromPlc, closed>>
    /\ UNCHANGED plcVars

\* The Err arm after perform_stream_io: the stream is gone and the pool slot
\* stays empty; the next address is tried, or the attempt fails.
ExchangeFails(c) ==
    /\ DropStream(c)
    /\ IF left[c] > 0
       THEN /\ pc' = [pc EXCEPT ![c] = "connect"]
            /\ UNCHANGED <<attempt, holder>>
       ELSE AttemptFails(c) /\ Unlock(c)
    /\ UNCHANGED <<serialCounter, serial, target, left, reply, queue, cached,
                   toPlc>>
    /\ UNCHANGED plcVars

(***************************************************************************)
(* The steps of a call.                                                    *)
(***************************************************************************)

\* McRequest::new takes the serial; then the first attempt, if there is one.
Start(c) ==
    /\ pc[c] = "idle"
    /\ serialCounter' = NextSerial(serialCounter)
    /\ serial' = [serial EXCEPT ![c] = NextSerial(serialCounter)]
    /\ pc' = [pc EXCEPT ![c] = IF Attempts = 0 THEN "err" ELSE "resolve"]
    /\ UNCHANGED <<target, attempt, left, stream, reply, toPlc, fromPlc,
                   closed>>
    /\ UNCHANGED poolVars
    /\ UNCHANGED plcVars

\* lookup_host gave n addresses; the call asks for the mutex of its target.
Resolve(c) ==
    /\ pc[c] = "resolve"
    /\ \E n \in 1..MaxRemotes : left' = [left EXCEPT ![c] = n]
    /\ queue' = [queue EXCEPT ![target[c]] = Append(@, c)]
    /\ pc' = [pc EXCEPT ![c] = "lock"]
    /\ UNCHANGED <<serialCounter, serial, target, attempt, stream, reply,
                   holder, cached, toPlc, fromPlc, closed>>
    /\ UNCHANGED plcVars

\* lookup_host failed: "bad address", before the mutex is asked for.
ResolveFails(c) ==
    /\ pc[c] = "resolve"
    /\ AttemptFails(c)
    /\ UNCHANGED <<serialCounter, serial, target, left, stream, reply, toPlc,
                   fromPlc, closed>>
    /\ UNCHANGED poolVars
    /\ UNCHANGED plcVars

\* Faulty variant of Granted: the slot is read and not emptied.
GrantedPeek(c) ==
    /\ pc[c] = "lock"
    /\ holder[target[c]] = None
    /\ queue[target[c]] # <<>>
    /\ c = Head(queue[target[c]])
    /\ queue' = [queue EXCEPT ![target[c]] = Tail(@)]
    /\ holder' = [holder EXCEPT ![target[c]] = c]
    /\ UNCHANGED <<serialCounter, serial, target, attempt, left, reply, cached,
                   toPlc>>
    /\ UNCHANGED plcVars

\* Faulty variant of Granted: the slot is guarded only while it is accessed,
\* and not for the whole exchange.
GrantedNoMutex(c) ==
    /\ pc[c] = "lock"
    /\ queue[target[c]] # <<>>
    /\ c = Head(queue[target[c]])
    /\ queue' = [queue EXCEPT ![target[c]] = Tail(@)]
    /\ cached' = [cached EXCEPT ![target[c]] = None]
    /\ holder' = [holder EXCEPT ![target[c]] = c]
    /\ UNCHANGED <<serialCounter, serial, target, attempt, left, reply, toPlc>>
    /\ UNCHANGED plcVars

\* The mutex is granted and conn_guard.take() empties the slot.
Granted(c) ==
    /\ pc[c] = "lock"
    /\ holder[target[c]] = None
    /\ queue[target[c]] # <<>>
    /\ c = Head(queue[target[c]])
    /\ queue' = [queue EXCEPT ![target[c]] = Tail(@)]
    /\ cached' = [cached EXCEPT ![target[c]] = None]
    /\ holder' = [holder EXCEPT ![target[c]] = c]
    /\ UNCHANGED <<serialCounter, serial, target, attempt, left, reply, toPlc>>
    /\ UNCHANGED plcVars

\* The pool held a stream used within the idle time: write on it.
AcquireCached(c) ==
    /\ Granted(c)
    /\ cached[target[c]] # None
    /\ stream' = [stream EXCEPT ![c] = cached[target[c]]]
    /\ pc' = [pc EXCEPT ![c] = "write"]
    /\ UNCHANGED <<fromPlc, closed>>

\* The pool held nothing, or a stream idle for too long, which is dropped.
AcquireFresh(c) ==
    LET old == cached[target[c]] IN
    /\ Granted(c)
    /\ IF old = None
       THEN UNCHANGED <<fromPlc, closed>>
       ELSE /\ fromPlc' = [fromPlc EXCEPT ![old] = <<>>]
            /\ closed' = closed \ {old}
    /\ pc' = [pc EXCEPT ![c] = "connect"]
    /\ UNCHANGED stream

\* TcpStream::connect to the next address succeeds.
Connect(c) ==
    /\ pc[c] = "connect"
    /\ \E s \in Streams :
          /\ Unused(s)
          /\ stream' = [stream EXCEPT ![c] = s]
    /\ left' = [left EXCEPT ![c] = @ - 1]
    /\ pc' = [pc EXCEPT ![c] = "write"]
    /\ UNCHANGED <<serialCounter, serial, target, attempt, reply, toPlc,
                   fromPlc, closed>>
    /\ UNCHANGED poolVars
    /\ UNCHANGED plcVars

\* Faulty variant of ConnectFails: this error path keeps the mutex.
ConnectFailsLocked(c) ==
    /\ pc[c] = "connect"
    /\ AttemptFails(c)
    /\ UNCHANGED holder
    /\ UNCHANGED <<serialCounter, serial, target, left, stream, reply, queue,
                   cached, toPlc, fromPlc, closed>>
    /\ UNCHANGED plcVars

\* A connect error, or its 3 s timeout, ends the attempt: the remaining
\* addresses are not tried.
ConnectFails(c) ==
    /\ pc[c] = "connect"
    /\ AttemptFails(c)
    /\ Unlock(c)
    /\ UNCHANGED <<serialCounter, serial, target, left, stream, reply, queue,
                   cached, toPlc, fromPlc, closed>>
    /\ UNCHANGED plcVars

\* write_all completes.  On a connection the peer has closed the bytes are
\* taken by the local socket and lost.
Write(c) ==
    /\ pc[c] = "write"
    /\ pc' = [pc EXCEPT ![c] = "read"]
    /\ sent' = [sent EXCEPT ![c] = @ + 1]
    /\ toPlc' = IF stream[c] \in closed THEN toPlc
                ELSE [toPlc EXCEPT ![stream[c]] = Append(@, c)]
    /\ UNCHANGED <<serialCounter, applied, last, dups, fromPlc, closed>>
    /\ UNCHANGED callVars
    /\ UNCHANGED poolVars

\* write_all fails, or its timeout fires: the PLC gets no complete request.
WriteFails(c) ==
    /\ pc[c] = "write"
    /\ c \in Timed \/ stream[c] \in closed
    /\ ExchangeFails(c)

\* A read returns the first k frames in transit.  The first that matches is
\* the answer, and the stream goes to the pool; frames read after it die with
\* the local buffer.
ReadAnswer(c) ==
    LET s == stream[c] IN
    /\ pc[c] = "read"
    /\ \E k \in 1..Len(fromPlc[s]) : \E i \in 1..k :
          /\ Matches(c, fromPlc[s][i])
          /\ \A j \in 1..(i - 1) : ~Matches(c, fromPlc[s][j])
          /\ reply' = [reply EXCEPT ![c] = fromPlc[s][i]]
          /\ fromPlc' = [fromPlc EXCEPT ![s] = Unread(@, k)]
    /\ cached' = [cached EXCEPT ![target[c]] = s]
    /\ stream' = [stream EXCEPT ![c] = None]
    /\ pc' = [pc EXCEPT ![c] = "ok"]
    /\ Unlock(c)
    /\ UNCHANGED <<serialCounter, serial, target, attempt, left, queue, toPlc,
                   closed>>
    /\ UNCHANGED plcVars

\* A read returns frames of which none matches: they are dropped and the loop
\* reads again, with a new timeout.
ReadOther(c) ==
    LET s == stream[c] IN
    /\ pc[c] = "read"
    /\ \E k \in 1..Len(fromPlc[s]) :
          /\ \A i \in 1..k : ~Matches(c, fromPlc[s][i])
          /\ fromPlc' = [fromPlc EXCEPT ![s] = Unread(@, k)]
    /\ UNCHANGED <<serialCounter, pc, toPlc, closed>>
    /\ UNCHANGED callVars
    /\ UNCHANGED poolVars
    /\ UNCHANGED plcVars

\* Faulty variant of ReadFails: a read of 0 bytes is not taken for the end.
ReadFailsNoEof(c) ==
    /\ pc[c] = "read"
    /\ c \in Timed
    /\ ExchangeFails(c)

\* Faulty variant of ReadFails: a read of 0 bytes ends the call with Ok.
ReadFailsEofOk(c) ==
    /\ pc[c] = "read"
    /\ stream[c] \in closed /\ fromPlc[stream[c]] = <<>>
    /\ DropStream(c)
    /\ Unlock(c)
    /\ pc' = [pc EXCEPT ![c] = "ok"]
    /\ UNCHANGED <<serialCounter, serial, target, attempt, left, reply, queue,
                   cached, toPlc>>
    /\ UNCHANGED plcVars

\* The read timeout fires, or the read finds the connection closed.
ReadFails(c) ==
    /\ pc[c] = "read"
    /\ c \in Timed \/ (stream[c] \in closed /\ fromPlc[stream[c]] = <<>>)
    /\ ExchangeFails(c)

\* The back-off sleep ends; the next attempt starts without the mutex.
Wake(c) ==
    /\ pc[c] = "backoff"
    /\ pc' = [pc EXCEPT ![c] = "resolve"]
    /\ UNCHANGED <<serialCounter, toPlc, fromPlc, closed>>
    /\ UNCHANGED callVars
    /\ UNCHANGED poolVars
    /\ UNCHANGED plcVars

\* Faulty variant of Cancel: the stream goes back to the pool.
CancelPooled(c) ==
    /\ pc[c] \in Holding
    /\ pc' = [pc EXCEPT ![c] = "cancelled"]
    /\ Unlock(c)
    /\ cached' = [cached EXCEPT ![target[c]] = stream[c]]
    /\ stream' = [stream EXCEPT ![c] = None]
    /\ UNCHANGED <<serialCounter, serial, target, attempt, left, reply, queue,
                   toPlc, fromPlc, closed>>
    /\ UNCHANGED plcVars

\* The caller drops the future at one of its awaits: a waiter leaves the
\* queue, a holder drops its guard and its stream.
Cancel(c) ==
    /\ pc[c] \in Active
    /\ pc' = [pc EXCEPT ![c] = "cancelled"]
    /\ IF pc[c] = "lock"
       THEN \E k \in 1..Len(queue[target[c]]) :
               /\ queue[target[c]][k] = c
               /\ queue' = [queue EXCEPT ![target[c]] = RemoveAt(@, k)]
       ELSE UNCHANGED queue
    /\ IF pc[c] \in Holding THEN Unlock(c) ELSE UNCHANGED holder
    /\ IF stream[c] = None
       THEN UNCHANGED <<stream, fromPlc, closed>>
       ELSE DropStream(c)
    /\ UNCHANGED <<serialCounter, serial, target, attempt, left, reply, cached,
                   toPlc>>
    /\ UNCHANGED plcVars

(***************************************************************************)
(* The PLC and the network (not part of the crate).                        *)
(***************************************************************************)

\* The PLC carries out the next request of a connection and answers on it; on
\* a connection the client has dropped the answer goes nowhere.
Execute(s) ==
    /\ toPlc[s] # <<>>
    /\ LET c == Head(toPlc[s]) IN
       /\ applied' = [applied EXCEPT ![c] = @ + 1]
       /\ last' = [last EXCEPT ![target[c]] = c]
       /\ fromPlc' = IF Open(s) THEN [fromPlc EXCEPT ![s] = Append(@, c)]
                     ELSE fromPlc
    /\ toPlc' = [toPlc EXCEPT ![s] = Tail(@)]
    /\ UNCHANGED <<serialCounter, pc, closed, sent, dups>>
    /\ UNCHANGED callVars
    /\ UNCHANGED poolVars

\* The connection breaks: requests in transit are lost, answers may be.
PeerClose(s) ==
    /\ (Open(s) /\ s \notin closed) \/ toPlc[s] # <<>>
    /\ closed' = IF Open(s) THEN closed \cup {s} ELSE closed \ {s}
    /\ toPlc' = [toPlc EXCEPT ![s] = <<>>]
    /\ \/ fromPlc' = [fromPlc EXCEPT ![s] = <<>>]
       \/ UNCHANGED fromPlc
    /\ UNCHANGED <<serialCounter, pc>>
    /\ UNCHANGED callVars
    /\ UNCHANGED poolVars
    /\ UNCHANGED plcVars

\* The PLC sends an unread answer a second time.
AnswerTwice(s) ==
    /\ fromPlc[s] # <<>>
    /\ dups < MaxDup
    /\ dups' = dups + 1
    /\ fromPlc' = [fromPlc EXCEPT ![s] = Append(@, Head(@))]
    /\ UNCHANGED <<serialCounter, pc, toPlc, closed, sent, applied, last>>
    /\ UNCHANGED callVars
    /\ UNCHANGED poolVars

----------------------------------------------------------------------------
\* What the executor runs of a started call, timers included.
Proceed(c) ==
    \/ Resolve(c) \/ ResolveFails(c)
    \/ AcquireCached(c) \/ AcquireFresh(c)
    \/ Connect(c) \/ ConnectFails(c)
    \/ Write(c) \/ WriteFails(c)
    \/ ReadAnswer(c) \/ ReadOther(c) \/ ReadFails(c)
    \/ Wake(c)

Environment(s) == Execute(s) \/ PeerClose(s) \/ AnswerTwice(s)

\* Every call has returned.
Finished ==
    /\ \A c \in Calls : pc[c] \in Returned
    /\ UNCHANGED vars

Next ==
    \/ \E c \in Calls : Start(c) \/ Proceed(c) \/ Cancel(c)
    \/ \E s \in Streams : Environment(s)
    \/ Finished

Spec == Init /\ [][Next]_vars

\* The executor polls every started call, and the timers of its timeouts fire.
FairSpec == Spec /\ \A c \in Calls : WF_vars(Proceed(c))

----------------------------------------------------------------------------
TypeOK ==
    /\ serialCounter \in 1..SerialMax
    /\ serial \in [Calls -> 0..SerialMax]
    /\ target \in [Calls -> Targets]
    /\ pc \in [Calls -> Places]
    /\ attempt \in [Calls -> Nat]
    /\ left \in [Calls -> 0..MaxRemotes]
    /\ stream \in [Calls -> Streams \cup {None}]
    /\ reply \in [Calls -> Calls \cup {None}]
    /\ holder \in [Targets -> Calls \cup {None}]
    /\ queue \in [Targets -> Seq(Calls)]
    /\ cached \in [Targets -> Streams \cup {None}]
    /\ toPlc \in [Streams -> Seq(Calls)]
    /\ fromPlc \in [Streams -> Seq(Calls)]
    /\ closed \subseteq Streams
    /\ sent \in [Calls -> Nat]
    /\ applied \in [Calls -> Nat]
    /\ last \in [Targets -> Calls \cup {None}]
    /\ dups \in 0..MaxDup

\* "This lock serializes traffic to the same addr": between the grant of the
\* mutex and the end of the attempt, through every await and every address
\* tried, no other call connects to the target, writes or reads.
SerializedTraffic ==
    \A c, d \in Calls :
        pc[c] \in Holding /\ pc[d] \in Holding /\ target[c] = target[d] => c = d

\* A connection has one owner: the running exchange of one call, or the pool
\* slot of one target.  Two futures never read from, or write to, the same
\* socket, although it moves between them through the pool.
StreamOwnership ==
    /\ \A c, d \in Calls :
          stream[c] # None /\ stream[c] = stream[d] => c = d
    /\ \A t, u \in Targets :
          cached[t] # None /\ cached[t] = cached[u] => t = u
    /\ \A c \in Calls, t \in Targets :
          stream[c] # None => stream[c] # cached[t]

\* While a call is in an exchange, nothing of another call is unanswered or
\* unread on its connection: a failed or cancelled exchange never leaves its
\* stream, with the late answer on it, to the next call.
PrivateExchange ==
    \A c \in Calls : stream[c] # None =>
        \A d \in Calls \ {c} :
            /\ \A i \in 1..Len(toPlc[stream[c]]) : toPlc[stream[c]][i] # d
            /\ \A i \in 1..Len(fromPlc[stream[c]]) : fromPlc[stream[c]][i] # d

\* The frame a call returns answers the request of that very call, and the PLC
\* has carried that request out.
OwnAnswer == \A c \in Calls : pc[c] = "ok" => reply[c] = c /\ applied[c] > 0

\* Every exchange that wrote the payload used up an address or the pooled
\* stream of one of the Attempts rounds, so a call writes at most this often,
\* and what a PLC carries out was written.
SendLimit == Attempts * (MaxRemotes + 1)
BoundedResend ==
    \A c \in Calls : applied[c] <= sent[c] /\ sent[c] <= SendLimit

\* No request to t was written and then given up: each call that wrote either
\* returned the answer to its only request or still waits for it.
Undisturbed(t) ==
    \A c \in Calls : target[c] = t /\ sent[c] > 0 =>
        sent[c] = 1 /\ pc[c] \in {"read", "ok"}

\* Calls to one target that met no failure take effect on the PLC in the order
\* in which they return: when one returns Ok, it is the last carried out.
TakesEffectInOrder ==
    [][\A c \in Calls :
          pc[c] # "ok" /\ pc'[c] = "ok" /\ Undisturbed(target[c])
          => last[target[c]] = c]_vars

\* A call with a timer returns, whatever the PLC does: no error path keeps the
\* mutex of a target.  Only a call without a timer that waits for the PLC,
\* inside that mutex, can hold it up.
TimedCallReturns ==
    \A c \in Timed :
        pc[c] # "idle" ~> \/ pc[c] \in Returned
                          \/ \E d \in Calls \ Timed : pc[d] = "read"

\* If every PLC answers what reaches it, then every started call returns.
PlcAnswers == \A s \in Streams : WF_vars(Execute(s))
EveryCallReturns ==
    PlcAnswers => \A c \in Calls : pc[c] # "idle" ~> pc[c] \in Returned

(***************************************************************************)
(* The inductive invariant behind the safety properties.                   *)
(***************************************************************************)

\* A call owns a stream exactly while it is in an exchange, and waits for the
\* mutex, or connects, only when an address is left.
CallShape ==
    \A c \in Calls :
        /\ stream[c] # None <=> pc[c] \in {"write", "read"}
        /\ pc[c] \in {"lock", "connect"} => left[c] > 0

\* The calls between the grant of the mutex of a target and its release are
\* the holder of that mutex, and the pool slot is empty while it is held.
MutexShape ==
    /\ \A c \in Calls : pc[c] \in Holding => holder[target[c]] = c
    /\ \A t \in Targets : holder[t] # None =>
          /\ pc[holder[t]] \in Holding
          /\ target[holder[t]] = t
          /\ cached[t] = None

\* Nothing is in transit on a connection but the request of the exchange that
\* runs on it, or its answer; a pooled or new connection is silent.  (This
\* needs a PLC that answers once.)
Silent(s) == toPlc[s] = <<>> /\ fromPlc[s] = <<>>
Asked(c, s) == toPlc[s] = <<c>> /\ fromPlc[s] = <<>>
Answered(c, s) == toPlc[s] = <<>> /\ fromPlc[s] = <<c>> /\ applied[c] > 0

PoolIsSilent == \A t \in Targets : cached[t] # None => Silent(cached[t])
NothingToRead == \A s \in Streams : ~Open(s) => fromPlc[s] = <<>>
InOrder(c) ==
    \/ Silent(stream[c])
    \/ pc[c] = "read" /\ (Asked(c, stream[c]) \/ Answered(c, stream[c]))
OneAtATime == \A c \in Calls : stream[c] # None => InOrder(c)

Traffic == PoolIsSilent /\ NothingToRead /\ OneAtATime /\ dups = 0

ExchangeInvariant ==
    CallShape /\ MutexShape /\ StreamOwnership /\ Traffic /\ OwnAnswer

(***************************************************************************)
(* Refinement: a call is an at-least-once remote operation.                *)
(***************************************************************************)
StatusOf(c) == CASE pc[c] = "idle" -> "new"
                 [] pc[c] \in Active -> "running"
                 [] pc[c] = "ok" -> "ok"
                 [] OTHER -> "failed"

\* The connections on which a request of c is in transit.
Carriers(c) ==
    {s \in Streams : \E i \in 1..Len(toPlc[s]) : toPlc[s][i] = c}

Promise == INSTANCE AtLeastOnce WITH
               Limit <- SendLimit,
               status <- [c \in Calls |-> StatusOf(c)],
               sends <- sent,
               copies <- [c \in Calls |-> Cardinality(Carriers(c))],
               effects <- applied

\* The transport keeps the promise of AtLeastOnce.
KeepsPromise == Promise!Spec
====
