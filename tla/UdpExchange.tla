---------------------------- MODULE UdpExchange ----------------------------
(***************************************************************************)
(* One call of McClient::send_and_recv_with_retry over send_and_recv_udp.  *)
(* Every attempt binds sockets of its own, so calls share nothing and one  *)
(* call is enough.  A datagram is its serial and its length; the bytes     *)
(* that follow the serial matter only by being there or cut off.           *)
(***************************************************************************)
EXTENDS Integers, SequencesExt, FiniteSetsExt

CONSTANTS
    Serial,        \* the serial of the request
    Timed,         \* the client has monitoring_timer > 0
    Attempts,      \* melsec_tcp_retry_attempts, which also governs UDP
    UdpAttempts,   \* melsec_udp_recv_attempts
    MaxRemotes,    \* socket addresses the target resolves to, at most
    AnswerLen,     \* length of the answer
    Strays,        \* other datagrams that may reach the socket
    MaxStray,      \* bound: how many of them
    MaxDup         \* bound: datagrams the network duplicates

Serials == 0..65535
MaxDatagram == 65507
BufferLen == 65535

ASSUME UdpAssumption ==
    /\ Serial \in Serials \ {0}
    /\ Timed \in BOOLEAN
    /\ Attempts \in Nat /\ UdpAttempts \in Nat /\ MaxRemotes \in Nat \ {0}
    /\ AnswerLen \in 4..MaxDatagram
    /\ Strays \subseteq [serial : Serials, len : 0..MaxDatagram]
    /\ MaxStray \in Nat /\ MaxDup \in Nat

VARIABLES
    pc,        \* where the future of the call is
    attempt,   \* the loop variable of send_and_recv_with_retry
    left,      \* addresses of the iterator addrs not tried yet
    tries,     \* the loop variable of send_and_recv_udp
    cap,       \* buf.len()
    result,    \* the datagram returned
    inbox,     \* datagrams at the socket, in the order of their arrival
    here,      \* copies of the request in transit, sent from the open socket
    gone,      \* copies in transit, sent from sockets that are closed
    sent,      \* how often the request was sent
    applied,   \* how often the PLC carried it out
    strays,    \* other datagrams so far
    dups       \* duplicates so far

netVars == <<sent, applied, strays, dups>>
vars == <<pc, attempt, left, tries, cap, result, inbox, here, gone, sent,
          applied, strays, dups>>

Bound == {"send", "recv"}               \* a socket is open
Active == {"resolve", "bind", "backoff"} \cup Bound
Returned == {"ok", "err", "cancelled"}

Datagrams == [serial : Serials, len : 0..BufferLen]
NoDatagram == [serial |-> 0, len |-> 0]
AnswerDatagram == [serial |-> Serial, len |-> AnswerLen]

Init ==
    /\ pc = "idle"
    /\ attempt = 1
    /\ left = 0
    /\ tries = 0
    /\ cap = BufferLen
    /\ result = NoDatagram
    /\ inbox = <<>>
    /\ here = 0
    /\ gone = 0
    /\ sent = 0
    /\ applied = 0
    /\ strays = 0
    /\ dups = 0

(***************************************************************************)
(* Helpers.                                                                *)
(***************************************************************************)

\* The socket goes out of scope: what is in it, or answers to it, is lost.
CloseSocket ==
    /\ inbox' = <<>>
    /\ gone' = gone + here
    /\ here' = 0

\* Faulty variant of AttemptFails: one attempt too many.
AttemptFailsOnceMore ==
    IF attempt <= Attempts
    THEN pc' = "backoff" /\ attempt' = attempt + 1
    ELSE pc' = "err" /\ UNCHANGED attempt

\* The Err arm of send_and_recv_with_retry: back off, or give up.
AttemptFails ==
    IF attempt < Attempts
    THEN pc' = "backoff" /\ attempt' = attempt + 1
    ELSE pc' = "err" /\ UNCHANGED attempt

\* The next address is tried, or send_and_recv_udp fails.
NextRemote ==
    IF left > 0 THEN pc' = "bind" /\ UNCHANGED attempt ELSE AttemptFails

\* The next turn of the loop over the UDP attempts, on the same socket, or the
\* end of that loop.
NextTry ==
    /\ tries' = tries + 1
    /\ IF tries + 1 < UdpAttempts
       THEN pc' = "send" /\ UNCHANGED <<attempt, inbox, here, gone>>
       ELSE NextRemote /\ CloseSocket

(***************************************************************************)
(* The steps of the call.                                                  *)
(***************************************************************************)
Start ==
    /\ pc = "idle"
    /\ pc' = IF Attempts = 0 THEN "err" ELSE "resolve"
    /\ UNCHANGED <<attempt, left, tries, cap, result, inbox, here, gone>>
    /\ UNCHANGED netVars

Resolve ==
    /\ pc = "resolve"
    /\ left' \in 1..MaxRemotes
    /\ pc' = "bind"
    /\ UNCHANGED <<attempt, tries, cap, result, inbox, here, gone>>
    /\ UNCHANGED netVars

\* "bad address"
ResolveFails ==
    /\ pc = "resolve"
    /\ AttemptFails
    /\ UNCHANGED <<left, tries, cap, result, inbox, here, gone>>
    /\ UNCHANGED netVars

\* Faulty variant of Bind: the UDP attempts are not counted from 0 again.
BindNoReset ==
    /\ pc = "bind"
    /\ left' = left - 1
    /\ pc' = "send"
    /\ UNCHANGED <<attempt, tries, cap, result, inbox, here, gone>>
    /\ UNCHANGED netVars

\* A socket for the next address.
Bind ==
    /\ pc = "bind"
    /\ left' = left - 1
    /\ tries' = 0
    /\ IF UdpAttempts > 0
       THEN pc' = "send" /\ UNCHANGED attempt
       ELSE IF left > 1 THEN UNCHANGED <<pc, attempt>> ELSE AttemptFails
    /\ UNCHANGED <<cap, result, inbox, here, gone>>
    /\ UNCHANGED netVars

BindFails ==
    /\ pc = "bind"
    /\ left' = left - 1
    /\ IF left > 1 THEN UNCHANGED <<pc, attempt>> ELSE AttemptFails
    /\ UNCHANGED <<tries, cap, result, inbox, here, gone>>
    /\ UNCHANGED netVars

\* The datagram is sent, and a new buffer made for the answer.
Send ==
    /\ pc = "send"
    /\ sent' = sent + 1
    /\ here' = here + 1
    /\ cap' = BufferLen
    /\ pc' = "recv"
    /\ UNCHANGED <<attempt, left, tries, result, inbox, gone, applied, strays,
                   dups>>

SendFails ==
    /\ pc = "send"
    /\ NextTry
    /\ UNCHANGED <<left, cap, result>>
    /\ UNCHANGED netVars

\* What recv_from leaves in the buffer: the datagram as far as it fits.
Received == [Head(inbox) EXCEPT !.len = Min({@, cap})]

\* The serial of a datagram of less than 4 bytes counts as 0.
Matches == (IF Received.len >= 4 THEN Received.serial ELSE 0) = Serial

\* Faulty variant of ReceiveAnswer: any datagram is taken for the answer.
ReceiveAnswerAny ==
    /\ pc = "recv"
    /\ inbox # <<>>
    /\ result' = Received
    /\ cap' = Received.len
    /\ pc' = "ok"
    /\ CloseSocket
    /\ UNCHANGED <<attempt, left, tries>>
    /\ UNCHANGED netVars

ReceiveAnswer ==
    /\ pc = "recv"
    /\ inbox # <<>>
    /\ Matches
    /\ result' = Received
    /\ cap' = Received.len
    /\ pc' = "ok"
    /\ CloseSocket
    /\ UNCHANGED <<attempt, left, tries>>
    /\ UNCHANGED netVars

\* A datagram with another serial is discarded; buf.truncate has shrunk the
\* buffer for the next recv_from to its length.
ReceiveOther ==
    /\ pc = "recv"
    /\ inbox # <<>>
    /\ ~Matches
    /\ cap' = Received.len
    /\ inbox' = Tail(inbox)
    /\ UNCHANGED <<pc, attempt, left, tries, result, here, gone>>
    /\ UNCHANGED netVars

\* Faulty variant of ReceiveTimesOut: it sends again without counting.
ReceiveTimesOutUncounted ==
    /\ pc = "recv"
    /\ Timed
    /\ pc' = "send"
    /\ UNCHANGED <<attempt, left, tries, cap, result, inbox, here, gone>>
    /\ UNCHANGED netVars

\* Faulty variant of ReceiveTimesOut: only the first try has a timeout.
ReceiveTimesOutFirst ==
    /\ pc = "recv"
    /\ Timed
    /\ tries = 0
    /\ NextTry
    /\ UNCHANGED <<left, cap, result>>
    /\ UNCHANGED netVars

ReceiveTimesOut ==
    /\ pc = "recv"
    /\ Timed
    /\ NextTry
    /\ UNCHANGED <<left, cap, result>>
    /\ UNCHANGED netVars

\* recv_from fails.
ReceiveFails ==
    /\ pc = "recv"
    /\ NextTry
    /\ UNCHANGED <<left, cap, result>>
    /\ UNCHANGED netVars

Wake ==
    /\ pc = "backoff"
    /\ pc' = "resolve"
    /\ UNCHANGED <<attempt, left, tries, cap, result, inbox, here, gone>>
    /\ UNCHANGED netVars

\* The caller drops the future.
Cancel ==
    /\ pc \in Active
    /\ pc' = "cancelled"
    /\ CloseSocket
    /\ UNCHANGED <<attempt, left, tries, cap, result>>
    /\ UNCHANGED netVars

(***************************************************************************)
(* The PLC and the network (not part of the crate).                        *)
(***************************************************************************)

\* A copy of the request arrives and is carried out; the answer arrives at the
\* socket, or it is lost.
Execute ==
    /\ here > 0
    /\ here' = here - 1
    /\ applied' = applied + 1
    /\ inbox' \in {inbox, Append(inbox, AnswerDatagram)}
    /\ UNCHANGED <<pc, attempt, left, tries, cap, result, gone, sent, strays,
                   dups>>

\* A copy sent from a closed socket arrives; nobody is there for the answer.
ExecuteLate ==
    /\ gone > 0
    /\ gone' = gone - 1
    /\ applied' = applied + 1
    /\ UNCHANGED <<pc, attempt, left, tries, cap, result, inbox, here, sent,
                   strays, dups>>

Lose ==
    /\ \/ here > 0 /\ here' = here - 1 /\ UNCHANGED gone
       \/ gone > 0 /\ gone' = gone - 1 /\ UNCHANGED here
    /\ UNCHANGED <<pc, attempt, left, tries, cap, result, inbox>>
    /\ UNCHANGED netVars

\* The network delivers an answer twice.
Duplicate ==
    /\ AnswerDatagram \in ToSet(inbox)
    /\ dups < MaxDup
    /\ dups' = dups + 1
    /\ inbox' = Append(inbox, AnswerDatagram)
    /\ UNCHANGED <<pc, attempt, left, tries, cap, result, here, gone, sent,
                   applied, strays>>

\* Some other datagram reaches the port: recv_from takes it from anybody.
Stray ==
    /\ pc \in Bound
    /\ strays < MaxStray
    /\ strays' = strays + 1
    /\ \E d \in Strays : inbox' = Append(inbox, d)
    /\ UNCHANGED <<pc, attempt, left, tries, cap, result, here, gone, sent,
                   applied, dups>>

----------------------------------------------------------------------------
Proceed ==
    \/ Resolve \/ ResolveFails \/ Bind \/ BindFails \/ Send \/ SendFails
    \/ ReceiveAnswer \/ ReceiveOther \/ ReceiveTimesOut \/ Wake

Environment == Execute \/ ExecuteLate \/ Lose \/ Duplicate \/ Stray

\* The call has returned.
Finished == pc \in Returned /\ UNCHANGED vars

Next == Start \/ Proceed \/ ReceiveFails \/ Cancel \/ Environment \/ Finished

Spec == Init /\ [][Next]_vars

\* The executor polls the call, and its timers fire.
FairSpec == Spec /\ WF_vars(Proceed)

----------------------------------------------------------------------------
SendLimit == Attempts * MaxRemotes * UdpAttempts

TypeOK ==
    /\ pc \in {"idle"} \cup Active \cup Returned
    /\ attempt \in Nat
    /\ left \in 0..MaxRemotes
    /\ tries \in 0..UdpAttempts
    /\ cap \in 0..BufferLen
    /\ result \in Datagrams
    /\ inbox \in Seq(Datagrams)
    /\ here \in Nat /\ gone \in Nat /\ sent \in Nat /\ applied \in Nat
    /\ strays \in 0..MaxStray
    /\ dups \in 0..MaxDup

\* Every copy of the request comes from one turn of the three nested loops
\* (attempts, addresses, UDP attempts), also when some of them fail half way:
\* the loops never send more often than the turns that are over allow.
SendBudget ==
    LET round == MaxRemotes * UdpAttempts
        turnsLeft ==
            CASE pc \in {"resolve", "backoff"} -> (Attempts - attempt + 1) * round
              [] pc = "bind" -> (Attempts - attempt) * round + left * UdpAttempts
              [] pc = "send" -> (Attempts - attempt) * round
                                + left * UdpAttempts + UdpAttempts - tries
              [] pc = "recv" -> (Attempts - attempt) * round
                                + left * UdpAttempts + UdpAttempts - tries - 1
    IN  pc \in Active => sent + turnsLeft <= SendLimit

\* A call that returns Ok returns the answer to its request, which the PLC has
\* carried out, although datagrams of others reach the same port.
OwnAnswer == pc = "ok" => result.serial = Serial /\ applied > 0

\* "receive a single response packet": the datagram returned is the one that
\* was sent, whatever datagrams were discarded before it.
AnswerWhole == pc = "ok" => result.len = AnswerLen

\* With a monitoring timer the call returns, whatever the network loses.
CallReturns == pc # "idle" ~> pc \in Returned

(***************************************************************************)
(* Refinement: over UDP, too, a call is an at-least-once operation.        *)
(***************************************************************************)
Status == CASE pc = "idle" -> "new"
            [] pc \in Active -> "running"
            [] pc = "ok" -> "ok"
            [] OTHER -> "failed"

Promise == INSTANCE AtLeastOnce WITH
               Calls <- {Serial},
               Limit <- SendLimit,
               status <- [c \in {Serial} |-> Status],
               sends <- [c \in {Serial} |-> sent],
               copies <- [c \in {Serial} |-> here + gone],
               effects <- [c \in {Serial} |-> applied]

\* The UDP transport keeps the promise of AtLeastOnce.
KeepsPromise == Promise!Spec
====
