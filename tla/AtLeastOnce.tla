---------------------------- MODULE AtLeastOnce ----------------------------
(***************************************************************************)
(* What send_and_recv_with_retry promises of a remote operation: a call    *)
(* that succeeds has taken effect at least once, a call that fails may     *)
(* have taken effect, even later, and no call is sent more than Limit      *)
(* times.  Copies of a request are lost, or carried out once each.         *)
(***************************************************************************)
EXTENDS Naturals

CONSTANTS Calls, Limit

VARIABLES
    status,    \* "new", "running", "ok" or "failed"
    sends,     \* copies of the request sent so far
    copies,    \* copies in transit
    effects    \* copies carried out

vars == <<status, sends, copies, effects>>

Init ==
    /\ status = [c \in Calls |-> "new"]
    /\ sends = [c \in Calls |-> 0]
    /\ copies = [c \in Calls |-> 0]
    /\ effects = [c \in Calls |-> 0]

\* A call may fail at once, before anything is sent.
Begin(c) ==
    /\ status[c] = "new"
    /\ \E s \in {"running", "failed"} : status' = [status EXCEPT ![c] = s]
    /\ UNCHANGED <<sends, copies, effects>>

\* A copy enters the network, or is lost at once.
Send(c) ==
    /\ status[c] = "running"
    /\ sends[c] < Limit
    /\ sends' = [sends EXCEPT ![c] = @ + 1]
    /\ copies' \in {copies, [copies EXCEPT ![c] = @ + 1]}
    /\ UNCHANGED <<status, effects>>

\* Also after the call has returned.
Lose(c) ==
    /\ copies[c] > 0
    /\ copies' = [copies EXCEPT ![c] = @ - 1]
    /\ UNCHANGED <<status, sends, effects>>

TakeEffect(c) ==
    /\ copies[c] > 0
    /\ copies' = [copies EXCEPT ![c] = @ - 1]
    /\ effects' = [effects EXCEPT ![c] = @ + 1]
    /\ UNCHANGED <<status, sends>>

Succeed(c) ==
    /\ status[c] = "running"
    /\ effects[c] > 0
    /\ status' = [status EXCEPT ![c] = "ok"]
    /\ UNCHANGED <<sends, copies, effects>>

Fail(c) ==
    /\ status[c] = "running"
    /\ status' = [status EXCEPT ![c] = "failed"]
    /\ UNCHANGED <<sends, copies, effects>>

Next == \E c \in Calls :
    Begin(c) \/ Send(c) \/ Lose(c) \/ TakeEffect(c) \/ Succeed(c) \/ Fail(c)

Spec == Init /\ [][Next]_vars
====
