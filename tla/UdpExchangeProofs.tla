-------------------------- MODULE UdpExchangeProofs -------------------------
(***************************************************************************)
(* How often a call over UDP sends, whose answer it returns, and that it   *)
(* implements AtLeastOnce: for any numbers of attempts, addresses, other   *)
(* datagrams and duplicates.                                               *)
(***************************************************************************)
EXTENDS UdpExchange, TLAPS

\* What is to be known of the numbers.
LEMMA Sizes ==
    /\ 0 \in Serials
    /\ BufferLen \in Nat /\ MaxDatagram \in 0..BufferLen
BY DEF Serials, BufferLen, MaxDatagram

LEMMA MinOfTwo ==
    ASSUME NEW a \in Nat, NEW b \in Nat
    PROVE  /\ Min({a, b}) \in {a, b}
           /\ Min({a, b}) <= a /\ Min({a, b}) <= b
<1>1. \E x \in {a, b} : \A y \in {a, b} : x <= y
  OBVIOUS
<1> QED BY <1>1 DEF Min

\* What recv_from leaves is a datagram, no longer than the one it was.
LEMMA ReceivedFacts ==
    ASSUME TypeOK, inbox # <<>>
    PROVE  /\ Received \in Datagrams
           /\ Received.serial = inbox[1].serial
           /\ Received.len <= inbox[1].len
           /\ 1 \in DOMAIN inbox
           /\ Tail(inbox) \in Seq(Datagrams)
           /\ \A i \in DOMAIN Tail(inbox) :
                  i + 1 \in DOMAIN inbox /\ Tail(inbox)[i] = inbox[i + 1]
<1>1. inbox \in Seq(Datagrams) /\ cap \in 0..BufferLen
  BY DEF TypeOK
<1>2. Head(inbox) = inbox[1] /\ inbox[1] \in Datagrams /\ 1 \in DOMAIN inbox
  BY <1>1
<1>3. inbox[1].len \in 0..BufferLen /\ inbox[1].serial \in Serials
  BY <1>2 DEF Datagrams
<1>4. Min({inbox[1].len, cap}) \in 0..BufferLen
      /\ Min({inbox[1].len, cap}) <= inbox[1].len
  BY <1>1, <1>3, Sizes, MinOfTwo
<1>5. Received = [inbox[1] EXCEPT !.len = Min({inbox[1].len, cap})]
  BY <1>2 DEF Received
<1>6. Received \in Datagrams /\ Received.serial = inbox[1].serial
      /\ Received.len = Min({inbox[1].len, cap})
  BY <1>2, <1>4, <1>5 DEF Datagrams
<1>7. /\ Tail(inbox) \in Seq(Datagrams)
      /\ \A i \in DOMAIN Tail(inbox) :
             i + 1 \in DOMAIN inbox /\ Tail(inbox)[i] = inbox[i + 1]
  BY <1>1
<1> QED BY <1>2, <1>4, <1>6, <1>7

(***************************************************************************)
(* Types, and where the loop variables are.                                *)
(***************************************************************************)
Loops ==
    /\ attempt > 0
    /\ pc = "idle" => attempt = 1 /\ sent = 0
    /\ pc \in Active => attempt <= Attempts
    /\ pc = "bind" => left > 0
    /\ pc \in Bound => tries < UdpAttempts

LEMMA LoopsInit == Init => TypeOK /\ Loops
BY UdpAssumption, Sizes
DEF Init, TypeOK, Loops, NoDatagram, Datagrams, Active, Bound, Returned

\* After an attempt that failed.
LEMMA AttemptFailsKeeps ==
    ASSUME TypeOK, Loops, pc \in Active, AttemptFails
    PROVE  /\ pc' \in {"backoff", "err"}
           /\ attempt' \in Nat \ {0}
           /\ pc' \in Active => attempt' <= Attempts
BY UdpAssumption DEF TypeOK, Loops, AttemptFails, Active, Bound

\* After the end of a turn.
LEMMA NextTryKeeps ==
    ASSUME TypeOK, Loops, pc \in Bound, NextTry,
           UNCHANGED <<left, cap, result, sent, applied, strays, dups>>
    PROVE  TypeOK' /\ Loops'
<1> USE UdpAssumption
<1>1. tries' = tries + 1 /\ tries < UdpAttempts /\ pc \in Active
  BY DEF NextTry, Loops, Active
<1>2. CASE tries + 1 < UdpAttempts
  <2>1. pc' = "send" /\ UNCHANGED <<attempt, inbox, here, gone>>
    BY <1>2 DEF NextTry
  <2> QED BY <1>1, <1>2, <2>1 DEF TypeOK, Loops, Active, Bound, Returned
<1>3. CASE ~(tries + 1 < UdpAttempts)
  <2>1. NextRemote /\ inbox' = <<>> /\ gone' = gone + here /\ here' = 0
    BY <1>3 DEF NextTry, CloseSocket
  <2>2. /\ \/ pc' = "bind" /\ left > 0
           \/ pc' \in {"backoff", "err"}
        /\ attempt' \in Nat \ {0}
        /\ pc' \in Active => attempt' <= Attempts
    <3>1. CASE left > 0
      BY <1>1, <2>1, <3>1 DEF NextRemote, TypeOK, Loops
    <3>2. CASE ~(left > 0)
      BY <1>1, <2>1, <3>2, AttemptFailsKeeps DEF NextRemote
    <3> QED BY <3>1, <3>2
  <2>3. inbox' \in Seq(Datagrams)
    BY <2>1
  <2> QED BY <1>1, <2>1, <2>2, <2>3
          DEF TypeOK, Loops, Active, Bound, Returned
<1> QED BY <1>2, <1>3

\* After an address that could not be used.
LEMMA NextAddressKeeps ==
    ASSUME TypeOK, Loops, pc = "bind", left' = left - 1,
           tries' \in {0, tries},
           IF left > 1 THEN UNCHANGED <<pc, attempt>> ELSE AttemptFails,
           UNCHANGED <<cap, result, inbox, here, gone, sent, applied, strays,
                       dups>>
    PROVE  TypeOK' /\ Loops'
<1> USE UdpAssumption
<1>1. left' \in 0..MaxRemotes /\ tries' \in 0..UdpAttempts
  BY DEF TypeOK, Loops
<1>2. /\ \/ pc' = "bind" /\ left' > 0
         \/ pc' \in {"backoff", "err"}
      /\ attempt' \in Nat \ {0}
      /\ pc' \in Active => attempt' <= Attempts
  <2>1. CASE left > 1
    BY <2>1 DEF TypeOK, Loops
  <2>2. CASE ~(left > 1)
    BY <2>2, AttemptFailsKeeps DEF Active
  <2> QED BY <2>1, <2>2
<1> QED BY <1>1, <1>2 DEF TypeOK, Loops, Active, Bound, Returned

\* A step that moves the program counter forward within an attempt, or that is
\* the last one.
LEMMA MoveKeeps ==
    ASSUME TypeOK, Loops, UNCHANGED <<attempt, tries, strays, dups>>,
           \/ pc' \in Returned
           \/ pc \in Active /\ pc' \in {"resolve", "recv"}
              /\ (pc' = "recv" => pc \in Bound),
           left' = left, sent' \in Nat, applied' = applied,
           cap' \in 0..BufferLen, result' \in Datagrams,
           inbox' \in Seq(Datagrams), here' \in Nat, gone' \in Nat
    PROVE  TypeOK' /\ Loops'
BY UdpAssumption DEF TypeOK, Loops, Active, Bound, Returned

\* A step of the environment.
LEMMA EnvironmentKeeps ==
    ASSUME TypeOK, Loops, Environment
    PROVE  TypeOK' /\ Loops'
<1> USE UdpAssumption
<1>1. AnswerDatagram \in Datagrams /\ Strays \subseteq Datagrams
  BY Sizes DEF AnswerDatagram, Datagrams
<1>2. /\ UNCHANGED <<pc, attempt, left, tries, cap, result, sent>>
      /\ inbox' \in Seq(Datagrams)
      /\ here' \in Nat /\ gone' \in Nat /\ applied' \in Nat
      /\ strays' \in 0..MaxStray /\ dups' \in 0..MaxDup
  <2>1. inbox \in Seq(Datagrams)
    BY DEF TypeOK
  <2>2. CASE Execute
    BY <1>1, <2>1, <2>2 DEF Execute, TypeOK
  <2>3. CASE ExecuteLate
    BY <2>1, <2>3 DEF ExecuteLate, TypeOK
  <2>4. CASE Lose
    BY <2>1, <2>4 DEF Lose, TypeOK, netVars
  <2>5. CASE Duplicate
    BY <1>1, <2>1, <2>5 DEF Duplicate, TypeOK
  <2>6. CASE Stray
    BY <1>1, <2>1, <2>6 DEF Stray, TypeOK
  <2> QED BY <2>2, <2>3, <2>4, <2>5, <2>6 DEF Environment
<1> QED BY <1>2 DEF TypeOK, Loops

LEMMA LoopsNext == TypeOK /\ Loops /\ [Next]_vars => TypeOK' /\ Loops'
<1> SUFFICES ASSUME TypeOK, Loops, [Next]_vars PROVE TypeOK' /\ Loops'
  OBVIOUS
<1> USE UdpAssumption
<1>1. CASE Start
  BY <1>1 DEF Start, netVars, TypeOK, Loops, Active, Bound, Returned
<1>2. CASE Resolve
  BY <1>2 DEF Resolve, netVars, TypeOK, Loops, Active, Bound, Returned
<1>3. CASE ResolveFails
  <2>1. pc = "resolve" /\ AttemptFails
    BY <1>3 DEF ResolveFails
  <2>2. /\ pc' \in {"backoff", "err"}
        /\ attempt' \in Nat \ {0}
        /\ pc' \in Active => attempt' <= Attempts
    BY <2>1, AttemptFailsKeeps DEF Active
  <2> QED BY <1>3, <2>2
          DEF ResolveFails, netVars, TypeOK, Loops, Active, Bound, Returned
<1>4. CASE Bind
  <2>1. /\ pc = "bind" /\ left' = left - 1 /\ tries' = 0
        /\ UNCHANGED <<cap, result, inbox, here, gone, sent, applied, strays,
                       dups>>
    BY <1>4 DEF Bind, netVars
  <2>2. CASE UdpAttempts > 0
    <3>1. pc' = "send" /\ UNCHANGED attempt
      BY <1>4, <2>2 DEF Bind
    <3> QED BY <2>1, <2>2, <3>1 DEF TypeOK, Loops, Active, Bound
  <2>3. CASE ~(UdpAttempts > 0)
    <3>1. IF left > 1 THEN UNCHANGED <<pc, attempt>> ELSE AttemptFails
      BY <1>4, <2>3, Zenon DEF Bind
    <3> QED BY <2>1, <3>1, NextAddressKeeps
  <2> QED BY <2>2, <2>3
<1>5. CASE BindFails
  BY <1>5, NextAddressKeeps DEF BindFails, netVars
<1>6. CASE Send
  BY <1>6, Sizes, MoveKeeps DEF Send, TypeOK, Active, Bound
<1>7. CASE SendFails
  BY <1>7, NextTryKeeps DEF SendFails, netVars, Bound
<1>8. CASE ReceiveAnswer
  <2>1. Received \in Datagrams /\ Received.len \in 0..BufferLen
    BY <1>8, ReceivedFacts DEF ReceiveAnswer, Datagrams
  <2>2. inbox' = <<>> /\ here' \in Nat /\ gone' \in Nat
    BY <1>8 DEF ReceiveAnswer, CloseSocket, TypeOK
  <2> QED BY <1>8, <2>1, <2>2, MoveKeeps
          DEF ReceiveAnswer, netVars, TypeOK, Returned
<1>9. CASE ReceiveOther
  <2>1. /\ Received.len \in 0..BufferLen
        /\ Tail(inbox) \in Seq(Datagrams)
    BY <1>9, ReceivedFacts DEF ReceiveOther, Datagrams
  <2> QED BY <1>9, <2>1, MoveKeeps
          DEF ReceiveOther, netVars, TypeOK, Active, Bound
<1>10. CASE ReceiveTimesOut
  BY <1>10, NextTryKeeps DEF ReceiveTimesOut, netVars, Bound
<1>11. CASE ReceiveFails
  BY <1>11, NextTryKeeps DEF ReceiveFails, netVars, Bound
<1>12. CASE Wake
  BY <1>12, MoveKeeps DEF Wake, netVars, TypeOK, Active
<1>13. CASE Cancel
  <2>1. inbox' = <<>> /\ here' \in Nat /\ gone' \in Nat
    BY <1>13 DEF Cancel, CloseSocket, TypeOK
  <2> QED BY <1>13, <2>1, MoveKeeps DEF Cancel, netVars, TypeOK, Returned
<1>14. CASE Environment
  BY <1>14, EnvironmentKeeps
<1>15. CASE UNCHANGED vars
  BY <1>15 DEF vars, TypeOK, Loops
<1> QED
  BY <1>1, <1>2, <1>3, <1>4, <1>5, <1>6, <1>7, <1>8, <1>9, <1>10, <1>11,
     <1>12, <1>13, <1>14, <1>15
  DEF Next, Proceed, Finished

(***************************************************************************)
(* The three loops and what they may still send.                           *)
(***************************************************************************)

\* The sends that are left to n attempts, and to n addresses.
OfAttempts(n) == n * (MaxRemotes * UdpAttempts)
OfAddresses(n) == n * UdpAttempts

LEMMA LoopFacts ==
    /\ OfAttempts(Attempts) = SendLimit
    /\ \A n \in Nat : OfAttempts(n) \in Nat /\ OfAddresses(n) \in Nat
    /\ \A n \in Nat : OfAttempts(n + 1) = OfAttempts(n) + OfAddresses(MaxRemotes)
    /\ \A n \in Nat \ {0} : OfAddresses(n) = OfAddresses(n - 1) + UdpAttempts
    /\ \A n \in 0..MaxRemotes : OfAddresses(n) <= OfAddresses(MaxRemotes)
    /\ OfAddresses(0) = 0
<1> USE UdpAssumption
<1>1. /\ MaxRemotes * UdpAttempts \in Nat
      /\ Attempts * (MaxRemotes * UdpAttempts)
             = Attempts * MaxRemotes * UdpAttempts
  OBVIOUS
<1>2. \A n, k \in Nat : n * k \in Nat
  OBVIOUS
<1>3. \A n, k \in Nat : (n + 1) * k = n * k + k
  OBVIOUS
<1>4. \A n \in Nat \ {0} : n * UdpAttempts = (n - 1) * UdpAttempts + UdpAttempts
  OBVIOUS
<1>5. ASSUME NEW n \in 0..MaxRemotes
      PROVE  n * UdpAttempts <= MaxRemotes * UdpAttempts
  <2>1. /\ MaxRemotes - n \in Nat
        /\ MaxRemotes * UdpAttempts
               = n * UdpAttempts + (MaxRemotes - n) * UdpAttempts
    OBVIOUS
  <2> QED BY <1>2, <2>1
<1> QED BY <1>1, <1>2, <1>3, <1>4, <1>5 DEF OfAttempts, OfAddresses, SendLimit

\* The numbers of the loops.
Reckoning ==
    /\ pc = "idle" => sent = 0 /\ attempt = 1
    /\ pc \in {"resolve", "backoff"} =>
           sent + OfAttempts(Attempts - attempt + 1) <= SendLimit
    /\ pc = "bind" =>
           sent + OfAttempts(Attempts - attempt) + OfAddresses(left)
               <= SendLimit
    /\ pc = "send" =>
           sent + OfAttempts(Attempts - attempt) + OfAddresses(left)
               + (UdpAttempts - tries) <= SendLimit
    /\ pc = "recv" =>
           sent + OfAttempts(Attempts - attempt) + OfAddresses(left)
               + (UdpAttempts - tries - 1) <= SendLimit

LEMMA ReckoningIsBudget ==
    ASSUME TypeOK, Loops, Reckoning
    PROVE  SendBudget
<1> DEFINE round == MaxRemotes * UdpAttempts
           turnsLeft ==
               CASE pc \in {"resolve", "backoff"} ->
                        (Attempts - attempt + 1) * round
                 [] pc = "bind" ->
                        (Attempts - attempt) * round + left * UdpAttempts
                 [] pc = "send" -> (Attempts - attempt) * round
                        + left * UdpAttempts + UdpAttempts - tries
                 [] pc = "recv" -> (Attempts - attempt) * round
                        + left * UdpAttempts + UdpAttempts - tries - 1
<1>1. /\ SendLimit \in Int /\ sent \in Nat
      /\ pc \in Active => OfAttempts(Attempts - attempt) \in Nat
      /\ OfAddresses(left) \in Nat /\ UdpAttempts \in Nat /\ tries \in Nat
  <2>1. pc \in Active => Attempts - attempt \in Nat
    BY UdpAssumption DEF TypeOK, Loops
  <2>2. left \in Nat /\ Attempts \in Nat
    BY UdpAssumption DEF TypeOK
  <2>3. SendLimit \in Nat /\ OfAddresses(left) \in Nat
    BY <2>2, LoopFacts
  <2>4. pc \in Active => OfAttempts(Attempts - attempt) \in Nat
    BY <2>1, LoopFacts
  <2>5. sent \in Nat /\ UdpAttempts \in Nat /\ tries \in Nat
    BY UdpAssumption DEF TypeOK
  <2> QED BY <2>3, <2>4, <2>5
<1>2. ASSUME pc \in {"resolve", "backoff"}
      PROVE  sent + turnsLeft <= SendLimit
  <2>1. turnsLeft = OfAttempts(Attempts - attempt + 1)
    BY <1>2 DEF OfAttempts
  <2> QED BY <1>2, <2>1 DEF Reckoning
<1>3. ASSUME pc = "bind"
      PROVE  sent + turnsLeft <= SendLimit
  <2>1. turnsLeft = OfAttempts(Attempts - attempt) + OfAddresses(left)
    BY <1>3 DEF OfAttempts, OfAddresses
  <2>2. sent + OfAttempts(Attempts - attempt) + OfAddresses(left) <= SendLimit
    BY <1>3 DEF Reckoning
  <2> HIDE DEF turnsLeft
  <2> QED BY <1>1, <1>3, <2>1, <2>2 DEF Active
<1>4. ASSUME pc = "send"
      PROVE  sent + turnsLeft <= SendLimit
  <2>1. turnsLeft = OfAttempts(Attempts - attempt) + OfAddresses(left)
                    + UdpAttempts - tries
    BY <1>4 DEF OfAttempts, OfAddresses
  <2>2. sent + OfAttempts(Attempts - attempt) + OfAddresses(left)
            + (UdpAttempts - tries) <= SendLimit
    BY <1>4 DEF Reckoning
  <2> HIDE DEF turnsLeft
  <2> QED BY <1>1, <1>4, <2>1, <2>2 DEF Active, Bound
<1>5. ASSUME pc = "recv"
      PROVE  sent + turnsLeft <= SendLimit
  <2>1. turnsLeft = OfAttempts(Attempts - attempt) + OfAddresses(left)
                    + UdpAttempts - tries - 1
    BY <1>5 DEF OfAttempts, OfAddresses
  <2>2. sent + OfAttempts(Attempts - attempt) + OfAddresses(left)
            + (UdpAttempts - tries - 1) <= SendLimit
    BY <1>5 DEF Reckoning
  <2> HIDE DEF turnsLeft
  <2> QED BY <1>1, <1>5, <2>1, <2>2 DEF Active, Bound
<1>6. pc \in Active => sent + turnsLeft <= SendLimit
  BY <1>2, <1>3, <1>4, <1>5 DEF Active, Bound
<1> QED BY <1>6 DEF SendBudget

\* The numbers are numbers, and the sends of one more attempt are those of all
\* its addresses.
LEMMA LoopNumbers ==
    ASSUME TypeOK, Loops, pc \in Active
    PROVE  /\ OfAttempts(Attempts - attempt) \in Nat
           /\ OfAttempts(Attempts - attempt + 1)
                  = OfAttempts(Attempts - attempt) + OfAddresses(MaxRemotes)
           /\ \A n \in 0..MaxRemotes :
                  OfAddresses(n) \in Nat
                  /\ OfAddresses(n) <= OfAddresses(MaxRemotes)
           /\ left > 0 =>
                  OfAddresses(left) = OfAddresses(left - 1) + UdpAttempts
           /\ SendLimit \in Nat /\ UdpAttempts \in Nat
           /\ sent \in Nat /\ tries \in Nat /\ left \in 0..MaxRemotes
<1>1. Attempts - attempt \in Nat /\ left \in 0..MaxRemotes
  BY UdpAssumption DEF TypeOK, Loops
<1>2. SendLimit \in Nat
  BY UdpAssumption, LoopFacts
<1>3. /\ OfAttempts(Attempts - attempt) \in Nat
      /\ OfAttempts(Attempts - attempt + 1)
             = OfAttempts(Attempts - attempt) + OfAddresses(MaxRemotes)
  BY <1>1, LoopFacts
<1>4. \A n \in 0..MaxRemotes :
          OfAddresses(n) \in Nat /\ OfAddresses(n) <= OfAddresses(MaxRemotes)
  <2>1. \A n \in 0..MaxRemotes : n \in Nat
    OBVIOUS
  <2>2. \A n \in Nat : OfAddresses(n) \in Nat
    BY LoopFacts, Zenon
  <2>3. \A n \in 0..MaxRemotes : OfAddresses(n) <= OfAddresses(MaxRemotes)
    BY LoopFacts, Zenon
  <2> QED BY <2>1, <2>2, <2>3, Zenon
<1>5. left > 0 => OfAddresses(left) = OfAddresses(left - 1) + UdpAttempts
  BY <1>1, UdpAssumption, LoopFacts
<1>6. UdpAttempts \in Nat /\ sent \in Nat /\ tries \in Nat
  BY UdpAssumption DEF TypeOK
<1> QED BY <1>1, <1>2, <1>3, <1>4, <1>5, <1>6

\* Whoever is in an attempt has at least the further attempts left.
LEMMA InAttempt ==
    ASSUME TypeOK, Loops, Reckoning, pc \in Active
    PROVE  sent + OfAttempts(Attempts - attempt) <= SendLimit
<1>1. left \in 0..MaxRemotes /\ MaxRemotes \in 0..MaxRemotes
  BY LoopNumbers, UdpAssumption
<1>2. OfAddresses(left) \in Nat /\ OfAddresses(MaxRemotes) \in Nat
  BY <1>1, LoopNumbers
<1>3. pc \in Bound => tries < UdpAttempts
  BY DEF Loops
<1> QED BY <1>2, <1>3, LoopNumbers DEF Reckoning, Active, Bound

LEMMA ReckoningAttemptFails ==
    ASSUME TypeOK, Loops, Reckoning, pc \in Active, AttemptFails,
           sent' = sent
    PROVE  Reckoning'
<1>1. CASE attempt < Attempts
  <2>1. pc' = "backoff" /\ attempt' = attempt + 1
    BY <1>1 DEF AttemptFails
  <2>2. Attempts - attempt' + 1 = Attempts - attempt
    BY <2>1, UdpAssumption DEF TypeOK
  <2> QED BY <2>1, <2>2, InAttempt DEF Reckoning
<1>2. CASE ~(attempt < Attempts)
  <2>1. pc' = "err"
    BY <1>2 DEF AttemptFails
  <2> QED BY <2>1 DEF Reckoning
<1> QED BY <1>1, <1>2

LEMMA ReckoningNextTry ==
    ASSUME TypeOK, Loops, Reckoning, pc \in Bound, NextTry,
           UNCHANGED <<left, sent>>
    PROVE  Reckoning'
<1>1. /\ pc \in Active /\ tries' = tries + 1
      /\ sent + OfAttempts(Attempts - attempt) + OfAddresses(left)
             + (UdpAttempts - tries - 1) <= SendLimit
  BY LoopNumbers DEF Reckoning, NextTry, Active, Bound
<1>2. CASE tries + 1 < UdpAttempts
  <2>1. pc' = "send" /\ attempt' = attempt
    BY <1>2 DEF NextTry
  <2>2. UdpAttempts - tries' = UdpAttempts - tries - 1
    BY <1>1, LoopNumbers
  <2> QED BY <1>1, <2>1, <2>2 DEF Reckoning
<1>3. CASE ~(tries + 1 < UdpAttempts)
  <2>1. NextRemote
    BY <1>3 DEF NextTry
  <2>2. CASE left > 0
    <3>1. pc' = "bind" /\ attempt' = attempt
      BY <2>1, <2>2 DEF NextRemote
    <3>2. tries < UdpAttempts /\ OfAddresses(left) \in Nat
      BY <1>1, LoopNumbers DEF Loops
    <3>3. sent + OfAttempts(Attempts - attempt) + OfAddresses(left) <= SendLimit
      BY <1>1, <3>2, LoopNumbers
    <3> QED BY <3>1, <3>3 DEF Reckoning
  <2>3. CASE ~(left > 0)
    BY <1>1, <2>1, <2>3, ReckoningAttemptFails DEF NextRemote
  <2> QED BY <2>2, <2>3
<1> QED BY <1>2, <1>3

\* An address is taken.
LEMMA OneAddress ==
    ASSUME TypeOK, Loops, pc = "bind"
    PROVE  /\ OfAddresses(left) = OfAddresses(left - 1) + UdpAttempts
           /\ left - 1 \in 0..MaxRemotes
           /\ OfAddresses(left - 1) \in Nat /\ OfAddresses(left) \in Nat
<1>1. pc \in Active /\ left > 0 /\ left \in 0..MaxRemotes
  BY DEF Active, Loops, TypeOK
<1>2. left - 1 \in 0..MaxRemotes
  BY <1>1, UdpAssumption
<1>3. OfAddresses(left) = OfAddresses(left - 1) + UdpAttempts
  BY <1>1, LoopNumbers
<1>4. OfAddresses(left - 1) \in Nat /\ OfAddresses(left) \in Nat
  BY <1>1, <1>2, LoopNumbers
<1> QED BY <1>2, <1>3, <1>4

LEMMA ReckoningNextAddress ==
    ASSUME TypeOK, Loops, Reckoning, pc = "bind", left' = left - 1,
           IF left > 1 THEN UNCHANGED <<pc, attempt>> ELSE AttemptFails,
           sent' = sent
    PROVE  Reckoning'
<1>1. CASE left > 1
  <2>1. pc' = "bind" /\ attempt' = attempt
    BY <1>1
  <2>2. OfAddresses(left) = OfAddresses(left') + UdpAttempts
        /\ OfAddresses(left') \in Nat /\ OfAddresses(left) \in Nat
    BY OneAddress
  <2>3. OfAddresses(left') <= OfAddresses(left)
    BY <2>2, LoopNumbers DEF Active
  <2>4. sent + OfAttempts(Attempts - attempt) + OfAddresses(left) <= SendLimit
    BY DEF Reckoning
  <2>5. sent + OfAttempts(Attempts - attempt) + OfAddresses(left') <= SendLimit
    BY <2>2, <2>3, <2>4, LoopNumbers DEF Active
  <2> QED BY <2>1, <2>5 DEF Reckoning
<1>2. CASE ~(left > 1)
  BY <1>2, ReckoningAttemptFails DEF Active
<1> QED BY <1>1, <1>2

LEMMA ReckoningNext ==
    TypeOK /\ Loops /\ Reckoning /\ [Next]_vars => Reckoning'
<1> SUFFICES ASSUME TypeOK, Loops, Reckoning, [Next]_vars PROVE Reckoning'
  OBVIOUS
<1>1. CASE Start
  <2>1. pc = "idle" /\ sent' = sent /\ attempt' = attempt
        /\ pc' \in {"err", "resolve"}
    BY <1>1 DEF Start, netVars
  <2>2. Attempts - attempt' + 1 = Attempts /\ sent' = 0
    BY <2>1, UdpAssumption DEF Reckoning
  <2>3. SendLimit \in Nat
    BY UdpAssumption, LoopFacts
  <2> QED BY <2>1, <2>2, <2>3, LoopFacts DEF Reckoning
<1>2. CASE Resolve
  <2>1. /\ pc = "resolve" /\ pc' = "bind" /\ sent' = sent /\ attempt' = attempt
        /\ left' \in 0..MaxRemotes
    BY <1>2 DEF Resolve, netVars
  <2>2. /\ sent + OfAttempts(Attempts - attempt + 1) <= SendLimit
        /\ OfAddresses(left') <= OfAddresses(MaxRemotes)
        /\ OfAddresses(left') \in Nat /\ OfAddresses(MaxRemotes) \in Nat
    BY <2>1, UdpAssumption, LoopNumbers DEF Reckoning, Active
  <2>3. sent + OfAttempts(Attempts - attempt) + OfAddresses(left') <= SendLimit
    BY <2>1, <2>2, LoopNumbers DEF Active
  <2> QED BY <2>1, <2>3 DEF Reckoning
<1>3. CASE ResolveFails
  BY <1>3, ReckoningAttemptFails DEF ResolveFails, netVars, Active
<1>4. CASE Bind
  <2>1. pc = "bind" /\ left' = left - 1 /\ tries' = 0 /\ sent' = sent
    BY <1>4 DEF Bind, netVars
  <2>2. CASE UdpAttempts > 0
    <3>1. pc' = "send" /\ attempt' = attempt
      BY <1>4, <2>2 DEF Bind
    <3>2. OfAddresses(left) = OfAddresses(left') + UdpAttempts
      BY <2>1, OneAddress
    <3>3. OfAddresses(left') \in Nat
      BY <2>1, OneAddress
    <3>4. sent + OfAttempts(Attempts - attempt) + OfAddresses(left)
              <= SendLimit
      BY <2>1 DEF Reckoning
    <3>5. sent + OfAttempts(Attempts - attempt) + OfAddresses(left')
              + (UdpAttempts - 0) <= SendLimit
      BY <2>1, <3>2, <3>3, <3>4, LoopNumbers DEF Active
    <3> QED BY <2>1, <3>1, <3>5 DEF Reckoning
  <2>3. CASE ~(UdpAttempts > 0)
    <3>1. IF left > 1 THEN UNCHANGED <<pc, attempt>> ELSE AttemptFails
      BY <1>4, <2>3, Zenon DEF Bind
    <3> QED BY <2>1, <3>1, ReckoningNextAddress
  <2> QED BY <2>2, <2>3
<1>5. CASE BindFails
  BY <1>5, ReckoningNextAddress DEF BindFails, netVars
<1>6. CASE Send
  <2>1. /\ pc = "send" /\ pc' = "recv" /\ sent' = sent + 1
        /\ UNCHANGED <<attempt, left, tries>>
    BY <1>6 DEF Send
  <2>2. /\ OfAddresses(left) \in Nat
        /\ sent + OfAttempts(Attempts - attempt) + OfAddresses(left)
               + (UdpAttempts - tries) <= SendLimit
    BY <2>1, LoopNumbers DEF Reckoning, Active, Bound
  <2>3. sent' + OfAttempts(Attempts - attempt) + OfAddresses(left)
            + (UdpAttempts - tries - 1) <= SendLimit
    BY <2>1, <2>2, LoopNumbers DEF Active, Bound
  <2> QED BY <2>1, <2>3 DEF Reckoning
<1>7. CASE SendFails \/ ReceiveTimesOut \/ ReceiveFails
  BY <1>7, ReckoningNextTry
  DEF SendFails, ReceiveTimesOut, ReceiveFails, netVars, Bound
<1>8. CASE ReceiveAnswer \/ Cancel
  BY <1>8 DEF ReceiveAnswer, Cancel, Reckoning
<1>9. CASE ReceiveOther \/ Environment \/ UNCHANGED vars
  BY <1>9 DEF ReceiveOther, Environment, Execute, ExecuteLate, Lose, Duplicate,
              Stray, Reckoning, netVars, vars
<1>10. CASE Wake
  BY <1>10 DEF Wake, Reckoning, netVars
<1> QED
  BY <1>1, <1>2, <1>3, <1>4, <1>5, <1>6, <1>7, <1>8, <1>9, <1>10
  DEF Next, Proceed, Finished

(***************************************************************************)
(* The answers at the socket.                                              *)
(***************************************************************************)

\* Nobody else sends a datagram of four bytes and more with this serial.
StraysDiffer == \A d \in Strays : d.serial = Serial => d.len < 4

\* Where an answer is, there has been an effect.
Answers ==
    /\ \A i \in DOMAIN inbox :
           inbox[i].serial = Serial /\ inbox[i].len >= 4 => applied > 0
    /\ OwnAnswer

LEMMA AnswersInit == Init => Answers
BY DEF Init, Answers, OwnAnswer

\* A datagram that matches is an answer.
LEMMA MatchIsAnswer ==
    ASSUME TypeOK, Answers, inbox # <<>>, Matches
    PROVE  Received.serial = Serial /\ applied > 0
<1>1. Serial # 0
  BY UdpAssumption
<1>2. Received.len >= 4 /\ Received.serial = Serial
  BY <1>1 DEF Matches
<1>3. inbox[1].len \in Nat /\ Received.len \in Nat
  <2>1. inbox \in Seq(Datagrams) /\ Received \in Datagrams
        /\ 1 \in DOMAIN inbox
    BY ReceivedFacts DEF TypeOK
  <2>2. inbox[1] \in Datagrams
    BY <2>1
  <2> QED BY <2>1, <2>2, Sizes DEF Datagrams
<1>4. inbox[1].serial = Serial /\ inbox[1].len >= 4 /\ 1 \in DOMAIN inbox
  BY <1>2, <1>3, ReceivedFacts
<1> QED BY <1>2, <1>4 DEF Answers

\* A datagram arrives behind those that are there.
LEMMA AnswersAppend ==
    ASSUME TypeOK, Answers, NEW d \in Datagrams, inbox' = Append(inbox, d),
           d.serial = Serial /\ d.len >= 4 => applied' > 0,
           applied > 0 => applied' > 0, UNCHANGED <<pc, result>>
    PROVE  Answers'
<1>1. inbox \in Seq(Datagrams)
  BY DEF TypeOK
<1>2. \A i \in DOMAIN inbox' :
          \/ i \in DOMAIN inbox /\ inbox'[i] = inbox[i]
          \/ inbox'[i] = d
  BY <1>1
<1> QED BY <1>2 DEF Answers, OwnAnswer

\* Datagrams go, or time passes.
LEMMA AnswersFewer ==
    ASSUME TypeOK, Answers, inbox' \in {inbox, <<>>},
           applied > 0 => applied' > 0,
           pc' = "ok" => pc = "ok" /\ result' = result
    PROVE  Answers'
BY DEF Answers, OwnAnswer

\* The end of a turn returns nothing.
LEMMA AnswersNextTry ==
    ASSUME TypeOK, Answers, NextTry, applied' = applied
    PROVE  Answers'
<1>1. inbox' \in {inbox, <<>>} /\ pc' # "ok"
  <2>1. CASE tries + 1 < UdpAttempts
    BY <2>1 DEF NextTry
  <2>2. CASE ~(tries + 1 < UdpAttempts)
    BY <2>2 DEF NextTry, NextRemote, AttemptFails, CloseSocket
  <2> QED BY <2>1, <2>2
<1> QED BY <1>1, AnswersFewer

LEMMA AnswersNext ==
    StraysDiffer /\ TypeOK /\ Answers /\ [Next]_vars => Answers'
<1> SUFFICES ASSUME StraysDiffer, TypeOK, Answers, [Next]_vars PROVE Answers'
  OBVIOUS
<1>1. AnswerDatagram \in Datagrams /\ Strays \subseteq Datagrams
  BY UdpAssumption, Sizes DEF AnswerDatagram, Datagrams
<1>2. CASE Start \/ Resolve \/ Wake \/ Cancel
  BY <1>2, AnswersFewer DEF Start, Resolve, Wake, Cancel, CloseSocket, netVars
<1>3. CASE ResolveFails \/ BindFails
  BY <1>3, AnswersFewer DEF ResolveFails, BindFails, AttemptFails, netVars
<1>4. CASE Bind
  <2>1. UNCHANGED <<inbox, applied, result>> /\ pc = "bind"
    BY <1>4 DEF Bind, netVars
  <2>2. pc' # "ok"
    BY <1>4 DEF Bind, AttemptFails
  <2> QED BY <2>1, <2>2, AnswersFewer
<1>5. CASE Send
  BY <1>5, AnswersFewer DEF Send
<1>6. CASE SendFails \/ ReceiveTimesOut \/ ReceiveFails
  BY <1>6, AnswersNextTry DEF SendFails, ReceiveTimesOut, ReceiveFails, netVars
<1>7. CASE ReceiveAnswer
  <2>1. result'.serial = Serial /\ applied' > 0 /\ inbox' = <<>>
    BY <1>7, MatchIsAnswer DEF ReceiveAnswer, CloseSocket, netVars
  <2> QED BY <2>1 DEF Answers, OwnAnswer
<1>8. CASE ReceiveOther
  <2>1. /\ inbox' = Tail(inbox) /\ inbox # <<>>
        /\ UNCHANGED <<applied, pc, result>>
    BY <1>8 DEF ReceiveOther, netVars
  <2>2. \A i \in DOMAIN inbox' :
            i + 1 \in DOMAIN inbox /\ inbox'[i] = inbox[i + 1]
    BY <2>1, ReceivedFacts
  <2> QED BY <2>1, <2>2 DEF Answers, OwnAnswer
<1>9. CASE Execute
  <2>1. /\ UNCHANGED <<pc, result>> /\ applied' = applied + 1
        /\ inbox' \in {inbox, Append(inbox, AnswerDatagram)}
        /\ applied' > 0
    BY <1>9 DEF Execute, TypeOK
  <2> QED BY <1>1, <2>1, AnswersFewer, AnswersAppend
<1>10. CASE ExecuteLate \/ Lose
  BY <1>10, AnswersFewer DEF ExecuteLate, Lose, netVars, TypeOK
<1>11. CASE Duplicate
  <2>1. /\ inbox' = Append(inbox, AnswerDatagram)
        /\ UNCHANGED <<pc, result, applied>>
        /\ AnswerDatagram \in ToSet(inbox)
    BY <1>11 DEF Duplicate
  <2>2. PICK i \in DOMAIN inbox : inbox[i] = AnswerDatagram
    BY <2>1 DEF ToSet
  <2>3. AnswerDatagram.serial = Serial /\ AnswerDatagram.len >= 4
    BY UdpAssumption, Sizes DEF AnswerDatagram
  <2>4. applied > 0
    BY <2>2, <2>3 DEF Answers
  <2> QED BY <1>1, <2>1, <2>4, AnswersAppend
<1>12. CASE Stray
  <2>1. PICK d \in Strays : inbox' = Append(inbox, d)
    BY <1>12 DEF Stray
  <2>2. d \in Datagrams /\ ~(d.serial = Serial /\ d.len >= 4)
    BY <1>1, Sizes DEF StraysDiffer, Datagrams
  <2> QED BY <1>12, <2>1, <2>2, AnswersAppend DEF Stray
<1>13. CASE UNCHANGED vars
  BY <1>13, AnswersFewer DEF vars
<1> QED
  BY <1>2, <1>3, <1>4, <1>5, <1>6, <1>7, <1>8, <1>9, <1>10, <1>11, <1>12,
     <1>13
  DEF Next, Proceed, Environment, Finished

(***************************************************************************)
(* Refinement of AtLeastOnce.                                              *)
(***************************************************************************)

\* The step of AtLeastOnce that a change of the call amounts to.
LEMMA BeginStep ==
    ASSUME Status = "new", Status' \in {"running", "failed"},
           sent' = sent, here' + gone' = here + gone, applied' = applied
    PROVE  Promise!Next
<1>1. Promise!Begin(Serial)
  BY DEF Promise!Begin
<1> QED BY <1>1 DEF Promise!Next

LEMMA SendStep ==
    ASSUME Status = "running", Status' = Status, sent \in Nat,
           sent < SendLimit, sent' = sent + 1,
           here' + gone' = here + gone + 1, applied' = applied
    PROVE  Promise!Next
<1>1. Promise!Send(Serial)
  BY DEF Promise!Send
<1> QED BY <1>1 DEF Promise!Next

LEMMA LoseStep ==
    ASSUME Status' = Status, sent' = sent, here + gone \in Nat \ {0},
           here' + gone' = (here + gone) - 1, applied' = applied
    PROVE  Promise!Next
<1>1. Promise!Lose(Serial)
  BY DEF Promise!Lose
<1> QED BY <1>1 DEF Promise!Next

LEMMA EffectStep ==
    ASSUME Status' = Status, sent' = sent, here + gone \in Nat \ {0},
           here' + gone' = (here + gone) - 1, applied' = applied + 1
    PROVE  Promise!Next
<1>1. /\ [c \in {Serial} |-> here + gone][Serial] > 0
      /\ [c \in {Serial} |-> here + gone]' =
            [[c \in {Serial} |-> here + gone] EXCEPT ![Serial] = @ - 1]
  OBVIOUS
<1>2. [c \in {Serial} |-> applied]' =
          [[c \in {Serial} |-> applied] EXCEPT ![Serial] = @ + 1]
  OBVIOUS
<1>3. /\ [c \in {Serial} |-> Status]' = [c \in {Serial} |-> Status]
      /\ [c \in {Serial} |-> sent]' = [c \in {Serial} |-> sent]
  OBVIOUS
<1>4. Promise!TakeEffect(Serial)
  BY <1>1, <1>2, <1>3 DEF Promise!TakeEffect
<1> QED BY <1>4 DEF Promise!Next

LEMMA SucceedStep ==
    ASSUME Status = "running", Status' = "ok", applied > 0,
           sent' = sent, here' + gone' = here + gone, applied' = applied
    PROVE  Promise!Next
<1>1. Promise!Succeed(Serial)
  BY DEF Promise!Succeed
<1> QED BY <1>1 DEF Promise!Next

LEMMA FailStep ==
    ASSUME Status = "running", Status' = "failed",
           sent' = sent, here' + gone' = here + gone, applied' = applied
    PROVE  Promise!Next
<1>1. Promise!Fail(Serial)
  BY DEF Promise!Fail
<1> QED BY <1>1 DEF Promise!Next

LEMMA SameStep ==
    ASSUME Status' = Status,
           sent' = sent, here' + gone' = here + gone, applied' = applied
    PROVE  UNCHANGED Promise!vars
BY DEF Promise!vars

LEMMA StatusFacts ==
    ASSUME TypeOK
    PROVE  /\ pc = "idle" => Status = "new"
           /\ pc \in Active => Status = "running"
           /\ pc = "ok" => Status = "ok"
           /\ pc \in {"err", "cancelled"} => Status = "failed"
BY DEF Status, Active, Bound

LEMMA StatusFactsNext ==
    ASSUME TypeOK'
    PROVE  /\ pc' = "idle" => Status' = "new"
           /\ pc' \in Active => Status' = "running"
           /\ pc' = "ok" => Status' = "ok"
           /\ pc' \in {"err", "cancelled"} => Status' = "failed"
BY DEF Status, Active, Bound

\* A step inside the call that sends nothing: the call goes on or fails, and
\* its copies only change their place.
LEMMA InnerStep ==
    ASSUME TypeOK, TypeOK', pc \in Active,
           pc' \in Active \cup {"err", "cancelled"}, sent' = sent,
           here' + gone' = here + gone, applied' = applied
    PROVE  [Promise!Next]_(Promise!vars)
<1>1. CASE pc' \in Active
  BY <1>1, StatusFacts, StatusFactsNext, SameStep
<1>2. CASE pc' \in {"err", "cancelled"}
  BY <1>2, StatusFacts, StatusFactsNext, FailStep
<1> QED BY <1>1, <1>2

\* The end of a turn.
LEMMA TryStep ==
    ASSUME TypeOK, TypeOK', pc \in Bound, NextTry, sent' = sent,
           applied' = applied
    PROVE  [Promise!Next]_(Promise!vars)
<1>1. pc \in Active
  BY DEF Active
<1>2. CASE tries + 1 < UdpAttempts
  <2>1. pc' = "send" /\ UNCHANGED <<here, gone>>
    BY <1>2 DEF NextTry
  <2> QED BY <1>1, <2>1, InnerStep DEF Active, Bound
<1>3. CASE ~(tries + 1 < UdpAttempts)
  <2>1. NextRemote /\ gone' = gone + here /\ here' = 0
    BY <1>3 DEF NextTry, CloseSocket
  <2>2. here' + gone' = here + gone
    BY <2>1 DEF TypeOK
  <2>3. pc' \in {"bind", "backoff", "err"}
    BY <2>1 DEF NextRemote, AttemptFails
  <2> QED BY <1>1, <2>2, <2>3, InnerStep DEF Active
<1> QED BY <1>2, <1>3

LEMMA PromiseInit == Init => Promise!Init
<1> SUFFICES ASSUME Init PROVE Promise!Init
  OBVIOUS
<1>1. Status = "new"
  BY LoopsInit, StatusFacts DEF Init
<1>2. sent = 0 /\ here + gone = 0 /\ applied = 0
  BY DEF Init
<1> QED BY <1>1, <1>2 DEF Promise!Init

LEMMA PromiseStep ==
    TypeOK /\ TypeOK' /\ Loops /\ Reckoning /\ Answers /\ [Next]_vars
        => [Promise!Next]_(Promise!vars)
<1> SUFFICES ASSUME TypeOK, TypeOK', Loops, Reckoning, Answers, [Next]_vars
             PROVE  [Promise!Next]_(Promise!vars)
  OBVIOUS
<1>1. CASE Start
  <2>1. pc = "idle" /\ pc' \in {"resolve", "err"}
        /\ UNCHANGED <<sent, here, gone, applied>>
    BY <1>1 DEF Start, netVars
  <2>2. Status = "new" /\ Status' \in {"running", "failed"}
    BY <2>1, StatusFacts, StatusFactsNext DEF Active
  <2> QED BY <2>1, <2>2, BeginStep
<1>2. CASE Resolve \/ Wake
  BY <1>2, InnerStep DEF Resolve, Wake, netVars, Active
<1>3. CASE ResolveFails
  <2>1. pc = "resolve" /\ pc' \in {"backoff", "err"}
        /\ UNCHANGED <<sent, here, gone, applied>>
    BY <1>3 DEF ResolveFails, AttemptFails, netVars
  <2> QED BY <2>1, InnerStep DEF Active
<1>4. CASE Bind \/ BindFails
  <2>1. pc = "bind" /\ pc' \in {"bind", "send", "backoff", "err"}
        /\ UNCHANGED <<sent, here, gone, applied>>
    BY <1>4 DEF Bind, BindFails, AttemptFails, netVars
  <2> QED BY <2>1, InnerStep DEF Active, Bound
<1>5. CASE Send
  <2>1. /\ pc = "send" /\ pc' = "recv" /\ sent' = sent + 1
        /\ here' = here + 1 /\ UNCHANGED <<gone, applied>>
    BY <1>5 DEF Send
  <2>2. /\ pc \in Active /\ pc' \in Active
        /\ tries < UdpAttempts
        /\ sent + OfAttempts(Attempts - attempt) + OfAddresses(left)
               + (UdpAttempts - tries) <= SendLimit
    BY <2>1 DEF Loops, Reckoning, Active, Bound
  <2>3. OfAddresses(left) \in Nat
    BY <2>2, LoopNumbers
  <2>4. sent \in Nat /\ sent < SendLimit
    BY <2>2, <2>3, LoopNumbers
  <2>5. here' + gone' = here + gone + 1
    BY <2>1 DEF TypeOK
  <2>6. Status = "running" /\ Status' = Status
    BY <2>2, StatusFacts, StatusFactsNext
  <2> QED BY <2>1, <2>4, <2>5, <2>6, SendStep
<1>6. CASE SendFails \/ ReceiveTimesOut \/ ReceiveFails
  BY <1>6, TryStep
  DEF SendFails, ReceiveTimesOut, ReceiveFails, netVars, Bound
<1>7. CASE ReceiveAnswer
  <2>1. /\ pc = "recv" /\ pc' = "ok" /\ UNCHANGED <<sent, applied>>
        /\ gone' = gone + here /\ here' = 0 /\ applied > 0
    BY <1>7, MatchIsAnswer DEF ReceiveAnswer, CloseSocket, netVars
  <2>2. Status = "running" /\ Status' = "ok"
    BY <2>1, StatusFacts, StatusFactsNext DEF Active, Bound
  <2>3. here' + gone' = here + gone
    BY <2>1 DEF TypeOK
  <2> QED BY <2>1, <2>2, <2>3, SucceedStep
<1>8. CASE ReceiveOther
  BY <1>8, InnerStep DEF ReceiveOther, netVars, Active, Bound
<1>9. CASE Cancel
  <2>1. /\ pc \in Active /\ pc' = "cancelled" /\ UNCHANGED <<sent, applied>>
        /\ gone' = gone + here /\ here' = 0
    BY <1>9 DEF Cancel, CloseSocket, netVars
  <2>2. here' + gone' = here + gone
    BY <2>1 DEF TypeOK
  <2> QED BY <2>1, <2>2, InnerStep
<1>10. CASE Execute \/ ExecuteLate
  <2>1. /\ pc' = pc /\ sent' = sent /\ applied' = applied + 1
        /\ here \in Nat /\ gone \in Nat
        /\ \/ here > 0 /\ here' = here - 1 /\ gone' = gone
           \/ gone > 0 /\ gone' = gone - 1 /\ here' = here
    BY <1>10 DEF Execute, ExecuteLate, TypeOK
  <2>3. here + gone \in Nat \ {0} /\ here' + gone' = (here + gone) - 1
    BY <2>1
  <2>2. Status' = Status
    BY <2>1 DEF Status, Active, Bound
  <2> QED BY <2>1, <2>2, <2>3, EffectStep
<1>11. CASE Lose
  <2>1. /\ pc' = pc /\ sent' = sent /\ applied' = applied
        /\ here \in Nat /\ gone \in Nat
        /\ \/ here > 0 /\ here' = here - 1 /\ gone' = gone
           \/ gone > 0 /\ gone' = gone - 1 /\ here' = here
    BY <1>11 DEF Lose, TypeOK, netVars
  <2>3. here + gone \in Nat \ {0} /\ here' + gone' = (here + gone) - 1
    BY <2>1
  <2>2. Status' = Status
    BY <2>1 DEF Status, Active, Bound
  <2> QED BY <2>1, <2>2, <2>3, LoseStep
<1>12. CASE Duplicate \/ Stray \/ UNCHANGED vars
  <2>1. UNCHANGED <<pc, sent, here, gone, applied>>
    BY <1>12 DEF Duplicate, Stray, vars
  <2>2. Status' = Status
    BY <2>1 DEF Status, Active, Bound
  <2> QED BY <2>1, <2>2, SameStep
<1> QED
  BY <1>1, <1>2, <1>3, <1>4, <1>5, <1>6, <1>7, <1>8, <1>9, <1>10, <1>11,
     <1>12
  DEF Next, Proceed, Environment, Finished

(***************************************************************************)
(* The theorems.                                                           *)
(***************************************************************************)
LEMMA LoopsInv == Spec => [](TypeOK /\ Loops /\ Reckoning)
<1>1. Init => Reckoning
  BY DEF Init, Reckoning
<1> QED BY <1>1, LoopsInit, LoopsNext, ReckoningNext, PTL DEF Spec

LEMMA AnswersInv == StraysDiffer => (Spec => []Answers)
<1> SUFFICES ASSUME StraysDiffer PROVE Spec => []Answers
  OBVIOUS
<1>1. TypeOK /\ Answers /\ [Next]_vars => Answers'
  BY AnswersNext
<1> QED BY <1>1, AnswersInit, LoopsInv, PTL DEF Spec

\* Each variable keeps its type, for any numbers of attempts and addresses.
THEOREM TypeCorrect == Spec => []TypeOK
BY LoopsInv, PTL

\* The three nested loops never send more often than the turns that are over
\* allow, whichever of the steps fail.
THEOREM SendBudgetCorrect == Spec => []SendBudget
<1>1. TypeOK /\ Loops /\ Reckoning => SendBudget
  BY ReckoningIsBudget
<1> QED BY <1>1, LoopsInv, PTL

\* A call returns Ok only with a datagram of its own serial, and only if the PLC
\* has carried its request out, as long as nobody else uses that serial.
THEOREM OwnAnswerCorrect == StraysDiffer => (Spec => []OwnAnswer)
<1> SUFFICES ASSUME StraysDiffer PROVE Spec => []OwnAnswer
  OBVIOUS
<1>1. Answers => OwnAnswer
  BY DEF Answers
<1> QED BY <1>1, AnswersInv, PTL

\* The UDP transport implements an at-least-once service, also with lost,
\* duplicated and late datagrams.
THEOREM KeepsPromiseCorrect == StraysDiffer => (Spec => KeepsPromise)
<1> SUFFICES ASSUME StraysDiffer PROVE Spec => KeepsPromise
  OBVIOUS
<1>1. Spec => []Answers
  BY AnswersInv
<1> QED
  BY <1>1, LoopsInv, PromiseInit, PromiseStep, PTL
  DEF Spec, KeepsPromise, Promise!Spec
====
