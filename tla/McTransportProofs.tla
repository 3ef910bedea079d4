------------------------- MODULE McTransportProofs -------------------------
(***************************************************************************)
(* Proofs about McTransport for every set of calls, targets and            *)
(* connections and every value of the other constants.                     *)
(***************************************************************************)
EXTENDS McTransport, SequenceTheorems, FiniteSetTheorems, TLAPS

----------------------------------------------------------------------------
\* What a read leaves in transit is a sequence again, and nothing is left of
\* one frame.
LEMMA UnreadType ==
    ASSUME NEW S, NEW q \in Seq(S), NEW k \in 1..Len(q)
    PROVE  /\ Unread(q, k) \in Seq(S)
           /\ Len(q) = 1 => Unread(q, k) = <<>>
<1>1. \A i \in (k + 1)..Len(q) : q[i] \in S
  OBVIOUS
<1>2. Unread(q, k) \in Seq(S)
  BY <1>1, SubSeqProperties DEF Unread
<1>3. Len(q) = 1 => Unread(q, k) = <<>>
  BY SubSeqEmpty DEF Unread
<1> QED
  BY <1>2, <1>3

\* A cancelled waiter leaves a sequence of waiters behind.
LEMMA RemoveAtType ==
    ASSUME NEW S, NEW q \in Seq(S), NEW k \in 1..Len(q)
    PROVE  RemoveAt(q, k) \in Seq(S)
<1>1. \A i \in 1..(k - 1) : q[i] \in S
  OBVIOUS
<1>2. \A i \in (k + 1)..Len(q) : q[i] \in S
  OBVIOUS
<1>3. /\ SubSeq(q, 1, k - 1) \in Seq(S)
      /\ SubSeq(q, k + 1, Len(q)) \in Seq(S)
  BY <1>1, <1>2, SubSeqProperties
<1> QED
  BY <1>3, ConcatProperties DEF RemoveAt

\* A failed attempt backs off or gives up, whatever made it fail.
LEMMA AttemptFailsType ==
    ASSUME NEW c \in Calls, AttemptFails(c),
           pc \in [Calls -> Places], attempt \in [Calls -> Nat]
    PROVE  /\ attempt' \in [Calls -> Nat]
           /\ pc' \in [Calls -> Places]
           /\ \/ pc' = [pc EXCEPT ![c] = "backoff"]
              \/ pc' = [pc EXCEPT ![c] = "err"]
<1>1. attempt[c] + 1 \in Nat
  OBVIOUS
<1>2. "backoff" \in Places /\ "err" \in Places
  BY DEF Places, Active, Returned
<1> QED
  BY <1>1, <1>2 DEF AttemptFails

----------------------------------------------------------------------------
\* Every variable keeps its type: in particular the serial counter stays in
\* 1..SerialMax although it wraps, and a call that connects has an address.
TypeInv == TypeOK /\ CallShape

LEMMA PlacesFacts ==
    \A p \in {"idle", "resolve", "lock", "backoff", "connect", "write", "read",
              "ok", "err", "cancelled"} : p \in Places
BY DEF Places, Active, Holding, Returned

\* Counting one more at a place leaves a table of numbers one.
LEMMA CountedUp ==
    ASSUME NEW S, NEW f \in [S -> Nat], NEW x
    PROVE  [f EXCEPT ![x] = @ + 1] \in [S -> Nat]
<1>1. ASSUME NEW y \in S PROVE [f EXCEPT ![x] = @ + 1][y] \in Nat
  <2>1. CASE y = x
    <3>1. [f EXCEPT ![x] = @ + 1][y] = f[y] + 1 /\ f[y] \in Nat
      BY <2>1
    <3> QED BY <3>1
  <2>2. CASE y # x
    <3>1. [f EXCEPT ![x] = @ + 1][y] = f[y] /\ f[y] \in Nat
      BY <2>2
    <3> QED BY <3>1
  <2> QED BY <2>1, <2>2
<1> QED BY <1>1

LEMMA TypeInit == Init => TypeInv
BY TransportAssumption, PlacesFacts DEF Init, TypeInv, TypeOK, CallShape

LEMMA TypeNext == TypeInv /\ [Next]_vars => TypeInv'
<1> SUFFICES ASSUME TypeOK, CallShape, [Next]_vars PROVE TypeOK' /\ CallShape'
  BY DEF TypeInv
<1> USE TransportAssumption, PlacesFacts
<1>1. ASSUME NEW c \in Calls, Start(c)
      PROVE  TypeOK' /\ CallShape'
  <2>1. NextSerial(serialCounter) \in 1..SerialMax
    BY DEF NextSerial, TypeOK
  <2>2. TypeOK'
    BY SMTT(20), <1>1, <2>1
    DEF Start, plcVars, poolVars, TypeOK
  <2>3. CallShape'
    BY <1>1, <2>1
    DEF Start, TypeOK, CallShape
  <2> QED
    BY <2>2, <2>3
<1>2. ASSUME NEW c \in Calls, Resolve(c)
      PROVE  TypeOK' /\ CallShape'
  <2>1. TypeOK'
    BY SMTT(20), <1>2
    DEF Resolve, plcVars, TypeOK
  <2>2. CallShape'
    BY <1>2
    DEF Resolve, TypeOK, CallShape
  <2> QED
    BY <2>1, <2>2
<1>3. ASSUME NEW c \in Calls, ResolveFails(c)
      PROVE  TypeOK' /\ CallShape'
  <2>1. /\ attempt' \in [Calls -> Nat]
        /\ pc' \in [Calls -> Places]
        /\ \/ pc' = [pc EXCEPT ![c] = "backoff"]
           \/ pc' = [pc EXCEPT ![c] = "err"]
    BY <1>3, AttemptFailsType DEF ResolveFails, TypeOK
  <2>2. TypeOK'
    BY <1>3, <2>1
    DEF ResolveFails, plcVars, poolVars, TypeOK
  <2>3. CallShape'
    BY ZenonT(50), <1>3, <2>1
    DEF ResolveFails, TypeOK, CallShape
  <2> QED
    BY <2>2, <2>3
<1>4. ASSUME NEW c \in Calls, AcquireCached(c)
      PROVE  TypeOK' /\ CallShape'
  <2>1. queue' \in [Targets -> Seq(Calls)]
    BY <1>4 DEF AcquireCached, Granted, TypeOK
  <2>2. stream' \in [Calls -> Streams \cup {None}]
    BY <1>4 DEF AcquireCached, TypeOK
  <2>3. TypeOK'
    BY <1>4, <2>1, <2>2
    DEF AcquireCached, Granted, plcVars, TypeOK
  <2>4. CallShape'
    BY <1>4, <2>1, <2>2
    DEF AcquireCached, Granted, TypeOK, CallShape
  <2> QED
    BY <2>3, <2>4
<1>5. ASSUME NEW c \in Calls, AcquireFresh(c)
      PROVE  TypeOK' /\ CallShape'
  <2>1. queue' \in [Targets -> Seq(Calls)]
    BY <1>5 DEF AcquireFresh, Granted, TypeOK
  <2>2. /\ fromPlc' \in [Streams -> Seq(Calls)]
       /\ closed' \subseteq Streams
    <3>1. CASE cached[target[c]] = None
      BY <1>5, <3>1 DEF AcquireFresh, TypeOK
    <3>2. CASE cached[target[c]] # None
      <4>1. /\ fromPlc' = [fromPlc EXCEPT ![cached[target[c]]] = <<>>]
            /\ closed' = closed \ {cached[target[c]]}
        BY <1>5, <3>2 DEF AcquireFresh
      <4>2. cached[target[c]] \in Streams
        BY <3>2 DEF TypeOK
      <4> QED
        BY <4>1, <4>2 DEF TypeOK
    <3> QED
      BY <3>1, <3>2
  <2>3. TypeOK'
    BY <1>5, <2>1, <2>2
    DEF AcquireFresh, Granted, plcVars, TypeOK
  <2>4. CallShape'
    BY <1>5, <2>1, <2>2
    DEF AcquireFresh, Granted, TypeOK, CallShape
  <2> QED
    BY <2>3, <2>4
<1>6. ASSUME NEW c \in Calls, Connect(c)
      PROVE  TypeOK' /\ CallShape'
  <2>1. left[c] - 1 \in 0..MaxRemotes
    BY <1>6 DEF Connect, TypeOK, CallShape
  <2>2. stream' \in [Calls -> Streams \cup {None}]
    BY <1>6 DEF Connect, TypeOK
  <2>3. TypeOK'
    BY <1>6, <2>1, <2>2
    DEF Connect, plcVars, poolVars, TypeOK
  <2>4. CallShape'
    BY <1>6, <2>1, <2>2
    DEF Connect, TypeOK, CallShape
  <2> QED
    BY <2>3, <2>4
<1>7. ASSUME NEW c \in Calls, ConnectFails(c)
      PROVE  TypeOK' /\ CallShape'
  <2>1. /\ attempt' \in [Calls -> Nat]
        /\ pc' \in [Calls -> Places]
        /\ \/ pc' = [pc EXCEPT ![c] = "backoff"]
           \/ pc' = [pc EXCEPT ![c] = "err"]
    BY <1>7, AttemptFailsType DEF ConnectFails, TypeOK
  <2>2. TypeOK'
    BY <1>7, <2>1
    DEF ConnectFails, Unlock, plcVars, TypeOK
  <2>3. CallShape'
    BY ZenonT(50), <1>7, <2>1
    DEF ConnectFails, TypeOK, CallShape
  <2> QED
    BY <2>2, <2>3
<1>8. ASSUME NEW c \in Calls, Write(c)
      PROVE  TypeOK' /\ CallShape'
  <2>1. stream[c] \in Streams
    BY <1>8 DEF Write, TypeOK, CallShape
  <2>2. toPlc' \in [Streams -> Seq(Calls)]
    BY <1>8, <2>1 DEF Write, TypeOK
  <2>3. sent' \in [Calls -> Nat]
    BY <1>8 DEF Write, TypeOK
  <2>4. TypeOK'
    BY <1>8, <2>1, <2>2, <2>3
    DEF Write, callVars, poolVars, TypeOK
  <2>5. CallShape'
    BY <1>8, <2>1, <2>2, <2>3
    DEF Write, callVars, TypeOK, CallShape
  <2> QED
    BY <2>4, <2>5
<1>9. ASSUME NEW c \in Calls, pc[c] \in {"write", "read"}, ExchangeFails(c)
      PROVE  TypeOK' /\ CallShape'
  <2>1. stream[c] \in Streams
    BY <1>9 DEF TypeOK, CallShape
  <2>2. /\ attempt' \in [Calls -> Nat]
       /\ holder' \in [Targets -> Calls \cup {None}]
       /\ pc' \in [Calls -> Places]
       /\ \/ pc' = [pc EXCEPT ![c] = "backoff"]
          \/ pc' = [pc EXCEPT ![c] = "err"]
          \/ pc' = [pc EXCEPT ![c] = "connect"] /\ left[c] > 0
    <3>1. CASE left[c] > 0
      <4>1. /\ pc' = [pc EXCEPT ![c] = "connect"]
            /\ UNCHANGED <<attempt, holder>>
        BY <1>9, <3>1 DEF ExchangeFails
      <4> QED
        BY <3>1, <4>1 DEF TypeOK
    <3>2. CASE ~(left[c] > 0)
      <4>1. AttemptFails(c) /\ Unlock(c)
        BY <1>9, <3>2 DEF ExchangeFails
      <4> QED
        BY <4>1, AttemptFailsType DEF Unlock, TypeOK
    <3> QED
      BY <3>1, <3>2
  <2>3. /\ stream' = [stream EXCEPT ![c] = None]
       /\ fromPlc' \in [Streams -> Seq(Calls)]
       /\ closed' \subseteq Streams
    BY <1>9, <2>1 DEF ExchangeFails, DropStream, TypeOK
  <2>4. TypeOK'
    BY <1>9, <2>1, <2>2, <2>3
    DEF ExchangeFails, plcVars, TypeOK
  <2>5. CallShape'
    <3>1. left' = left
      BY <1>9 DEF ExchangeFails
    <3>2. CASE pc' = [pc EXCEPT ![c] = "connect"] /\ left[c] > 0
      BY <2>3, <3>1, <3>2 DEF TypeOK, CallShape
    <3>3. CASE \/ pc' = [pc EXCEPT ![c] = "backoff"]
               \/ pc' = [pc EXCEPT ![c] = "err"]
      BY SMTT(20), <2>3, <3>1, <3>3 DEF TypeOK, CallShape
    <3> QED
      BY <2>2, <3>2, <3>3
  <2> QED
    BY <2>4, <2>5
<1>10. ASSUME NEW c \in Calls, ReadAnswer(c)
      PROVE  TypeOK' /\ CallShape'
  <2>1. stream[c] \in Streams
    BY <1>10 DEF ReadAnswer, TypeOK, CallShape
  <2>2. PICK k \in 1..Len(fromPlc[stream[c]]) : \E i \in 1..k :
       /\ reply' = [reply EXCEPT ![c] = fromPlc[stream[c]][i]]
       /\ fromPlc' = [fromPlc EXCEPT ![stream[c]] = Unread(@, k)]
    BY <1>10 DEF ReadAnswer
  <2>3. fromPlc[stream[c]] \in Seq(Calls)
    BY <2>1 DEF TypeOK
  <2>4. \A i \in 1..k : fromPlc[stream[c]][i] \in Calls
    BY <2>3
  <2>5. Unread(fromPlc[stream[c]], k) \in Seq(Calls)
    BY <2>3, UnreadType
  <2>6. reply' \in [Calls -> Calls \cup {None}]
    BY <2>2, <2>4 DEF TypeOK
  <2>7. fromPlc' \in [Streams -> Seq(Calls)]
    BY <2>2, <2>5 DEF TypeOK
  <2>8. TypeOK'
    BY <1>10, <2>1, <2>2, <2>3, <2>4, <2>5, <2>6, <2>7
    DEF ReadAnswer, Unlock, plcVars, TypeOK
  <2>9. CallShape'
    BY <1>10, <2>1, <2>2, <2>3, <2>4, <2>5, <2>6, <2>7
    DEF ReadAnswer, TypeOK, CallShape
  <2> QED
    BY <2>8, <2>9
<1>11. ASSUME NEW c \in Calls, ReadOther(c)
      PROVE  TypeOK' /\ CallShape'
  <2>1. stream[c] \in Streams
    BY <1>11 DEF ReadOther, TypeOK, CallShape
  <2>2. PICK k \in 1..Len(fromPlc[stream[c]]) :
       fromPlc' = [fromPlc EXCEPT ![stream[c]] = Unread(@, k)]
    BY <1>11 DEF ReadOther
  <2>3. Unread(fromPlc[stream[c]], k) \in Seq(Calls)
    BY <2>1, UnreadType DEF TypeOK
  <2>4. fromPlc' \in [Streams -> Seq(Calls)]
    BY <2>2, <2>3 DEF TypeOK
  <2>5. TypeOK'
    BY <1>11, <2>1, <2>2, <2>3, <2>4
    DEF ReadOther, callVars, poolVars, plcVars, TypeOK
  <2>6. CallShape'
    BY <1>11, <2>1, <2>2, <2>3, <2>4
    DEF ReadOther, callVars, TypeOK, CallShape
  <2> QED
    BY <2>5, <2>6
<1>12. ASSUME NEW c \in Calls, Wake(c)
      PROVE  TypeOK' /\ CallShape'
  <2>1. TypeOK'
    BY <1>12
    DEF Wake, callVars, poolVars, plcVars, TypeOK
  <2>2. CallShape'
    BY <1>12
    DEF Wake, callVars, TypeOK, CallShape
  <2> QED
    BY <2>1, <2>2
<1>13. ASSUME NEW c \in Calls, Cancel(c)
      PROVE  TypeOK' /\ CallShape'
  <2>1. queue' \in [Targets -> Seq(Calls)]
    <3>1. CASE pc[c] = "lock"
      <4>1. PICK k \in 1..Len(queue[target[c]]) :
              queue' = [queue EXCEPT ![target[c]] = RemoveAt(@, k)]
        BY <1>13, <3>1 DEF Cancel
      <4>2. RemoveAt(queue[target[c]], k) \in Seq(Calls)
        BY RemoveAtType DEF TypeOK
      <4> QED
        BY <4>1, <4>2 DEF TypeOK
    <3>2. CASE pc[c] # "lock"
      BY <1>13, <3>2 DEF Cancel, TypeOK
    <3> QED
      BY <3>1, <3>2
  <2>2. holder' \in [Targets -> Calls \cup {None}]
    BY <1>13 DEF Cancel, Unlock, TypeOK
  <2>3. /\ stream' = [stream EXCEPT ![c] = None]
       /\ fromPlc' \in [Streams -> Seq(Calls)]
       /\ closed' \subseteq Streams
    <3>1. CASE stream[c] = None
      BY <1>13, <3>1 DEF Cancel, TypeOK
    <3>2. CASE stream[c] # None
      <4>1. DropStream(c)
        BY <1>13, <3>2 DEF Cancel
      <4>2. stream[c] \in Streams
        BY <3>2 DEF TypeOK
      <4> QED
        BY <4>1, <4>2 DEF DropStream, TypeOK
    <3> QED
      BY <3>1, <3>2
  <2>4. TypeOK'
    BY <1>13, <2>1, <2>2, <2>3
    DEF Cancel, plcVars, TypeOK
  <2>5. CallShape'
    BY <1>13, <2>1, <2>2, <2>3
    DEF Cancel, TypeOK, CallShape
  <2> QED
    BY <2>4, <2>5
<1>14. ASSUME NEW s \in Streams, Execute(s)
      PROVE  TypeOK' /\ CallShape'
  <2>1. Head(toPlc[s]) \in Calls /\ Tail(toPlc[s]) \in Seq(Calls)
    BY <1>14, HeadTailProperties DEF Execute, TypeOK
  <2>2. /\ applied' \in [Calls -> Nat]
       /\ last' \in [Targets -> Calls \cup {None}]
       /\ toPlc' \in [Streams -> Seq(Calls)]
    <3>0. /\ applied \in [Calls -> Nat]
          /\ last \in [Targets -> Calls \cup {None}]
          /\ toPlc \in [Streams -> Seq(Calls)]
      BY DEF TypeOK
    <3>1. applied' = [applied EXCEPT ![Head(toPlc[s])] = @ + 1]
      BY <1>14 DEF Execute
    <3>2. last' = [last EXCEPT ![target[Head(toPlc[s])]] = Head(toPlc[s])]
      BY <1>14 DEF Execute
    <3>3. toPlc' = [toPlc EXCEPT ![s] = Tail(@)]
      BY <1>14 DEF Execute
    <3>4. applied' \in [Calls -> Nat]
      BY <3>0, <3>1, CountedUp
    <3>5. last' \in [Targets -> Calls \cup {None}]
      BY <2>1, <3>0, <3>2
    <3>6. toPlc' \in [Streams -> Seq(Calls)]
      BY <2>1, <3>0, <3>3
    <3> QED
      BY <3>4, <3>5, <3>6
  <2>3. fromPlc' \in [Streams -> Seq(Calls)]
    BY SMTT(20), <1>14, <2>1 DEF Execute, TypeOK
  <2>4. TypeOK'
    BY <1>14, <2>1, <2>2, <2>3
    DEF Execute, callVars, poolVars, TypeOK
  <2>5. CallShape'
    BY <1>14, <2>1, <2>2, <2>3
    DEF Execute, callVars, TypeOK, CallShape
  <2> QED
    BY <2>4, <2>5
<1>15. ASSUME NEW s \in Streams, PeerClose(s)
      PROVE  TypeOK' /\ CallShape'
  <2>1. /\ closed' \subseteq Streams
        /\ toPlc' \in [Streams -> Seq(Calls)]
        /\ fromPlc' \in [Streams -> Seq(Calls)]
    <3>1. closed' \subseteq Streams
      BY <1>15 DEF PeerClose, TypeOK
    <3>2. toPlc' = [toPlc EXCEPT ![s] = <<>>]
      BY <1>15 DEF PeerClose
    <3>3. \/ fromPlc' = [fromPlc EXCEPT ![s] = <<>>]
          \/ fromPlc' = fromPlc
      BY <1>15 DEF PeerClose
    <3>4. <<>> \in Seq(Calls)
      OBVIOUS
    <3>5. toPlc' \in [Streams -> Seq(Calls)]
      BY <3>2, <3>4 DEF TypeOK
    <3>6. fromPlc' \in [Streams -> Seq(Calls)]
      BY <3>3, <3>4 DEF TypeOK
    <3> QED
      BY <3>1, <3>5, <3>6
  <2>2. TypeOK'
    BY <1>15, <2>1
    DEF PeerClose, callVars, poolVars, plcVars, TypeOK
  <2>3. CallShape'
    BY <1>15, <2>1
    DEF PeerClose, callVars, TypeOK, CallShape
  <2> QED
    BY <2>2, <2>3
<1>16. ASSUME NEW s \in Streams, AnswerTwice(s)
      PROVE  TypeOK' /\ CallShape'
  <2>1. Head(fromPlc[s]) \in Calls
    BY <1>16, HeadTailProperties DEF AnswerTwice, TypeOK
  <2>2. /\ fromPlc' \in [Streams -> Seq(Calls)]
        /\ dups' \in 0..MaxDup
    BY <1>16, <2>1 DEF AnswerTwice, TypeOK
  <2>3. TypeOK'
    BY <1>16, <2>1, <2>2
    DEF AnswerTwice, callVars, poolVars, TypeOK
  <2>4. CallShape'
    BY <1>16, <2>1, <2>2
    DEF AnswerTwice, callVars, TypeOK, CallShape
  <2> QED
    BY <2>3, <2>4
<1>17. CASE UNCHANGED vars
  BY <1>17 DEF vars, TypeOK, CallShape
<1> QED
  BY <1>1, <1>2, <1>3, <1>4, <1>5, <1>6, <1>7, <1>8, <1>9, <1>10, <1>11,
     <1>12, <1>13, <1>14, <1>15, <1>16, <1>17
  DEF Next, Proceed, Environment, Finished, WriteFails, ReadFails

\* The variables of the transport keep their types.
THEOREM TypeCorrect == Spec => []TypeOK
<1>1. Spec => []TypeInv
  BY TypeInit, TypeNext, PTL DEF Spec
<1>2. TypeInv => TypeOK
  BY DEF TypeInv
<1> QED
  BY <1>1, <1>2, PTL

----------------------------------------------------------------------------
\* The mutex of a target is held by the one call that is in an attempt on it,
\* and its slot is empty meanwhile.
LEMMA MutexNext == TypeInv /\ MutexShape /\ [Next]_vars => MutexShape'
<1> SUFFICES ASSUME TypeOK, CallShape, MutexShape, [Next]_vars
             PROVE  MutexShape'
  BY DEF TypeInv
<1> USE TransportAssumption
\* A step of a call outside an attempt.
<1>1. ASSUME NEW c \in Calls, NEW p \in Places \ Holding, pc[c] \notin Holding,
             pc' = [pc EXCEPT ![c] = p], UNCHANGED <<target, holder, cached>>
      PROVE  MutexShape'
  BY SMTT(20), <1>1 DEF MutexShape, TypeOK
\* A step inside an attempt.
<1>2. ASSUME NEW c \in Calls, NEW p \in Holding, pc[c] \in Holding,
             pc' = [pc EXCEPT ![c] = p], UNCHANGED <<target, holder, cached>>
      PROVE  MutexShape'
  BY <1>2 DEF MutexShape, TypeOK
\* The attempt begins.
<1>3. ASSUME NEW c \in Calls, NEW p \in Holding, pc[c] = "lock", Granted(c),
             pc' = [pc EXCEPT ![c] = p]
      PROVE  MutexShape'
  <2>1. /\ holder[target[c]] = None
        /\ holder' = [holder EXCEPT ![target[c]] = c]
        /\ cached' = [cached EXCEPT ![target[c]] = None]
        /\ target' = target
        /\ target[c] \in Targets
    BY <1>3 DEF Granted, TypeOK
  <2>2. \A d \in Calls : pc'[d] \in Holding => holder'[target'[d]] = d
    BY <1>3, <2>1 DEF MutexShape, TypeOK
  <2>3. ASSUME NEW t \in Targets, holder'[t] # None
        PROVE  /\ pc'[holder'[t]] \in Holding
               /\ target'[holder'[t]] = t
               /\ cached'[t] = None
    BY SMTT(20), <1>3, <2>1, <2>3 DEF MutexShape, TypeOK
  <2> QED
    BY <2>2, <2>3 DEF MutexShape
\* The attempt ends.
<1>4. ASSUME NEW c \in Calls, NEW p \in Places \ Holding, pc[c] \in Holding,
             pc' = [pc EXCEPT ![c] = p], Unlock(c), target' = target,
             \A t \in Targets \ {target[c]} : cached'[t] = cached[t]
      PROVE  MutexShape'
  <2>1. /\ holder[target[c]] = c
        /\ holder' = [holder EXCEPT ![target[c]] = None]
        /\ target[c] \in Targets
    BY <1>4 DEF MutexShape, Unlock, TypeOK
  <2>2. \A d \in Calls : pc'[d] \in Holding => holder'[target'[d]] = d
    BY <1>4, <2>1 DEF MutexShape, TypeOK
  <2>3. ASSUME NEW t \in Targets, holder'[t] # None
        PROVE  /\ pc'[holder'[t]] \in Holding
               /\ target'[holder'[t]] = t
               /\ cached'[t] = None
    <3>1. t # target[c] /\ holder'[t] = holder[t]
      BY <2>1, <2>3 DEF TypeOK
    <3> QED
      BY <1>4, <2>1, <2>3, <3>1 DEF MutexShape, TypeOK
  <2> QED
    BY <2>2, <2>3 DEF MutexShape
<1>5. "write" \in Holding /\ "read" \in Holding /\ "connect" \in Holding
  BY DEF Holding
<1>6. \A p \in {"idle", "resolve", "lock", "backoff", "ok", "err", "cancelled"} :
        p \in Places \ Holding
  BY PlacesFacts DEF Holding
<1>7. ASSUME NEW c \in Calls,
             Start(c) \/ Resolve(c) \/ ResolveFails(c) \/ Wake(c)
      PROVE  MutexShape'
  <2>1. /\ pc[c] \in {"idle", "resolve", "backoff"}
        /\ UNCHANGED <<target, holder, cached>>
        /\ \E p \in {"resolve", "lock", "backoff", "err"} :
              pc' = [pc EXCEPT ![c] = p]
    BY <1>7 DEF Start, Resolve, ResolveFails, Wake, AttemptFails, callVars,
                poolVars
  <2> QED
    BY <1>1, <1>6, <2>1
<1>8. ASSUME NEW c \in Calls, Connect(c) \/ Write(c) PROVE MutexShape'
  <2>1. /\ pc[c] \in {"connect", "write"}
        /\ UNCHANGED <<target, holder, cached>>
        /\ \E p \in {"write", "read"} : pc' = [pc EXCEPT ![c] = p]
    BY <1>8 DEF Connect, Write, callVars, poolVars
  <2> QED
    BY <1>2, <1>5, <2>1
<1>9. ASSUME NEW c \in Calls, AcquireCached(c) \/ AcquireFresh(c)
      PROVE  MutexShape'
  <2>1. /\ pc[c] = "lock" /\ Granted(c)
        /\ \E p \in {"write", "connect"} : pc' = [pc EXCEPT ![c] = p]
    BY <1>9 DEF AcquireCached, AcquireFresh, Granted
  <2> QED
    BY <1>3, <1>5, <2>1
<1>10. ASSUME NEW c \in Calls, pc[c] \in Holding,
              \/ ConnectFails(c) \/ ReadAnswer(c) \/ Cancel(c)
       PROVE  MutexShape'
  <2>1. /\ Unlock(c) /\ target' = target
        /\ \E p \in {"backoff", "err", "ok", "cancelled"} :
              pc' = [pc EXCEPT ![c] = p]
    BY <1>10 DEF ConnectFails, ReadAnswer, Cancel, AttemptFails
  <2>2. \A t \in Targets \ {target[c]} : cached'[t] = cached[t]
    BY <1>10 DEF ConnectFails, ReadAnswer, Cancel, TypeOK
  <2> QED
    BY <1>4, <1>6, <1>10, <2>1, <2>2
<1>11. ASSUME NEW c \in Calls, pc[c] \notin Holding, Cancel(c)
       PROVE  MutexShape'
  <2>1. /\ UNCHANGED <<target, holder, cached>>
        /\ pc' = [pc EXCEPT ![c] = "cancelled"]
    BY <1>11 DEF Cancel
  <2> QED
    BY <1>1, <1>6, <1>11, <2>1
<1>12. ASSUME NEW c \in Calls, pc[c] \in {"write", "read"}, ExchangeFails(c)
       PROVE  MutexShape'
  <2>1. target' = target /\ cached' = cached /\ pc[c] \in Holding
    BY <1>12 DEF ExchangeFails, Holding
  <2>2. CASE left[c] > 0
    <3>1. holder' = holder /\ pc' = [pc EXCEPT ![c] = "connect"]
      BY <1>12, <2>2 DEF ExchangeFails
    <3> QED
      BY <1>2, <1>5, <2>1, <3>1
  <2>3. CASE ~(left[c] > 0)
    <3>1. /\ Unlock(c)
          /\ \E p \in {"backoff", "err"} : pc' = [pc EXCEPT ![c] = p]
      BY <1>12, <2>3 DEF ExchangeFails, AttemptFails
    <3> QED
      BY <1>4, <1>6, <2>1, <3>1
  <2> QED
    BY <2>2, <2>3
<1>13. CASE UNCHANGED <<pc, target, holder, cached>>
  BY <1>13 DEF MutexShape
<1>14. ASSUME NEW c \in Calls, ReadOther(c) PROVE MutexShape'
  BY <1>13, <1>14 DEF ReadOther, callVars, poolVars
<1>15. ASSUME NEW s \in Streams, Environment(s) PROVE MutexShape'
  BY <1>13, <1>15
  DEF Environment, Execute, PeerClose, AnswerTwice, callVars, poolVars
<1>16. CASE UNCHANGED vars
  BY <1>13, <1>16 DEF vars
<1>17. ASSUME NEW c \in Calls, ConnectFails(c) \/ ReadAnswer(c)
       PROVE  pc[c] \in Holding
  BY <1>17, <1>5 DEF ConnectFails, ReadAnswer
<1>18. ASSUME NEW c \in Calls, Proceed(c) PROVE MutexShape'
  BY <1>7, <1>8, <1>9, <1>10, <1>12, <1>14, <1>17, <1>18
  DEF Proceed, WriteFails, ReadFails
<1> QED
  BY <1>7, <1>10, <1>11, <1>15, <1>16, <1>18 DEF Next, Finished

\* Traffic to one target is serialized, whatever fails or is cancelled.
THEOREM SerializedCorrect == Spec => []SerializedTraffic
<1>1. Init => MutexShape
  BY DEF Init, MutexShape, Holding
<1>2. Spec => [](TypeInv /\ MutexShape)
  BY <1>1, TypeInit, TypeNext, MutexNext, PTL DEF Spec
<1>3. MutexShape => SerializedTraffic
  BY DEF MutexShape, SerializedTraffic
<1> QED
  BY <1>2, <1>3, PTL

----------------------------------------------------------------------------
\* A step moves at most one stream between a call, the pool and the outside.
LEMMA OwnershipNext ==
    TypeInv /\ StreamOwnership /\ [Next]_vars => StreamOwnership'
<1> SUFFICES ASSUME TypeOK, CallShape, StreamOwnership, [Next]_vars
             PROVE  StreamOwnership'
  BY DEF TypeInv
<1> USE TransportAssumption
<1>1. CASE UNCHANGED <<stream, cached>>
  BY <1>1 DEF StreamOwnership
<1>2. ASSUME NEW c \in Calls, stream' = [stream EXCEPT ![c] = None],
             UNCHANGED cached
      PROVE  StreamOwnership'
  BY <1>2 DEF StreamOwnership, TypeOK
<1>3. ASSUME NEW c \in Calls, ExchangeFails(c) PROVE StreamOwnership'
  BY <1>2, <1>3 DEF ExchangeFails, DropStream
<1>4. ASSUME NEW c \in Calls, Cancel(c) PROVE StreamOwnership'
  BY <1>1, <1>2, <1>4 DEF Cancel, DropStream
<1>5. ASSUME NEW c \in Calls, AcquireCached(c) PROVE StreamOwnership'
  BY ZenonT(50), <1>5 DEF AcquireCached, Granted, StreamOwnership, TypeOK
<1>6. ASSUME NEW c \in Calls, AcquireFresh(c) PROVE StreamOwnership'
  BY <1>6 DEF AcquireFresh, Granted, StreamOwnership, TypeOK
<1>7. ASSUME NEW c \in Calls, Connect(c) PROVE StreamOwnership'
  <2>1. PICK s \in Streams :
          Unused(s) /\ stream' = [stream EXCEPT ![c] = s]
    BY <1>7 DEF Connect
  <2>2. /\ \A d \in Calls : stream[d] # s
        /\ \A t \in Targets : cached[t] # s
        /\ s # None
    BY <2>1 DEF Unused, Open
  <2>3. cached' = cached /\ stream \in [Calls -> Streams \cup {None}]
    BY <1>7 DEF Connect, poolVars, TypeOK
  <2> QED
    BY <2>1, <2>2, <2>3 DEF StreamOwnership
<1>8. ASSUME NEW c \in Calls, ReadAnswer(c) PROVE StreamOwnership'
  <2>1. /\ stream' = [stream EXCEPT ![c] = None]
        /\ cached' = [cached EXCEPT ![target[c]] = stream[c]]
    BY <1>8 DEF ReadAnswer
  <2>2. stream[c] # None
    BY <1>8 DEF ReadAnswer, CallShape
  <2>3. /\ stream \in [Calls -> Streams \cup {None}]
        /\ cached \in [Targets -> Streams \cup {None}]
        /\ target[c] \in Targets
    BY DEF TypeOK
  <2>4. \A d, e \in Calls : stream'[d] # None /\ stream'[d] = stream'[e] => d = e
    BY <2>1, <2>3 DEF StreamOwnership
  <2>5. \A t, u \in Targets : cached'[t] # None /\ cached'[t] = cached'[u] => t = u
    BY <2>1, <2>2, <2>3 DEF StreamOwnership
  <2>6. \A d \in Calls, t \in Targets : stream'[d] # None => stream'[d] # cached'[t]
    BY <2>1, <2>2, <2>3 DEF StreamOwnership
  <2> QED
    BY <2>4, <2>5, <2>6 DEF StreamOwnership
<1>9. ASSUME NEW c \in Calls,
             \/ Start(c) \/ Resolve(c) \/ ResolveFails(c) \/ ConnectFails(c)
             \/ Write(c) \/ ReadOther(c) \/ Wake(c)
      PROVE  StreamOwnership'
  BY <1>1, <1>9 DEF Start, Resolve, ResolveFails, ConnectFails, Write,
                    ReadOther, Wake, callVars, poolVars
<1>10. ASSUME NEW s \in Streams, Environment(s) PROVE StreamOwnership'
  BY <1>1, <1>10 DEF Environment, Execute, PeerClose, AnswerTwice, callVars,
                     poolVars
<1>11. CASE UNCHANGED vars
  BY <1>1, <1>11 DEF vars
<1> QED
  BY <1>3, <1>4, <1>5, <1>6, <1>7, <1>8, <1>9, <1>10, <1>11
  DEF Next, Proceed, Finished, WriteFails, ReadFails

\* For any number of calls, targets and connections, and whatever fails, is
\* cancelled or duplicated: a socket has one owner at a time.
THEOREM OwnershipCorrect == Spec => []StreamOwnership
<1>1. Init => StreamOwnership
  BY DEF Init, StreamOwnership
<1>2. Spec => [](TypeInv /\ StreamOwnership)
  BY <1>1, TypeInit, TypeNext, OwnershipNext, PTL DEF Spec
<1> QED
  BY <1>2, PTL

----------------------------------------------------------------------------
\* With a PLC that answers once, the connections carry nothing but the request
\* of the running exchange, or its answer.
Core == TypeInv /\ StreamOwnership /\ Traffic /\ OwnAnswer

LEMMA TrafficInit == Init => Traffic /\ OwnAnswer
BY DEF Init, Traffic, PoolIsSilent, NothingToRead, OneAtATime, Silent, OwnAnswer

\* A step that leaves alone a call and its connection keeps them in order.
LEMMA InOrderKept ==
    ASSUME TypeOK, OneAtATime, NEW d \in Calls, stream[d] # None,
           stream'[d] = stream[d], pc'[d] = pc[d],
           toPlc'[stream[d]] = toPlc[stream[d]],
           fromPlc'[stream[d]] = fromPlc[stream[d]],
           applied'[d] = applied[d]
    PROVE  InOrder(d)'
BY DEF OneAtATime, InOrder, Silent, Asked, Answered

\* A stream that is dropped, by a failed or a cancelled exchange, takes what
\* was in transit with it; the others are not touched.
LEMMA TrafficDrop ==
    ASSUME Core, NEW c \in Calls, stream[c] # None, DropStream(c),
           UNCHANGED <<cached, toPlc, applied, dups>>,
           \A d \in Calls \ {c} : pc'[d] = pc[d]
    PROVE  Traffic'
<1> USE TransportAssumption DEF Core, TypeInv
<1>1. /\ stream' = [stream EXCEPT ![c] = None]
      /\ fromPlc' = [fromPlc EXCEPT ![stream[c]] = <<>>]
      /\ stream[c] \in Streams
  BY DEF DropStream, TypeOK
<1>2. PoolIsSilent'
  BY <1>1 DEF PoolIsSilent, Silent, Traffic, StreamOwnership, TypeOK
<1>3. NothingToRead'
  BY <1>1 DEF NothingToRead, Open, Traffic, TypeOK
<1>4. OneAtATime'
  <2> SUFFICES ASSUME NEW d \in Calls, stream'[d] # None PROVE InOrder(d)'
    BY DEF OneAtATime
  <2>1. /\ d # c /\ stream'[d] = stream[d] /\ stream[d] # stream[c]
        /\ stream[d] \in Streams
    BY <1>1 DEF StreamOwnership, TypeOK
  <2> QED
    BY <1>1, <2>1, InOrderKept DEF Traffic, TypeOK
<1> QED
  BY <1>2, <1>3, <1>4 DEF Traffic

\* Steps that leave the connections and their owners alone.
LEMMA TrafficKept ==
    ASSUME Core, UNCHANGED <<stream, cached, toPlc, fromPlc, applied, dups>>,
           \A d \in Calls : stream[d] # None => pc'[d] = pc[d]
    PROVE  Traffic'
<1> USE DEF Core, TypeInv
<1>1. PoolIsSilent' /\ NothingToRead'
  BY DEF Traffic, PoolIsSilent, NothingToRead, Silent, Open
<1>2. OneAtATime'
  BY InOrderKept DEF Traffic, OneAtATime
<1> QED
  BY <1>1, <1>2 DEF Traffic

LEMMA TrafficExchangeFails ==
    ASSUME Core, NEW c \in Calls, pc[c] \in {"write", "read"}, ExchangeFails(c)
    PROVE  Traffic' /\ OwnAnswer'
<1>1. stream[c] # None /\ TypeOK
  BY DEF Core, TypeInv, CallShape
<1>2. /\ DropStream(c)
      /\ UNCHANGED <<cached, toPlc, reply, sent, applied, last, dups>>
  BY DEF ExchangeFails, plcVars
<1>3. \/ pc' = [pc EXCEPT ![c] = "connect"]
      \/ pc' = [pc EXCEPT ![c] = "backoff"]
      \/ pc' = [pc EXCEPT ![c] = "err"]
  BY DEF ExchangeFails, AttemptFails
<1>4. Traffic'
  BY <1>1, <1>2, <1>3, TrafficDrop DEF TypeOK
<1>5. OwnAnswer'
  BY <1>1, <1>2, <1>3 DEF Core, OwnAnswer, TypeOK
<1> QED
  BY <1>4, <1>5

LEMMA TrafficCancel ==
    ASSUME Core, NEW c \in Calls, Cancel(c)
    PROVE  Traffic' /\ OwnAnswer'
<1>1. TypeOK
  BY DEF Core, TypeInv
<1>2. /\ pc' = [pc EXCEPT ![c] = "cancelled"]
      /\ UNCHANGED <<cached, toPlc, reply, sent, applied, last, dups>>
  BY DEF Cancel, plcVars
<1>3. Traffic'
  <2>1. CASE stream[c] = None
    BY <1>1, <1>2, <2>1, TrafficKept DEF Cancel, TypeOK
  <2>2. CASE stream[c] # None
    BY <1>1, <1>2, <2>2, TrafficDrop DEF Cancel, TypeOK
  <2> QED
    BY <2>1, <2>2
<1>4. OwnAnswer'
  BY <1>1, <1>2 DEF Core, OwnAnswer, TypeOK
<1> QED
  BY <1>3, <1>4

LEMMA TrafficAcquireCached ==
    ASSUME Core, NEW c \in Calls, AcquireCached(c)
    PROVE  Traffic' /\ OwnAnswer'
<1> USE DEF Core, TypeInv
<1>1. /\ pc[c] = "lock"
      /\ cached[target[c]] # None
      /\ stream' = [stream EXCEPT ![c] = cached[target[c]]]
      /\ cached' = [cached EXCEPT ![target[c]] = None]
      /\ pc' = [pc EXCEPT ![c] = "write"]
      /\ UNCHANGED <<reply, toPlc, fromPlc, applied, dups>>
  BY DEF AcquireCached, Granted, plcVars
<1>2. stream[c] = None /\ target[c] \in Targets
  BY <1>1 DEF CallShape, TypeOK
<1>3. PoolIsSilent'
  BY <1>1, <1>2 DEF PoolIsSilent, Silent, Traffic, TypeOK
<1>4. NothingToRead'
  <2>1. \A s \in Streams : Open(s) => Open(s)'
    BY <1>1, <1>2 DEF Open, TypeOK
  <2> QED
    BY <1>1, <2>1 DEF NothingToRead, Traffic
<1>5. OneAtATime'
  <2> SUFFICES ASSUME NEW d \in Calls, stream'[d] # None PROVE InOrder(d)'
    BY DEF OneAtATime
  <2>1. CASE d = c
    BY <1>1, <1>2, <2>1
    DEF InOrder, Silent, Traffic, PoolIsSilent, TypeOK
  <2>2. CASE d # c
    BY <1>1, <2>2, InOrderKept DEF Traffic, TypeOK
  <2> QED
    BY <2>1, <2>2
<1>6. OwnAnswer'
  BY <1>1 DEF OwnAnswer, TypeOK
<1> QED
  BY <1>1, <1>3, <1>4, <1>5, <1>6 DEF Traffic

LEMMA TrafficAcquireFresh ==
    ASSUME Core, NEW c \in Calls, AcquireFresh(c)
    PROVE  Traffic' /\ OwnAnswer'
<1> USE DEF Core, TypeInv
<1> DEFINE old == cached[target[c]]
<1>1. /\ pc[c] = "lock"
      /\ cached' = [cached EXCEPT ![target[c]] = None]
      /\ pc' = [pc EXCEPT ![c] = "connect"]
      /\ UNCHANGED <<stream, reply, toPlc, applied, dups>>
  BY DEF AcquireFresh, Granted, plcVars
<1>2. stream[c] = None /\ target[c] \in Targets
  BY <1>1 DEF CallShape, TypeOK
<1>3. fromPlc' = fromPlc
  <2>1. CASE old = None
    BY <2>1 DEF AcquireFresh
  <2>2. CASE old # None
    <3>1. fromPlc' = [fromPlc EXCEPT ![old] = <<>>]
      BY <2>2 DEF AcquireFresh
    <3>2. fromPlc[old] = <<>> /\ old \in Streams
      BY <1>2, <2>2 DEF Traffic, PoolIsSilent, Silent, TypeOK
    <3> QED
      BY <3>1, <3>2 DEF TypeOK
  <2> QED
    BY <2>1, <2>2
<1>4. PoolIsSilent'
  BY <1>1, <1>2, <1>3 DEF PoolIsSilent, Silent, Traffic, TypeOK
<1>5. NothingToRead'
  <2>1. \A s \in Streams : s # old /\ Open(s) => Open(s)'
    BY <1>1, <1>2 DEF Open, TypeOK
  <2>2. old \in Streams => fromPlc[old] = <<>>
    BY <1>2, TransportAssumption DEF Traffic, PoolIsSilent, Silent
  <2> QED
    BY <1>3, <2>1, <2>2 DEF NothingToRead, Traffic
<1>6. OneAtATime'
  BY <1>1, <1>2, <1>3, InOrderKept DEF OneAtATime, Traffic, TypeOK
<1>7. OwnAnswer'
  BY <1>1 DEF OwnAnswer, TypeOK
<1> QED
  BY <1>1, <1>4, <1>5, <1>6, <1>7 DEF Traffic

LEMMA TrafficConnect ==
    ASSUME Core, NEW c \in Calls, Connect(c)
    PROVE  Traffic' /\ OwnAnswer'
<1> USE DEF Core, TypeInv
<1>1. PICK s \in Streams :
        Unused(s) /\ stream' = [stream EXCEPT ![c] = s]
  BY DEF Connect
<1>2. /\ pc[c] = "connect"
      /\ pc' = [pc EXCEPT ![c] = "write"]
      /\ UNCHANGED <<cached, reply, toPlc, fromPlc, applied, dups>>
  BY DEF Connect, poolVars, plcVars
<1>3. stream[c] = None /\ Silent(s)
  BY <1>1, <1>2 DEF CallShape, Unused, Traffic, NothingToRead, Silent
<1>4. PoolIsSilent'
  BY <1>2 DEF PoolIsSilent, Silent, Traffic
<1>5. NothingToRead'
  <2>1. \A r \in Streams : Open(r) => Open(r)'
    BY <1>1, <1>2, <1>3, TransportAssumption DEF Open, TypeOK
  <2> QED
    BY <1>2, <2>1 DEF NothingToRead, Traffic
<1>6. OneAtATime'
  <2> SUFFICES ASSUME NEW d \in Calls, stream'[d] # None PROVE InOrder(d)'
    BY DEF OneAtATime
  <2>1. CASE d = c
    BY <1>1, <1>2, <1>3, <2>1 DEF InOrder, Silent, TypeOK
  <2>2. CASE d # c
    BY <1>1, <1>2, <2>2, InOrderKept DEF Traffic, TypeOK
  <2> QED
    BY <2>1, <2>2
<1>7. OwnAnswer'
  BY <1>2 DEF OwnAnswer, TypeOK
<1> QED
  BY <1>2, <1>4, <1>5, <1>6, <1>7 DEF Traffic

LEMMA TrafficWrite ==
    ASSUME Core, NEW c \in Calls, Write(c)
    PROVE  Traffic' /\ OwnAnswer'
<1> USE DEF Core, TypeInv
<1> DEFINE s == stream[c]
<1>1. /\ pc[c] = "write"
      /\ pc' = [pc EXCEPT ![c] = "read"]
      /\ toPlc' \in {toPlc, [toPlc EXCEPT ![s] = Append(@, c)]}
      /\ UNCHANGED <<stream, cached, reply, fromPlc, applied, dups>>
  BY DEF Write, callVars, poolVars
<1>2. s # None /\ s \in Streams /\ Silent(s)
  BY <1>1 DEF CallShape, Traffic, OneAtATime, InOrder, TypeOK
<1>3. toPlc' = toPlc \/ toPlc' = [toPlc EXCEPT ![s] = <<c>>]
  BY <1>1, <1>2 DEF Silent, TypeOK
<1>4. PoolIsSilent'
  BY <1>1, <1>2, <1>3
  DEF PoolIsSilent, Silent, Traffic, StreamOwnership, TypeOK
<1>5. NothingToRead'
  BY <1>1 DEF NothingToRead, Open, Traffic
<1>6. OneAtATime'
  <2> SUFFICES ASSUME NEW d \in Calls, stream'[d] # None PROVE InOrder(d)'
    BY DEF OneAtATime
  <2>1. CASE d = c
    BY <1>1, <1>2, <1>3, <2>1 DEF InOrder, Silent, Asked, TypeOK
  <2>2. CASE d # c
    <3>1. stream[d] # s /\ stream[d] \in Streams
      BY <1>1, <2>2 DEF StreamOwnership, TypeOK
    <3> QED
      BY <1>1, <1>3, <2>2, <3>1, InOrderKept DEF Traffic, TypeOK
  <2> QED
    BY <2>1, <2>2
<1>7. OwnAnswer'
  BY <1>1 DEF OwnAnswer, TypeOK
<1> QED
  BY <1>1, <1>4, <1>5, <1>6, <1>7 DEF Traffic

\* A call that finds frames to read finds the answer to its request, alone.
LEMMA OnlyTheAnswer ==
    ASSUME Core, NEW c \in Calls, pc[c] = "read",
           NEW k \in 1..Len(fromPlc[stream[c]])
    PROVE  /\ stream[c] \in Streams
           /\ k = 1
           /\ Answered(c, stream[c])
<1>1. stream[c] # None /\ stream[c] \in Streams
  BY DEF Core, TypeInv, TypeOK, CallShape
<1>2. InOrder(c)
  BY <1>1 DEF Core, Traffic, OneAtATime
<1>3. fromPlc[stream[c]] # <<>>
  OBVIOUS
<1>4. Answered(c, stream[c])
  BY <1>2, <1>3 DEF InOrder, Silent, Asked
<1>5. Len(fromPlc[stream[c]]) = 1
  BY <1>4 DEF Answered
<1> QED
  BY <1>1, <1>4, <1>5

LEMMA TrafficReadAnswer ==
    ASSUME Core, NEW c \in Calls, ReadAnswer(c)
    PROVE  Traffic' /\ OwnAnswer'
<1> USE DEF Core, TypeInv
<1> DEFINE s == stream[c]
<1>1. /\ pc[c] = "read"
      /\ cached' = [cached EXCEPT ![target[c]] = s]
      /\ stream' = [stream EXCEPT ![c] = None]
      /\ pc' = [pc EXCEPT ![c] = "ok"]
      /\ UNCHANGED <<toPlc, applied, dups>>
  BY DEF ReadAnswer, plcVars
<1>2. PICK k \in 1..Len(fromPlc[s]) : \E i \in 1..k :
        /\ reply' = [reply EXCEPT ![c] = fromPlc[s][i]]
        /\ fromPlc' = [fromPlc EXCEPT ![s] = Unread(@, k)]
  BY DEF ReadAnswer
<1>3. s \in Streams /\ k = 1 /\ Answered(c, s) /\ s # None
  BY <1>1, OnlyTheAnswer, TransportAssumption
<1>4. reply' = [reply EXCEPT ![c] = c]
  <2>1. fromPlc[s][1] = c
    BY <1>3 DEF Answered
  <2>2. reply' = [reply EXCEPT ![c] = fromPlc[s][1]]
    BY <1>2, <1>3
  <2> QED
    BY <2>1, <2>2
<1>5. fromPlc' = [fromPlc EXCEPT ![s] = <<>>]
  <2>1. fromPlc[s] \in Seq(Calls) /\ Len(fromPlc[s]) = 1
    BY <1>3 DEF Answered, TypeOK
  <2>2. Unread(fromPlc[s], k) = <<>>
    BY <2>1, UnreadType
  <2> QED
    BY <1>2, <2>2
<1>6. PoolIsSilent'
  <2> SUFFICES ASSUME NEW t \in Targets, cached'[t] # None
               PROVE  toPlc'[cached'[t]] = <<>> /\ fromPlc'[cached'[t]] = <<>>
    BY DEF PoolIsSilent, Silent
  <2>1. CASE t = target[c]
    BY <1>1, <1>3, <1>5, <2>1 DEF Answered, TypeOK
  <2>2. CASE t # target[c]
    <3>1. cached'[t] = cached[t] /\ cached[t] # s
      BY <1>1, <1>3, <2>2 DEF StreamOwnership, TypeOK
    <3>2. Silent(cached[t]) /\ cached[t] \in Streams
      BY <3>1, <2>2 DEF Traffic, PoolIsSilent, TypeOK
    <3> QED
      BY <1>1, <1>5, <3>1, <3>2 DEF Silent, TypeOK
  <2> QED
    BY <2>1, <2>2
<1>7. NothingToRead'
  <2> SUFFICES ASSUME NEW r \in Streams, ~Open(r)' PROVE fromPlc'[r] = <<>>
    BY DEF NothingToRead
  <2>1. CASE r = s
    BY <1>5, <2>1 DEF TypeOK
  <2>2. CASE r # s
    <3>1. CASE cached[target[c]] = r
      BY <1>5, <2>2, <3>1, TransportAssumption
      DEF Traffic, PoolIsSilent, Silent, TypeOK
    <3>2. CASE cached[target[c]] # r
      <4>1. ~Open(r)
        <5>1. \A t \in Targets : cached[t] # r
          BY <1>1, <3>2 DEF Open, TypeOK
        <5>2. \A d \in Calls : stream[d] # r
          BY <1>1, <2>2 DEF Open, TypeOK
        <5> QED
          BY <5>1, <5>2 DEF Open
      <4> QED
        BY <1>5, <2>2, <4>1 DEF Traffic, NothingToRead, TypeOK
    <3> QED
      BY <3>1, <3>2
  <2> QED
    BY <2>1, <2>2
<1>8. OneAtATime'
  <2> SUFFICES ASSUME NEW d \in Calls, stream'[d] # None PROVE InOrder(d)'
    BY DEF OneAtATime
  <2>1. /\ d # c /\ stream'[d] = stream[d]
        /\ stream[d] # s /\ stream[d] \in Streams
    BY <1>1 DEF StreamOwnership, TypeOK
  <2> QED
    BY <1>1, <1>5, <2>1, InOrderKept DEF Traffic, TypeOK
<1>9. OwnAnswer'
  BY <1>1, <1>3, <1>4 DEF OwnAnswer, Answered, TypeOK
<1> QED
  BY <1>1, <1>6, <1>7, <1>8, <1>9 DEF Traffic

\* The PLC takes the one request in transit on a connection.
LEMMA TrafficExecute ==
    ASSUME Core, NEW s \in Streams, Execute(s)
    PROVE  Traffic' /\ OwnAnswer'
<1> USE DEF Core, TypeInv
<1> DEFINE c == Head(toPlc[s])
<1>1. /\ toPlc[s] # <<>>
      /\ applied' = [applied EXCEPT ![c] = @ + 1]
      /\ fromPlc' = IF Open(s) THEN [fromPlc EXCEPT ![s] = Append(@, c)]
                    ELSE fromPlc
      /\ toPlc' = [toPlc EXCEPT ![s] = Tail(@)]
      /\ UNCHANGED <<pc, stream, cached, reply, dups>>
  BY DEF Execute, callVars, poolVars
<1>2. \A t \in Targets : cached[t] # s
  BY <1>1, TransportAssumption DEF Traffic, PoolIsSilent, Silent
<1>3. \A d \in Calls : stream[d] = s =>
        d = c /\ pc[d] = "read" /\ Asked(d, s)
  <2> SUFFICES ASSUME NEW d \in Calls, stream[d] = s
               PROVE  d = c /\ pc[d] = "read" /\ Asked(d, s)
    OBVIOUS
  <2>1. InOrder(d)
    BY TransportAssumption DEF Traffic, OneAtATime
  <2> QED
    BY <1>1, <2>1 DEF InOrder, Silent, Asked, Answered
<1>4. c \in Calls
  BY <1>1, HeadTailProperties DEF TypeOK
<1>5. applied' \in [Calls -> Nat] /\ \A d \in Calls : applied'[d] >= applied[d]
  <2>1. applied[c] + 1 \in Nat
    BY SMTT(20), <1>4 DEF TypeOK
  <2>2. /\ applied \in [Calls -> Nat]
        /\ applied' = [applied EXCEPT ![c] = applied[c] + 1]
    BY <1>1 DEF TypeOK
  <2>3. applied' \in [Calls -> Nat]
    BY <2>1, <2>2
  <2>4. ASSUME NEW d \in Calls PROVE applied'[d] >= applied[d]
    BY <2>2
  <2> QED
    BY <2>3, <2>4
<1>6. PoolIsSilent'
  BY <1>1, <1>2 DEF PoolIsSilent, Silent, Traffic, TypeOK
<1>7. NothingToRead'
  BY <1>1 DEF NothingToRead, Open, Traffic, TypeOK
<1>8. OneAtATime'
  <2> SUFFICES ASSUME NEW d \in Calls, stream'[d] # None PROVE InOrder(d)'
    BY DEF OneAtATime
  <2>1. stream'[d] = stream[d] /\ pc'[d] = pc[d] /\ stream[d] \in Streams
    BY <1>1 DEF TypeOK
  <2>2. CASE stream[d] = s
    <3>1. d = c /\ pc[d] = "read" /\ toPlc[s] = <<d>> /\ fromPlc[s] = <<>>
      BY <1>3, <2>2 DEF Asked
    <3>2. Open(s)
      BY <2>2 DEF Open
    <3>3. toPlc'[s] = <<>> /\ fromPlc'[s] = <<d>>
      BY <1>1, <3>1, <3>2 DEF TypeOK
    <3>4. applied'[d] > 0
      BY <1>1, <3>1 DEF TypeOK
    <3> QED
      BY <2>1, <2>2, <3>1, <3>3, <3>4 DEF InOrder, Answered
  <2>3. CASE stream[d] # s
    <3>1. /\ toPlc'[stream[d]] = toPlc[stream[d]]
          /\ fromPlc'[stream[d]] = fromPlc[stream[d]]
      BY <1>1, <2>1, <2>3 DEF TypeOK
    <3>2. InOrder(d)
      BY <2>1 DEF Traffic, OneAtATime
    <3>3. applied[d] > 0 => applied'[d] > 0
      BY <1>5 DEF TypeOK
    <3> QED
      BY <2>1, <3>1, <3>2, <3>3 DEF InOrder, Silent, Asked, Answered
  <2> QED
    BY <2>2, <2>3
<1>9. OwnAnswer'
  <2> SUFFICES ASSUME NEW d \in Calls, pc[d] = "ok"
               PROVE  reply[d] = d /\ applied'[d] > 0
    BY <1>1 DEF OwnAnswer
  <2>1. reply[d] = d /\ applied[d] > 0
    BY DEF OwnAnswer
  <2>2. applied[d] \in Nat /\ applied'[d] \in Nat /\ applied'[d] >= applied[d]
    BY <1>5 DEF TypeOK
  <2> QED
    BY <2>1, <2>2
<1> QED
  BY <1>1, <1>6, <1>7, <1>8, <1>9 DEF Traffic

LEMMA TrafficPeerClose ==
    ASSUME Core, NEW s \in Streams, PeerClose(s)
    PROVE  Traffic' /\ OwnAnswer'
<1> USE DEF Core, TypeInv
<1>1. /\ toPlc' = [toPlc EXCEPT ![s] = <<>>]
      /\ fromPlc' \in {fromPlc, [fromPlc EXCEPT ![s] = <<>>]}
      /\ UNCHANGED <<pc, stream, cached, reply, applied, dups>>
  BY DEF PeerClose, callVars, poolVars, plcVars
<1>2. PoolIsSilent'
  BY <1>1 DEF PoolIsSilent, Silent, Traffic, TypeOK
<1>3. NothingToRead'
  BY <1>1 DEF NothingToRead, Open, Traffic, TypeOK
<1>4. OneAtATime'
  <2> SUFFICES ASSUME NEW d \in Calls, stream'[d] # None PROVE InOrder(d)'
    BY DEF OneAtATime
  <2>1. stream'[d] = stream[d] /\ pc'[d] = pc[d] /\ stream[d] \in Streams
    BY <1>1 DEF TypeOK
  <2>2. CASE stream[d] = s
    <3>1. toPlc'[s] = <<>> /\ fromPlc'[s] \in {fromPlc[s], <<>>}
      BY <1>1 DEF TypeOK
    <3>2. InOrder(d)
      BY <2>1 DEF Traffic, OneAtATime
    <3> QED
      BY <1>1, <2>1, <2>2, <3>1, <3>2 DEF InOrder, Silent, Asked, Answered
  <2>3. CASE stream[d] # s
    BY <1>1, <2>1, <2>3, InOrderKept DEF Traffic, TypeOK
  <2> QED
    BY <2>2, <2>3
<1>5. OwnAnswer'
  BY <1>1 DEF OwnAnswer
<1> QED
  BY <1>1, <1>2, <1>3, <1>4, <1>5 DEF Traffic

\* Every step of a transport whose PLC answers once keeps the connections in
\* order.
LEMMA CoreNext == MaxDup = 0 /\ Core /\ [Next]_vars => Core'
<1> SUFFICES ASSUME MaxDup = 0, Core, [Next]_vars PROVE Core'
  OBVIOUS
<1>1. TypeInv' /\ StreamOwnership'
  BY TypeNext, OwnershipNext DEF Core
<1>2. TypeOK /\ CallShape /\ Traffic /\ OwnAnswer
  BY DEF Core, TypeInv
<1>3. ASSUME NEW c \in Calls,
             \/ Start(c) \/ Resolve(c) \/ ResolveFails(c) \/ ConnectFails(c)
             \/ Wake(c)
      PROVE  Traffic' /\ OwnAnswer'
  <2>1. /\ pc[c] \in {"idle", "resolve", "connect", "backoff"}
        /\ UNCHANGED <<stream, cached, toPlc, fromPlc, reply, applied, dups>>
        /\ \E p \in {"resolve", "lock", "backoff", "err"} :
              pc' = [pc EXCEPT ![c] = p]
    BY <1>3 DEF Start, Resolve, ResolveFails, ConnectFails, Wake, AttemptFails,
                callVars, poolVars, plcVars
  <2>2. stream[c] = None
    BY <1>2, <2>1 DEF CallShape
  <2>3. Traffic'
    BY <1>2, <2>1, <2>2, TrafficKept DEF TypeOK
  <2>4. OwnAnswer'
    BY <1>2, <2>1 DEF OwnAnswer, TypeOK
  <2> QED
    BY <2>3, <2>4
<1>4. ASSUME NEW c \in Calls, ReadOther(c) PROVE FALSE
  <2>1. PICK k \in 1..Len(fromPlc[stream[c]]) :
          \A i \in 1..k : ~Matches(c, fromPlc[stream[c]][i])
    BY <1>4 DEF ReadOther
  <2>2. k = 1 /\ Answered(c, stream[c])
    BY <1>4, <2>1, OnlyTheAnswer DEF ReadOther
  <2>3. fromPlc[stream[c]][1] = c
    BY <2>2 DEF Answered
  <2> QED
    BY <2>1, <2>2, <2>3 DEF Matches
<1>5. ASSUME NEW s \in Streams, AnswerTwice(s) PROVE FALSE
  BY <1>2, <1>5 DEF AnswerTwice, Traffic
<1>6. CASE UNCHANGED vars
  <2>1. Traffic'
    BY <1>6, TrafficKept DEF vars
  <2>2. OwnAnswer'
    BY <1>2, <1>6 DEF OwnAnswer, vars
  <2> QED
    BY <1>1, <2>1, <2>2 DEF Core
<1>7. ASSUME NEW c \in Calls, Proceed(c) PROVE Traffic' /\ OwnAnswer'
  BY <1>3, <1>4, <1>7, TrafficAcquireCached, TrafficAcquireFresh,
     TrafficConnect, TrafficWrite, TrafficReadAnswer, TrafficExchangeFails
  DEF Proceed, WriteFails, ReadFails
<1>8. ASSUME NEW s \in Streams, Environment(s) PROVE Traffic' /\ OwnAnswer'
  BY <1>5, <1>8, TrafficExecute, TrafficPeerClose DEF Environment
<1> QED
  BY <1>1, <1>3, <1>6, <1>7, <1>8, TrafficCancel DEF Next, Finished, Core

LEMMA CoreCorrect == MaxDup = 0 => (Spec => []Core)
<1> SUFFICES ASSUME MaxDup = 0 PROVE Spec => []Core
  OBVIOUS
<1>1. Init => Core
  BY TypeInit, TrafficInit DEF Core, Init, StreamOwnership
<1>2. Core /\ [Next]_vars => Core'
  BY CoreNext
<1> QED
  BY <1>1, <1>2, PTL DEF Spec

\* If the PLC answers each request once, a call that returns Ok returns the
\* answer to its own request, and the PLC has carried that request out: for any
\* number of concurrent calls, any retry setting, and even when the serial
\* numbers wrap and collide.
THEOREM OwnAnswerCorrect == MaxDup = 0 => (Spec => []OwnAnswer)
<1>1. Core => OwnAnswer
  BY DEF Core
<1> QED
  BY <1>1, CoreCorrect, PTL

\* Nothing of one call is ever in transit on the connection of another call.
THEOREM PrivateExchangeCorrect == MaxDup = 0 => (Spec => []PrivateExchange)
<1>1. Core => PrivateExchange
  <2> SUFFICES ASSUME Core, NEW c \in Calls, stream[c] # None,
                      NEW d \in Calls \ {c}
               PROVE  /\ \A i \in 1..Len(toPlc[stream[c]]) :
                            toPlc[stream[c]][i] # d
                      /\ \A i \in 1..Len(fromPlc[stream[c]]) :
                            fromPlc[stream[c]][i] # d
    BY DEF PrivateExchange
  <2>1. InOrder(c)
    BY DEF Core, Traffic, OneAtATime
  <2> QED
    BY <2>1 DEF InOrder, Silent, Asked, Answered
<1> QED
  BY <1>1, CoreCorrect, PTL

(***************************************************************************)
(* How often a call resends, and that the transport implements             *)
(* AtLeastOnce.                                                            *)
(***************************************************************************)
\* The writes that n attempts can make: one on the pooled stream and one for
\* each address.
Rounds(n) == n * (MaxRemotes + 1)

LEMMA RoundsFacts ==
    /\ \A n \in Nat : Rounds(n) \in Nat
    /\ Rounds(0) = 0
    /\ \A n \in Nat \ {0} : Rounds(n) = Rounds(n - 1) + MaxRemotes + 1
    /\ \A n \in Nat : n <= Attempts => Rounds(n) <= Rounds(Attempts)
    /\ Rounds(Attempts) = SendLimit
<1> USE TransportAssumption
<1>1. \A n \in Nat : n * (MaxRemotes + 1) \in Nat
  OBVIOUS
<1>2. ASSUME NEW n \in Nat \ {0}
      PROVE  n * (MaxRemotes + 1)
                 = (n - 1) * (MaxRemotes + 1) + MaxRemotes + 1
  OBVIOUS
<1>3. ASSUME NEW n \in Nat, n <= Attempts
      PROVE  n * (MaxRemotes + 1) <= Attempts * (MaxRemotes + 1)
  <2>1. /\ Attempts - n \in Nat
        /\ Attempts * (MaxRemotes + 1)
               = n * (MaxRemotes + 1) + (Attempts - n) * (MaxRemotes + 1)
    BY <1>3
  <2>2. (Attempts - n) * (MaxRemotes + 1) \in Nat
    BY <1>1, <2>1
  <2> QED
    BY <1>1, <2>1, <2>2
<1> QED
  BY <1>1, <1>2, <1>3 DEF Rounds, SendLimit

\* What a call has written at each of its places.
WithinBudget(c) ==
    /\ attempt[c] > 0
    /\ pc[c] = "idle" => sent[c] = 0 /\ attempt[c] = 1
    /\ pc[c] \in Active => attempt[c] <= Attempts
    /\ pc[c] \in {"resolve", "backoff", "lock"}
           => sent[c] <= Rounds(attempt[c] - 1)
    /\ pc[c] \in {"connect", "read"} => sent[c] + left[c] <= Rounds(attempt[c])
    /\ pc[c] = "write" => sent[c] + left[c] < Rounds(attempt[c])
    /\ pc[c] \in Returned => sent[c] <= Rounds(Attempts)

Budget == \A c \in Calls : WithinBudget(c)

LEMMA BudgetInit == Init => Budget
BY DEF Init, Budget, WithinBudget, Active, Holding, Returned

\* A step of another call.
LEMMA BudgetKept ==
    ASSUME NEW d \in Calls, WithinBudget(d), pc'[d] = pc[d],
           attempt'[d] = attempt[d], left'[d] = left[d], sent'[d] = sent[d]
    PROVE  WithinBudget(d)'
BY DEF WithinBudget

\* A failed attempt, after which the next one has writes of its own.
LEMMA BudgetFacts ==
    ASSUME TypeOK, Budget, NEW c \in Calls
    PROVE  /\ attempt[c] \in Nat \ {0} /\ sent[c] \in Nat
           /\ left[c] \in 0..MaxRemotes /\ MaxRemotes \in Nat
           /\ pc[c] \in Places /\ WithinBudget(c)
           /\ Rounds(attempt[c]) \in Nat /\ Rounds(attempt[c] - 1) \in Nat
           /\ Rounds(attempt[c]) = Rounds(attempt[c] - 1) + MaxRemotes + 1
           /\ attempt[c] <= Attempts => Rounds(attempt[c]) <= Rounds(Attempts)
           /\ Rounds(Attempts) \in Nat /\ Rounds(0) = 0
<1>1. /\ attempt[c] \in Nat \ {0} /\ sent[c] \in Nat
      /\ left[c] \in 0..MaxRemotes /\ MaxRemotes \in Nat
      /\ pc[c] \in Places /\ WithinBudget(c)
  BY TransportAssumption DEF Budget, WithinBudget, TypeOK
<1>2. attempt[c] - 1 \in Nat /\ Attempts \in Nat
  BY <1>1, TransportAssumption
<1> QED
  BY <1>1, <1>2, RoundsFacts

LEMMA BudgetAttemptFails ==
    ASSUME TypeOK, Budget, NEW c \in Calls, pc[c] \in Active,
           sent[c] <= Rounds(attempt[c]), AttemptFails(c),
           UNCHANGED <<left, sent>>
    PROVE  Budget'
<1> USE TransportAssumption
<1>1. /\ attempt[c] \in Nat \ {0} /\ attempt[c] <= Attempts
      /\ attempt \in [Calls -> Nat] /\ pc \in [Calls -> Places]
      /\ sent[c] \in Nat
  BY BudgetFacts DEF WithinBudget, TypeOK
<1>2. WithinBudget(c)'
  <2>1. CASE attempt[c] < Attempts
    <3>1. pc'[c] = "backoff" /\ attempt'[c] = attempt[c] + 1
      BY <1>1, <2>1 DEF AttemptFails
    <3> QED
      BY <1>1, <2>1, <3>1, RoundsFacts DEF WithinBudget, Active, Holding, Returned
  <2>2. CASE ~(attempt[c] < Attempts)
    <3>1. pc'[c] = "err" /\ attempt'[c] = attempt[c] /\ attempt[c] = Attempts
      BY <1>1, <2>2 DEF AttemptFails
    <3> QED
      BY <1>1, <3>1 DEF WithinBudget, Active, Holding, Returned
  <2> QED
    BY <2>1, <2>2
<1>3. ASSUME NEW d \in Calls, d # c PROVE WithinBudget(d)'
  <2>1. pc'[d] = pc[d] /\ attempt'[d] = attempt[d]
    BY <1>1, <1>3 DEF AttemptFails
  <2> QED
    BY <2>1, BudgetKept DEF Budget
<1> QED
  BY <1>2, <1>3 DEF Budget

LEMMA BudgetNext == TypeInv /\ Budget /\ [Next]_vars => Budget'
<1> SUFFICES ASSUME TypeOK, CallShape, Budget, [Next]_vars PROVE Budget'
  BY DEF TypeInv
<1> USE TransportAssumption
\* A step of c that stays within its attempt.
<1>1. ASSUME NEW c \in Calls, WithinBudget(c)',
             \A d \in Calls \ {c} :
                 /\ pc'[d] = pc[d] /\ attempt'[d] = attempt[d]
                 /\ left'[d] = left[d] /\ sent'[d] = sent[d]
      PROVE  Budget'
  BY <1>1, BudgetKept DEF Budget
<1>2. ASSUME NEW c \in Calls, Start(c) PROVE Budget'
  <2>1. /\ pc[c] = "idle" /\ attempt' = attempt /\ left' = left /\ sent' = sent
        /\ pc' = [pc EXCEPT ![c] = IF Attempts = 0 THEN "err" ELSE "resolve"]
    BY <1>2 DEF Start, plcVars
  <2>2. /\ \/ pc'[c] = "err" /\ Attempts = 0
           \/ pc'[c] = "resolve" /\ Attempts # 0
        /\ \A d \in Calls \ {c} : pc'[d] = pc[d]
    BY <2>1 DEF TypeOK
  <2>3. WithinBudget(c)'
    BY <2>1, <2>2, BudgetFacts DEF WithinBudget, Active, Holding, Returned
  <2> QED
    BY <1>1, <2>1, <2>2, <2>3
<1>3. ASSUME NEW c \in Calls, Resolve(c) PROVE Budget'
  <2>1. /\ pc[c] = "resolve" /\ attempt' = attempt /\ sent' = sent
        /\ pc' = [pc EXCEPT ![c] = "lock"]
        /\ \A d \in Calls \ {c} : left'[d] = left[d]
    BY <1>3 DEF Resolve, plcVars, TypeOK
  <2>2. pc'[c] = "lock" /\ \A d \in Calls \ {c} : pc'[d] = pc[d]
    BY <2>1 DEF TypeOK
  <2>3. WithinBudget(c)'
    BY <2>1, <2>2, BudgetFacts DEF WithinBudget, Active, Holding, Returned
  <2> QED
    BY <1>1, <2>1, <2>2, <2>3
<1>4. ASSUME NEW c \in Calls, ResolveFails(c) \/ ConnectFails(c) PROVE Budget'
  <2>1. /\ pc[c] \in {"resolve", "connect"} /\ AttemptFails(c)
        /\ UNCHANGED <<left, sent>>
    BY <1>4 DEF ResolveFails, ConnectFails, plcVars
  <2>2. sent[c] <= Rounds(attempt[c]) /\ pc[c] \in Active
    BY <2>1, BudgetFacts DEF WithinBudget, Active, Holding
  <2> QED
    BY <2>1, <2>2, BudgetAttemptFails
<1>5. ASSUME NEW c \in Calls, AcquireCached(c) \/ AcquireFresh(c) PROVE Budget'
  <2>1. /\ pc[c] = "lock" /\ attempt' = attempt /\ left' = left /\ sent' = sent
        /\ \E p \in {"write", "connect"} : pc' = [pc EXCEPT ![c] = p]
    BY <1>5 DEF AcquireCached, AcquireFresh, Granted, plcVars
  <2>2. /\ pc'[c] \in {"write", "connect"}
        /\ \A d \in Calls \ {c} : pc'[d] = pc[d]
    BY <2>1 DEF TypeOK
  <2>3. WithinBudget(c)'
    BY <2>1, <2>2, BudgetFacts DEF WithinBudget, Active, Holding, Returned
  <2> QED
    BY <1>1, <2>1, <2>2, <2>3
<1>6. ASSUME NEW c \in Calls, Connect(c) PROVE Budget'
  <2>1. /\ pc[c] = "connect" /\ attempt' = attempt /\ sent' = sent
        /\ pc' = [pc EXCEPT ![c] = "write"]
        /\ left' = [left EXCEPT ![c] = @ - 1]
    BY <1>6 DEF Connect, plcVars
  <2>2. /\ pc'[c] = "write" /\ left'[c] = left[c] - 1
        /\ \A d \in Calls \ {c} : pc'[d] = pc[d] /\ left'[d] = left[d]
    BY <2>1 DEF TypeOK
  <2>3. WithinBudget(c)'
    BY <2>1, <2>2, BudgetFacts DEF WithinBudget, Active, Holding, Returned
  <2> QED
    BY <1>1, <2>1, <2>2, <2>3
<1>7. ASSUME NEW c \in Calls, Write(c) PROVE Budget'
  <2>1. /\ pc[c] = "write" /\ attempt' = attempt /\ left' = left
        /\ pc' = [pc EXCEPT ![c] = "read"]
        /\ sent' = [sent EXCEPT ![c] = @ + 1]
    BY <1>7 DEF Write, callVars
  <2>2. /\ pc'[c] = "read" /\ sent'[c] = sent[c] + 1
        /\ \A d \in Calls \ {c} : pc'[d] = pc[d] /\ sent'[d] = sent[d]
    BY <2>1 DEF TypeOK
  <2>3. WithinBudget(c)'
    BY <2>1, <2>2, BudgetFacts DEF WithinBudget, Active, Holding, Returned
  <2> QED
    BY <1>1, <2>1, <2>2, <2>3
<1>8. ASSUME NEW c \in Calls, pc[c] \in {"write", "read"}, ExchangeFails(c)
      PROVE  Budget'
  <2>1. left' = left /\ sent' = sent /\ pc[c] \in Active
    BY <1>8 DEF ExchangeFails, plcVars, Active, Holding
  <2>2. sent[c] + left[c] <= Rounds(attempt[c]) /\ sent[c] <= Rounds(attempt[c])
    BY <1>8, BudgetFacts DEF WithinBudget
  <2>3. CASE left[c] > 0
    <3>1. pc' = [pc EXCEPT ![c] = "connect"] /\ attempt' = attempt
      BY <1>8, <2>3 DEF ExchangeFails
    <3>2. pc'[c] = "connect" /\ \A d \in Calls \ {c} : pc'[d] = pc[d]
      BY <3>1 DEF TypeOK
    <3>3. WithinBudget(c)'
      BY <2>1, <2>2, <3>1, <3>2, BudgetFacts
      DEF WithinBudget, Active, Holding, Returned
    <3> QED
      BY <1>1, <2>1, <3>1, <3>2, <3>3
  <2>4. CASE ~(left[c] > 0)
    <3>1. AttemptFails(c)
      BY <1>8, <2>4 DEF ExchangeFails
    <3> QED
      BY <2>1, <2>2, <3>1, BudgetAttemptFails
  <2> QED
    BY <2>3, <2>4
<1>9. ASSUME NEW c \in Calls, ReadAnswer(c) \/ Cancel(c) PROVE Budget'
  <2>1. /\ pc[c] \in Active /\ attempt' = attempt /\ left' = left
        /\ sent' = sent
        /\ \E p \in {"ok", "cancelled"} : pc' = [pc EXCEPT ![c] = p]
    BY <1>9 DEF ReadAnswer, Cancel, plcVars, Active, Holding
  <2>2. /\ pc'[c] \in {"ok", "cancelled"}
        /\ \A d \in Calls \ {c} : pc'[d] = pc[d]
    BY <2>1 DEF TypeOK
  <2>3. sent[c] <= Rounds(attempt[c])
    BY <2>1, BudgetFacts DEF WithinBudget, Active, Holding
  <2>4. sent[c] <= Rounds(Attempts)
    BY <2>1, <2>3, BudgetFacts DEF WithinBudget
  <2>5. WithinBudget(c)'
    BY <2>1, <2>2, <2>4, BudgetFacts
    DEF WithinBudget, Active, Holding, Returned
  <2> QED
    BY <1>1, <2>1, <2>2, <2>5
<1>10. ASSUME NEW c \in Calls, Wake(c) PROVE Budget'
  <2>1. /\ pc[c] = "backoff" /\ attempt' = attempt /\ left' = left
        /\ sent' = sent /\ pc' = [pc EXCEPT ![c] = "resolve"]
    BY <1>10 DEF Wake, callVars, plcVars
  <2>2. pc'[c] = "resolve" /\ \A d \in Calls \ {c} : pc'[d] = pc[d]
    BY <2>1 DEF TypeOK
  <2>3. WithinBudget(c)'
    BY <2>1, <2>2, BudgetFacts DEF WithinBudget, Active, Holding, Returned
  <2> QED
    BY <1>1, <2>1, <2>2, <2>3
<1>11. CASE UNCHANGED <<pc, attempt, left, sent>>
  BY <1>11 DEF Budget, WithinBudget
<1>12. ASSUME NEW c \in Calls, ReadOther(c) PROVE Budget'
  BY <1>11, <1>12 DEF ReadOther, callVars, plcVars
<1>13. ASSUME NEW s \in Streams, Environment(s) PROVE Budget'
  BY <1>11, <1>13
  DEF Environment, Execute, PeerClose, AnswerTwice, callVars, plcVars
<1>14. CASE UNCHANGED vars
  BY <1>11, <1>14 DEF vars
<1>15. ASSUME NEW c \in Calls, Proceed(c) PROVE Budget'
  BY <1>3, <1>4, <1>5, <1>6, <1>7, <1>8, <1>9, <1>10, <1>12, <1>15
  DEF Proceed, WriteFails, ReadFails
<1> QED
  BY <1>2, <1>9, <1>13, <1>14, <1>15 DEF Next, Finished

LEMMA WrittenInBudget ==
    TypeInv /\ Budget => \A c \in Calls : sent[c] <= SendLimit
<1> SUFFICES ASSUME TypeOK, Budget, NEW c \in Calls
             PROVE  sent[c] <= Rounds(Attempts)
  BY RoundsFacts DEF TypeInv
<1>1. CASE pc[c] \in Active
  <2>1. sent[c] <= Rounds(attempt[c])
    BY <1>1, BudgetFacts DEF WithinBudget, Active, Holding
  <2> QED
    BY <1>1, <2>1, BudgetFacts DEF WithinBudget
<1>2. CASE pc[c] \notin Active
  BY <1>2, BudgetFacts DEF WithinBudget, Places
<1> QED
  BY <1>1, <1>2

\* No call writes its request more often than its attempts, addresses and the
\* pooled stream allow: for any settings, and whatever the PLC does.
THEOREM SendsBounded == Spec => [](\A c \in Calls : sent[c] <= SendLimit)
<1>1. Spec => [](TypeInv /\ Budget)
  BY TypeInit, TypeNext, BudgetInit, BudgetNext, PTL DEF Spec
<1>2. TypeInv /\ Budget => \A c \in Calls : sent[c] <= SendLimit
  BY WrittenInBudget
<1> QED
  BY <1>1, <1>2, PTL

----------------------------------------------------------------------------
\* The network as it is with a PLC that answers once: at most one request is in
\* transit on a connection, and each that was written is lost, in transit or
\* carried out.
OneRequest ==
    \A s \in Streams : toPlc[s] = <<>> \/ \E c \in Calls : toPlc[s] = <<c>>

Account(c) ==
    /\ IsFiniteSet(Carriers(c))
    /\ applied[c] + Cardinality(Carriers(c)) <= sent[c]

Accounts == OneRequest /\ \A c \in Calls : Account(c)

LEMMA OneCarried ==
    ASSUME NEW q, q = <<>> \/ \E d \in Calls : q = <<d>>, NEW c \in Calls
    PROVE  (\E i \in 1..Len(q) : q[i] = c) <=> q = <<c>>
<1>1. CASE q = <<>>
  BY <1>1
<1>2. ASSUME NEW d \in Calls, q = <<d>>
      PROVE  (\E i \in 1..Len(q) : q[i] = c) <=> q = <<c>>
  BY <1>2
<1> QED
  BY <1>1, <1>2

LEMMA CarriersOf ==
    ASSUME OneRequest, NEW c \in Calls
    PROVE  Carriers(c) = {s \in Streams : toPlc[s] = <<c>>}
BY OneCarried DEF OneRequest, Carriers

LEMMA CarriersNext ==
    ASSUME OneRequest', NEW c \in Calls
    PROVE  Carriers(c)' = {s \in Streams : toPlc'[s] = <<c>>}
BY OneCarried DEF OneRequest, Carriers

\* What a step does to the requests in transit.
Quiet == UNCHANGED <<toPlc, sent, applied>>
Adds(c, s) ==
    /\ toPlc[s] = <<>>
    /\ toPlc' = [toPlc EXCEPT ![s] = <<c>>]
Takes(c, s) ==
    /\ toPlc[s] = <<c>>
    /\ toPlc' = [toPlc EXCEPT ![s] = <<>>]

LEMMA RequestAdded ==
    ASSUME TypeOK, OneRequest, NEW c \in Calls, NEW s \in Streams, Adds(c, s),
           \A d \in Calls : IsFiniteSet(Carriers(d))
    PROVE  /\ OneRequest'
           /\ \A d \in Calls : IsFiniteSet(Carriers(d)')
           /\ Cardinality(Carriers(c)') = Cardinality(Carriers(c)) + 1
           /\ \A d \in Calls \ {c} : Carriers(d)' = Carriers(d)
<1>1. /\ toPlc \in [Streams -> Seq(Calls)] /\ toPlc[s] = <<>>
      /\ toPlc'[s] = <<c>> /\ \A r \in Streams \ {s} : toPlc'[r] = toPlc[r]
  BY DEF Adds, TypeOK
<1>2. OneRequest'
  BY <1>1 DEF OneRequest
<1>3. \A d \in Calls :
        /\ Carriers(d) = {r \in Streams : toPlc[r] = <<d>>}
        /\ Carriers(d)' = {r \in Streams : toPlc'[r] = <<d>>}
  BY <1>2, CarriersOf, CarriersNext
<1>4. s \notin Carriers(c) /\ Carriers(c)' = Carriers(c) \cup {s}
  <2>1. <<>> # <<c>>
    OBVIOUS
  <2> QED
    BY <1>1, <1>3, <2>1
<1>5. \A d \in Calls \ {c} : Carriers(d)' = Carriers(d)
  <2> SUFFICES ASSUME NEW d \in Calls, d # c
               PROVE  Carriers(d)' = Carriers(d)
    OBVIOUS
  <2>1. <<c>> # <<d>> /\ <<>> # <<d>>
    OBVIOUS
  <2>2. \A r \in Streams : toPlc'[r] = <<d>> <=> toPlc[r] = <<d>>
    BY <1>1, <2>1
  <2>3. {r \in Streams : toPlc'[r] = <<d>>} = {r \in Streams : toPlc[r] = <<d>>}
    BY <2>2
  <2> QED
    BY <1>3, <2>3, Zenon
<1> QED
  BY <1>2, <1>4, <1>5, FS_AddElement

LEMMA RequestTaken ==
    ASSUME TypeOK, OneRequest, NEW c \in Calls, NEW s \in Streams, Takes(c, s),
           \A d \in Calls : IsFiniteSet(Carriers(d))
    PROVE  /\ OneRequest'
           /\ \A d \in Calls : IsFiniteSet(Carriers(d)')
           /\ Cardinality(Carriers(c)) \in Nat \ {0}
           /\ Cardinality(Carriers(c)') = Cardinality(Carriers(c)) - 1
           /\ \A d \in Calls \ {c} : Carriers(d)' = Carriers(d)
<1>1. /\ toPlc \in [Streams -> Seq(Calls)] /\ toPlc[s] = <<c>>
      /\ toPlc'[s] = <<>> /\ \A r \in Streams \ {s} : toPlc'[r] = toPlc[r]
  BY DEF Takes, TypeOK
<1>2. OneRequest'
  BY <1>1 DEF OneRequest
<1>3. \A d \in Calls :
        /\ Carriers(d) = {r \in Streams : toPlc[r] = <<d>>}
        /\ Carriers(d)' = {r \in Streams : toPlc'[r] = <<d>>}
  BY <1>2, CarriersOf, CarriersNext
<1>4. s \in Carriers(c) /\ Carriers(c)' = Carriers(c) \ {s}
  <2>1. <<>> # <<c>>
    OBVIOUS
  <2> QED
    BY <1>1, <1>3, <2>1
<1>5. \A d \in Calls \ {c} : Carriers(d)' = Carriers(d)
  <2> SUFFICES ASSUME NEW d \in Calls, d # c
               PROVE  Carriers(d)' = Carriers(d)
    OBVIOUS
  <2>1. <<c>> # <<d>> /\ <<>> # <<d>>
    OBVIOUS
  <2>2. \A r \in Streams : toPlc'[r] = <<d>> <=> toPlc[r] = <<d>>
    BY <1>1, <2>1
  <2>3. {r \in Streams : toPlc'[r] = <<d>>} = {r \in Streams : toPlc[r] = <<d>>}
    BY <2>2
  <2> QED
    BY <1>3, <2>3, Zenon
<1>6. Cardinality(Carriers(c)) \in Nat \ {0}
  BY <1>4, FS_CardinalityType, FS_EmptySet
<1>7. /\ IsFiniteSet(Carriers(c)')
      /\ Cardinality(Carriers(c)') = Cardinality(Carriers(c)) - 1
  <2>1. IsFiniteSet(Carriers(c))
    OBVIOUS
  <2> QED
    BY <1>4, <2>1, FS_RemoveElement
<1> QED
  BY <1>2, <1>5, <1>6, <1>7

\* The steps of a transport whose PLC answers once, by what they do to the
\* requests in transit.
LEMMA NetworkStep ==
    ASSUME Core, OneRequest, MaxDup = 0, [Next]_vars
    PROVE  \/ Quiet
           \/ \E c \in Calls, s \in Streams :
                 /\ Write(c) /\ applied' = applied
                 /\ sent' = [sent EXCEPT ![c] = @ + 1]
                 /\ toPlc' = toPlc \/ Adds(c, s)
           \/ \E c \in Calls, s \in Streams :
                 /\ Takes(c, s) /\ pc' = pc /\ sent' = sent
                 /\ applied' \in {applied, [applied EXCEPT ![c] = @ + 1]}
<1>1. ASSUME NEW c \in Calls, Write(c)
      PROVE  /\ applied' = applied /\ sent' = [sent EXCEPT ![c] = @ + 1]
             /\ \E s \in Streams : toPlc' = toPlc \/ Adds(c, s)
  <2>1. stream[c] \in Streams /\ toPlc[stream[c]] = <<>>
    BY <1>1 DEF Write, Core, TypeInv, TypeOK, CallShape, Traffic, OneAtATime,
                InOrder, Silent
  <2>2. toPlc' = toPlc \/ toPlc' = [toPlc EXCEPT ![stream[c]] = Append(@, c)]
    BY <1>1 DEF Write
  <2>3. toPlc' = toPlc \/ toPlc' = [toPlc EXCEPT ![stream[c]] = <<c>>]
    BY <2>1, <2>2 DEF Core, TypeInv, TypeOK
  <2> QED
    BY <1>1, <2>1, <2>3 DEF Write, Adds
<1>2. ASSUME NEW s \in Streams, Execute(s)
      PROVE  /\ \E c \in Calls :
                   /\ Takes(c, s)
                   /\ applied' = [applied EXCEPT ![c] = @ + 1]
             /\ pc' = pc /\ sent' = sent
  <2>1. PICK c \in Calls : toPlc[s] = <<c>>
    BY <1>2 DEF Execute, OneRequest
  <2>2. Head(toPlc[s]) = c /\ Tail(toPlc[s]) = <<>>
    BY <2>1
  <2>3. /\ toPlc' = [toPlc EXCEPT ![s] = Tail(@)]
        /\ applied' = [applied EXCEPT ![Head(toPlc[s])] = @ + 1]
        /\ pc' = pc /\ sent' = sent
    BY <1>2 DEF Execute
  <2>4. toPlc' = [toPlc EXCEPT ![s] = <<>>]
    BY <2>2, <2>3 DEF Core, TypeInv, TypeOK
  <2>5. applied' = [applied EXCEPT ![c] = @ + 1]
    BY <2>2, <2>3
  <2> QED
    BY <2>1, <2>3, <2>4, <2>5 DEF Takes
<1>3. ASSUME NEW s \in Streams, PeerClose(s)
      PROVE  /\ toPlc' = toPlc \/ \E c \in Calls : Takes(c, s)
             /\ pc' = pc /\ sent' = sent /\ applied' = applied
  <2>1. /\ toPlc' = [toPlc EXCEPT ![s] = <<>>]
        /\ pc' = pc /\ sent' = sent /\ applied' = applied
    BY <1>3 DEF PeerClose, plcVars
  <2>2. CASE toPlc[s] = <<>>
    BY <2>1, <2>2 DEF Core, TypeInv, TypeOK
  <2>3. CASE toPlc[s] # <<>>
    BY <2>1, <2>3 DEF OneRequest, Takes
  <2> QED
    BY <2>1, <2>2, <2>3
<1>4. ASSUME NEW s \in Streams, AnswerTwice(s) PROVE Quiet
  BY <1>4 DEF AnswerTwice, Quiet
<1>5. ASSUME NEW c \in Calls, Start(c) \/ Cancel(c) PROVE Quiet
  BY <1>5 DEF Start, Cancel, plcVars, Quiet
<1>6. ASSUME NEW c \in Calls, Proceed(c), ~Write(c) PROVE Quiet
  BY <1>6
  DEF Proceed, Resolve, ResolveFails, AcquireCached, AcquireFresh, Granted,
      Connect, ConnectFails, WriteFails, ReadAnswer, ReadOther, ReadFails,
      ExchangeFails, Wake, plcVars, Quiet
<1>7. CASE UNCHANGED vars
  BY <1>7 DEF vars, Quiet
<1>8. ASSUME NEW c \in Calls, Proceed(c), ~Quiet
      PROVE  \E s \in Streams :
                 /\ Write(c) /\ applied' = applied
                 /\ sent' = [sent EXCEPT ![c] = @ + 1]
                 /\ toPlc' = toPlc \/ Adds(c, s)
  BY <1>1, <1>6, <1>8
<1>9. ASSUME NEW s \in Streams, Environment(s), ~Quiet
      PROVE  \E c \in Calls :
                 /\ Takes(c, s) /\ pc' = pc /\ sent' = sent
                 /\ applied' \in {applied, [applied EXCEPT ![c] = @ + 1]}
  BY <1>2, <1>3, <1>4, <1>9 DEF Environment, Quiet
<1> QED
  BY <1>5, <1>7, <1>8, <1>9 DEF Next, Finished

LEMMA AccountsInit == Init => Accounts
<1>1. Init => OneRequest /\ \A c \in Calls : Carriers(c) = {}
  BY DEF Init, OneRequest, Carriers
<1> SUFFICES ASSUME Init, NEW c \in Calls PROVE Account(c)
  BY <1>1 DEF Accounts
<1>2. applied[c] = 0 /\ sent[c] = 0
  BY DEF Init
<1> QED
  BY <1>1, <1>2, FS_EmptySet DEF Account

LEMMA AccountsNext ==
    MaxDup = 0 /\ Core /\ Accounts /\ [Next]_vars => Accounts'
<1> SUFFICES ASSUME MaxDup = 0, Core, Accounts, [Next]_vars PROVE Accounts'
  OBVIOUS
<1>1. TypeOK /\ OneRequest /\ \A c \in Calls : IsFiniteSet(Carriers(c))
  BY DEF Core, TypeInv, Accounts, Account
<1>2. \A c \in Calls :
        /\ applied[c] \in Nat /\ sent[c] \in Nat
        /\ Cardinality(Carriers(c)) \in Nat
        /\ applied[c] + Cardinality(Carriers(c)) <= sent[c]
  BY <1>1, FS_CardinalityType DEF Accounts, Account, TypeOK
<1>3. CASE Quiet
  <2>1. OneRequest' /\ \A c \in Calls : Carriers(c)' = Carriers(c)
    BY <1>1, <1>3 DEF Quiet, OneRequest, Carriers
  <2> QED
    BY <1>3, <2>1 DEF Quiet, Accounts, Account
<1>4. ASSUME NEW c \in Calls, NEW s \in Streams, applied' = applied,
             sent' = [sent EXCEPT ![c] = @ + 1], toPlc' = toPlc \/ Adds(c, s)
      PROVE  Accounts'
  <2>1. /\ OneRequest' /\ \A d \in Calls : IsFiniteSet(Carriers(d)')
        /\ \/ Cardinality(Carriers(c)') = Cardinality(Carriers(c))
           \/ Cardinality(Carriers(c)') = Cardinality(Carriers(c)) + 1
        /\ \A d \in Calls \ {c} : Carriers(d)' = Carriers(d)
    <3>1. CASE toPlc' = toPlc
      BY <1>1, <3>1 DEF OneRequest, Carriers
    <3>2. CASE Adds(c, s)
      BY <1>1, <3>2, RequestAdded
    <3> QED
      BY <1>4, <3>1, <3>2
  <2>2. sent'[c] = sent[c] + 1 /\ \A d \in Calls \ {c} : sent'[d] = sent[d]
    BY <1>1, <1>4 DEF TypeOK
  <2>3. ASSUME NEW d \in Calls PROVE Account(d)'
    <3>1. CASE d = c
      BY <1>2, <1>4, <2>1, <2>2, <3>1 DEF Account
    <3>2. CASE d # c
      BY <1>2, <1>4, <2>1, <2>2, <3>2 DEF Account
    <3> QED
      BY <3>1, <3>2
  <2> QED
    BY <2>1, <2>3 DEF Accounts
<1>5. ASSUME NEW c \in Calls, NEW s \in Streams, Takes(c, s), sent' = sent,
             applied' \in {applied, [applied EXCEPT ![c] = @ + 1]}
      PROVE  Accounts'
  <2>1. /\ OneRequest' /\ \A d \in Calls : IsFiniteSet(Carriers(d)')
        /\ Cardinality(Carriers(c)') = Cardinality(Carriers(c)) - 1
        /\ \A d \in Calls \ {c} : Carriers(d)' = Carriers(d)
    BY <1>1, <1>5, RequestTaken
  <2>2. /\ applied'[c] = applied[c] \/ applied'[c] = applied[c] + 1
        /\ \A d \in Calls \ {c} : applied'[d] = applied[d]
    BY <1>1, <1>5 DEF TypeOK
  <2>3. ASSUME NEW d \in Calls PROVE Account(d)'
    <3>1. CASE d = c
      BY <1>2, <1>5, <2>1, <2>2, <3>1 DEF Account
    <3>2. CASE d # c
      BY <1>2, <1>5, <2>1, <2>2, <3>2 DEF Account
    <3> QED
      BY <3>1, <3>2
  <2> QED
    BY <2>1, <2>3 DEF Accounts
<1> QED
  BY <1>1, <1>3, <1>4, <1>5, NetworkStep

LEMMA PromiseInv ==
    MaxDup = 0 => (Spec => [](Core /\ Budget /\ Accounts))
<1> SUFFICES ASSUME MaxDup = 0
             PROVE  Spec => [](Core /\ Budget /\ Accounts)
  OBVIOUS
<1>1. Spec => []Core
  BY CoreCorrect
<1>2. Core => TypeInv
  BY DEF Core
<1>3. Core /\ Accounts /\ [Next]_vars => Accounts'
  BY AccountsNext
<1> QED
  BY <1>1, <1>2, <1>3, BudgetInit, BudgetNext, AccountsInit, PTL DEF Spec

\* With a PLC that answers once, what it carries out was written, and a call
\* writes no more than its attempts allow, for any settings.
THEOREM BoundedResendCorrect == MaxDup = 0 => (Spec => []BoundedResend)
<1>1. Core /\ Budget /\ Accounts => BoundedResend
  <2> SUFFICES ASSUME Core, Budget, Accounts, NEW c \in Calls
               PROVE  applied[c] <= sent[c] /\ sent[c] <= SendLimit
    BY DEF BoundedResend
  <2>1. applied[c] \in Nat /\ sent[c] \in Nat
    BY DEF Core, TypeInv, TypeOK
  <2>2. /\ Cardinality(Carriers(c)) \in Nat
        /\ applied[c] + Cardinality(Carriers(c)) <= sent[c]
    BY FS_CardinalityType DEF Accounts, Account
  <2>3. sent[c] <= SendLimit
    BY WrittenInBudget DEF Core
  <2> QED
    BY <2>1, <2>2, <2>3
<1> QED
  BY <1>1, PromiseInv, PTL

\* All of the inductive invariant that the run checks, in one theorem.
THEOREM ExchangeInvariantCorrect ==
    MaxDup = 0 => (Spec => []ExchangeInvariant)
<1> SUFFICES ASSUME MaxDup = 0 PROVE Spec => []ExchangeInvariant
  OBVIOUS
<1>1. Spec => []Core
  BY CoreCorrect
<1>2. Init => MutexShape
  BY DEF Init, MutexShape, Holding
<1>3. Core => TypeInv
  BY DEF Core
<1>4. Core /\ MutexShape => ExchangeInvariant
  BY DEF Core, TypeInv, ExchangeInvariant
<1> QED
  BY <1>1, <1>2, <1>3, <1>4, MutexNext, PTL DEF Spec

----------------------------------------------------------------------------
\* The order in which a PLC carries out the requests of calls that met no
\* failure: the answer that is ready to be read is that of its last request.
LastInOrder ==
    \A c \in Calls :
        Undisturbed(target[c]) /\ pc[c] = "read" /\ Answered(c, stream[c])
        => last[target[c]] = c

\* A step moves one call at most, and only a call that writes comes to wait,
\* only one that waits returns an answer.
OneMoves(d) ==
    \E p \in Places :
        /\ pc' = [pc EXCEPT ![d] = p]
        /\ p = "read" => Write(d)
        /\ p = "ok" => ReadAnswer(d)
        /\ stream' = stream \/ \E x : stream' = [stream EXCEPT ![d] = x]

LEMMA OneCallMoves ==
    ASSUME [Next]_vars
    PROVE  (pc' = pc /\ stream' = stream) \/ \E d \in Calls : OneMoves(d)
<1> DEFINE Stays == pc' = pc /\ stream' = stream
<1> USE PlacesFacts
<1>1. ASSUME NEW d \in Calls, Start(d) PROVE Stays \/ OneMoves(d)
  BY <1>1 DEF OneMoves, Start, callVars
<1>2. ASSUME NEW d \in Calls, Resolve(d) PROVE Stays \/ OneMoves(d)
  BY <1>2 DEF OneMoves, Resolve, callVars
<1>3. ASSUME NEW d \in Calls, ResolveFails(d) PROVE Stays \/ OneMoves(d)
  BY <1>3 DEF OneMoves, ResolveFails, AttemptFails, callVars
<1>4. ASSUME NEW d \in Calls, AcquireCached(d) PROVE Stays \/ OneMoves(d)
  BY <1>4 DEF OneMoves, AcquireCached, Granted, callVars
<1>5. ASSUME NEW d \in Calls, AcquireFresh(d) PROVE Stays \/ OneMoves(d)
  BY <1>5 DEF OneMoves, AcquireFresh, Granted, callVars
<1>6. ASSUME NEW d \in Calls, Connect(d) PROVE Stays \/ OneMoves(d)
  BY <1>6 DEF OneMoves, Connect, callVars
<1>7. ASSUME NEW d \in Calls, ConnectFails(d) PROVE Stays \/ OneMoves(d)
  BY <1>7 DEF OneMoves, ConnectFails, AttemptFails, callVars
<1>8. ASSUME NEW d \in Calls, Write(d) PROVE Stays \/ OneMoves(d)
  BY <1>8 DEF OneMoves, Write, callVars
<1>9. ASSUME NEW d \in Calls, WriteFails(d) PROVE Stays \/ OneMoves(d)
  BY <1>9 DEF OneMoves, WriteFails, ExchangeFails, AttemptFails, DropStream,
              callVars
<1>10. ASSUME NEW d \in Calls, ReadAnswer(d) PROVE Stays \/ OneMoves(d)
  BY <1>10 DEF OneMoves, ReadAnswer, DropStream, callVars
<1>11. ASSUME NEW d \in Calls, ReadOther(d) PROVE Stays \/ OneMoves(d)
  BY <1>11 DEF OneMoves, ReadOther, callVars
<1>12. ASSUME NEW d \in Calls, ReadFails(d) PROVE Stays \/ OneMoves(d)
  BY <1>12 DEF OneMoves, ReadFails, ExchangeFails, AttemptFails, DropStream,
               callVars
<1>13. ASSUME NEW d \in Calls, Wake(d) PROVE Stays \/ OneMoves(d)
  BY <1>13 DEF OneMoves, Wake, callVars
<1>14. ASSUME NEW d \in Calls, Cancel(d) PROVE Stays \/ OneMoves(d)
  BY <1>14 DEF OneMoves, Cancel, DropStream, callVars
<1>15. ASSUME NEW s \in Streams, Environment(s) PROVE Stays
  BY <1>15 DEF Environment, Execute, PeerClose, AnswerTwice, callVars, vars
<1>16. CASE Finished \/ UNCHANGED vars
  BY <1>16 DEF Finished, vars, callVars
<1> QED
  BY <1>1, <1>2, <1>3, <1>4, <1>5, <1>6, <1>7, <1>8, <1>9,
     <1>10, <1>11, <1>12, <1>13, <1>14, <1>15, <1>16 DEF Next, Proceed

\* A target that was disturbed stays so: no write is taken back, and a call
\* that gave up waiting writes again before it waits again.
LEMMA DisturbedStays ==
    ASSUME Core, [Next]_vars, NEW t \in Targets, Undisturbed(t)'
    PROVE  target' = target /\ Undisturbed(t)
<1>1. target' = target
  BY DEF Next, Start, Proceed, Cancel, Environment, Finished, Resolve,
         ResolveFails, AcquireCached, AcquireFresh, Granted, Connect,
         ConnectFails, Write, WriteFails, ReadAnswer, ReadOther, ReadFails,
         ExchangeFails, Wake, Execute, PeerClose, AnswerTwice, callVars, vars
<1> SUFFICES ASSUME NEW c \in Calls, target[c] = t, sent[c] > 0
             PROVE  sent[c] = 1 /\ pc[c] \in {"read", "ok"}
  BY <1>1 DEF Undisturbed
<1>2. sent[c] \in Nat /\ (sent'[c] > 0 => sent'[c] = 1 /\ pc'[c] \in {"read", "ok"})
  BY <1>1 DEF Undisturbed, Core, TypeInv, TypeOK
<1>3. CASE \E d \in Calls : Write(d)
  <2>1. PICK d \in Calls : Write(d)
    BY <1>3
  <2>2. CASE d = c
    <3>1. sent'[c] = sent[c] + 1
      BY <2>1, <2>2 DEF Write, Core, TypeInv, TypeOK
    <3> QED
      BY <1>2, <3>1
  <2>3. CASE d # c
    <3>1. sent'[c] = sent[c] /\ pc'[c] = pc[c]
      BY <2>1, <2>3 DEF Write, Core, TypeInv, TypeOK
    <3> QED
      BY <1>2, <3>1
  <2> QED
    BY <2>2, <2>3
<1>4. CASE ~ \E d \in Calls : Write(d)
  <2>1. sent' = sent
    BY <1>4 DEF Next, Start, Proceed, Cancel, Environment, Finished, Resolve,
         ResolveFails, AcquireCached, AcquireFresh, Granted, Connect,
         ConnectFails, WriteFails, ReadAnswer, ReadOther, ReadFails,
         ExchangeFails, Wake, Execute, PeerClose, AnswerTwice, plcVars, vars
  <2>2. pc' = pc \/ \E d \in Calls, p \in Places :
                       /\ pc' = [pc EXCEPT ![d] = p]
                       /\ p = "read" => FALSE
                       /\ p = "ok" => pc[d] = "read"
    BY <1>4, OneCallMoves DEF OneMoves, ReadAnswer
  <2>3. pc'[c] \in {"read", "ok"} => pc[c] \in {"read", "ok"}
    BY <2>2 DEF Core, TypeInv, TypeOK
  <2> QED
    BY SMTT(20), <1>2, <2>1, <2>3
<1> QED
  BY SMTT(20), <1>3, <1>4

\* The calls that can have a request in transit to an undisturbed target are
\* those that wait for their answer.
LEMMA CarriedIsAwaited ==
    ASSUME Core, Accounts, NEW d \in Calls, NEW s \in Streams,
           toPlc[s] = <<d>>, Undisturbed(target[d])
    PROVE  pc[d] = "read"
<1>1. IsFiniteSet(Carriers(d)) /\ s \in Carriers(d)
  BY CarriersOf DEF Accounts, Account
<1>2. Cardinality(Carriers(d)) \in Nat /\ Cardinality(Carriers(d)) # 0
  BY <1>1, FS_CardinalityType, FS_EmptySet
<1>3. /\ applied[d] \in Nat /\ sent[d] \in Nat
      /\ applied[d] + Cardinality(Carriers(d)) <= sent[d]
  BY DEF Accounts, Account, Core, TypeInv, TypeOK
<1>4. sent[d] = 1 /\ pc[d] \in {"read", "ok"} /\ applied[d] = 0
  BY <1>2, <1>3 DEF Undisturbed
<1>5. pc[d] # "ok"
  BY <1>4 DEF Core, OwnAnswer
<1> QED
  BY <1>4, <1>5

\* Steps of the client leave no answer on a connection that had none.
LEMMA NoNewAnswer ==
    ASSUME Core, NEW s \in Streams, fromPlc[s] = <<>>, fromPlc'[s] # <<>>,
           [Next]_vars
    PROVE  \E r \in Streams : Execute(r)
<1>1. fromPlc \in [Streams -> Seq(Calls)]
  BY DEF Core, TypeInv, TypeOK
<1>2. Len(fromPlc[s]) = 0
  OBVIOUS
<1>3. ASSUME NEW r \in Streams, fromPlc' = [fromPlc EXCEPT ![r] = <<>>]
      PROVE  FALSE
  BY <1>1, <1>3
<1>4. ASSUME NEW c \in Calls, ReadAnswer(c) \/ ReadOther(c) PROVE FALSE
  <2>1. PICK k \in 1..Len(fromPlc[stream[c]]) :
           fromPlc' = [fromPlc EXCEPT ![stream[c]] = Unread(@, k)]
    BY <1>4 DEF ReadAnswer, ReadOther
  <2>2. stream[c] # s
    BY <1>2, <2>1
  <2> QED
    BY <1>1, <2>1, <2>2
<1>5. ASSUME NEW c \in Calls, AcquireFresh(c) PROVE FALSE
  BY <1>1, <1>5 DEF AcquireFresh
<1>6. ASSUME NEW c \in Calls, DropStream(c) PROVE FALSE
  BY <1>1, <1>6 DEF DropStream
<1>7. ASSUME NEW r \in Streams, PeerClose(r) \/ AnswerTwice(r) PROVE FALSE
  <2>1. CASE PeerClose(r)
    BY <1>1, <1>3, <2>1 DEF PeerClose
  <2>2. CASE AnswerTwice(r)
    BY <1>1, <2>2 DEF AnswerTwice
  <2> QED
    BY <1>7, <2>1, <2>2
<1>8. fromPlc' # fromPlc
  OBVIOUS
<1>9. ASSUME NEW c \in Calls, Proceed(c) \/ Start(c) \/ Cancel(c) PROVE FALSE
  BY <1>4, <1>5, <1>6, <1>8, <1>9
  DEF Proceed, Start, Cancel, Resolve, ResolveFails, AcquireCached, Connect,
      ConnectFails, Write, WriteFails, ReadFails, ExchangeFails, Wake
<1>10. ~UNCHANGED vars
  BY <1>8 DEF vars
<1> QED
  BY <1>7, <1>9, <1>10 DEF Next, Environment, Finished

\* The PLC carries out the request of d.
LEMMA OrderExecute ==
    ASSUME Core, MutexShape, Accounts, LastInOrder, NEW s \in Streams, Execute(s),
           NEW c \in Calls, Undisturbed(target[c]), pc[c] = "read",
           Answered(c, stream[c])'
    PROVE  last'[target[c]] = c
<1>1. PICK d \in Calls : toPlc[s] = <<d>>
  BY DEF Execute, Accounts, OneRequest
<1>2. /\ Head(toPlc[s]) = d /\ Tail(toPlc[s]) = <<>>
      /\ applied' = [applied EXCEPT ![d] = @ + 1]
      /\ last' = [last EXCEPT ![target[d]] = d]
      /\ fromPlc' = IF Open(s) THEN [fromPlc EXCEPT ![s] = Append(@, d)]
                    ELSE fromPlc
      /\ toPlc' = [toPlc EXCEPT ![s] = Tail(@)]
      /\ stream' = stream
  BY <1>1 DEF Execute, callVars
<1>3. /\ target \in [Calls -> Targets] /\ last \in [Targets -> Calls \cup {None}]
      /\ applied \in [Calls -> Nat]
      /\ toPlc \in [Streams -> Seq(Calls)] /\ fromPlc \in [Streams -> Seq(Calls)]
      /\ stream[c] \in Streams
  BY DEF Core, TypeInv, TypeOK, CallShape
<1>4. CASE d = c
  BY <1>2, <1>3, <1>4
<1>5. CASE d # c
  <2>1. target[d] # target[c]
    <3>1. SUFFICES ASSUME target[d] = target[c] PROVE FALSE
      OBVIOUS
    <3>2. pc[d] = "read"
      BY <1>1, <3>1, CarriedIsAwaited
    <3> QED
      BY <1>5, <3>1, <3>2 DEF MutexShape, Holding
  <2>2. last'[target[c]] = last[target[c]] /\ applied'[c] = applied[c]
    BY <1>2, <1>3, <1>5, <2>1
  <2>3. stream[c] # s
    <3>1. SUFFICES ASSUME stream[c] = s PROVE FALSE
      OBVIOUS
    <3>2. Open(s)
      BY <3>1 DEF Open
    <3>3. fromPlc'[s] = Append(fromPlc[s], d)
      BY <1>2, <1>3, <3>2
    <3>4. fromPlc'[s] = <<c>>
      BY <1>2, <3>1 DEF Answered
    <3>5. fromPlc[s] \in Seq(Calls)
      BY <1>3
    <3>6. Len(Append(fromPlc[s], d)) = Len(fromPlc[s]) + 1
      BY <3>5
    <3>7. Len(fromPlc[s]) = 0
      BY <3>3, <3>4, <3>5, <3>6
    <3>8. Append(fromPlc[s], d)[1] = d
      BY <3>5, <3>7
    <3> QED
      BY <1>5, <3>3, <3>4, <3>8
  <2>4. Answered(c, stream[c])
    BY <1>2, <1>3, <2>2, <2>3 DEF Answered
  <2> QED
    BY <2>2, <2>4 DEF LastInOrder
<1> QED
  BY <1>4, <1>5

LEMMA OrderNext ==
    ASSUME MaxDup = 0, Core, Core', MutexShape, Accounts, LastInOrder,
           [Next]_vars
    PROVE  LastInOrder'
<1> SUFFICES ASSUME NEW c \in Calls, Undisturbed(target[c])', pc'[c] = "read",
                    Answered(c, stream[c])'
             PROVE  last'[target'[c]] = c
  BY DEF LastInOrder
<1>1. target' = target /\ Undisturbed(target[c])
  <2>1. target' = target
    BY DEF Next, Start, Proceed, Cancel, Environment, Finished, Resolve,
         ResolveFails, AcquireCached, AcquireFresh, Granted, Connect,
         ConnectFails, Write, WriteFails, ReadAnswer, ReadOther, ReadFails,
         ExchangeFails, Wake, Execute, PeerClose, AnswerTwice, callVars, vars
  <2>2. target[c] \in Targets /\ Undisturbed(target[c])'
    BY <2>1 DEF Core, TypeInv, TypeOK, Undisturbed
  <2> QED
    BY SMTT(20), <2>1, <2>2, DisturbedStays
<1>2. fromPlc'[stream'[c]] = <<c>> /\ <<c>> # <<>>
  BY DEF Answered
<1>3. ASSUME NEW s \in Streams, Execute(s) PROVE last'[target'[c]] = c
  <2>1. pc[c] = "read"
    BY <1>3 DEF Execute
  <2> QED
    BY <1>1, <1>3, <2>1, OrderExecute
<1>4. CASE ~ \E s \in Streams : Execute(s)
  <2>1. last' = last /\ applied' = applied
    BY <1>4 DEF Next, Start, Proceed, Cancel, Environment, Finished, Resolve,
         ResolveFails, AcquireCached, AcquireFresh, Granted, Connect,
         ConnectFails, Write, WriteFails, ReadAnswer, ReadOther, ReadFails,
         ExchangeFails, Wake, PeerClose, AnswerTwice, plcVars, vars
  <2>2. ~Write(c)
    <3>1. SUFFICES ASSUME Write(c) PROVE FALSE
      OBVIOUS
    <3>2. stream' = stream /\ fromPlc' = fromPlc /\ stream[c] # None
      BY <3>1 DEF Write, callVars, Core, TypeInv, CallShape
    <3>3. fromPlc[stream[c]] = <<>>
      BY <3>1, <3>2 DEF Write, Core, Traffic, OneAtATime, InOrder, Silent
    <3> QED
      BY <1>2, <3>2, <3>3
  <2>3. \/ pc' = pc /\ stream' = stream
        \/ \E d \in Calls, p \in Places :
              /\ pc' = [pc EXCEPT ![d] = p]
              /\ p = "read" => Write(d)
              /\ stream' = stream \/ \E x : stream' = [stream EXCEPT ![d] = x]
    BY OneCallMoves, Zenon DEF OneMoves
  <2>4. pc[c] = "read" /\ stream'[c] = stream[c]
    BY <2>2, <2>3 DEF Core, TypeInv, TypeOK
  <2>5. stream[c] \in Streams /\ InOrder(c)
    BY <2>4 DEF Core, TypeInv, TypeOK, CallShape, Traffic, OneAtATime
  <2>6. Answered(c, stream[c])
    <3>1. fromPlc'[stream[c]] # <<>>
      BY <1>2, <2>4
    <3>2. fromPlc[stream[c]] # <<>>
      BY <1>4, <2>5, <3>1, NoNewAnswer
    <3> QED
      BY <2>5, <3>2 DEF InOrder, Silent, Asked
  <2> QED
    BY SMTT(20), <1>1, <2>1, <2>4, <2>6 DEF LastInOrder
<1> QED
  BY <1>3, <1>4

LEMMA OrderInv ==
    MaxDup = 0 => (Spec => [](Core /\ MutexShape /\ Accounts /\ LastInOrder))
<1> SUFFICES ASSUME MaxDup = 0
             PROVE  Spec => [](Core /\ MutexShape /\ Accounts /\ LastInOrder)
  OBVIOUS
<1>1. Spec => [](Core /\ Accounts)
  BY PromiseInv, PTL
<1>2. Init => MutexShape /\ LastInOrder
  BY DEF Init, MutexShape, Holding, LastInOrder
<1>3. Core => TypeInv
  BY DEF Core
<1>4. Core /\ Core' /\ MutexShape /\ Accounts /\ LastInOrder /\ [Next]_vars
          => LastInOrder'
  BY OrderNext
<1> QED
  BY <1>1, <1>2, <1>3, <1>4, MutexNext, PTL DEF Spec

\* With a PLC that answers once, calls to one target that met no failure take
\* effect in the order in which they return: when one of them returns Ok, its
\* request is the last that the PLC has carried out.
THEOREM TakesEffectInOrderCorrect ==
    MaxDup = 0 => (Spec => TakesEffectInOrder)
<1> SUFFICES ASSUME MaxDup = 0 PROVE Spec => TakesEffectInOrder
  OBVIOUS
<1> DEFINE InTurn == \A c \in Calls :
                         pc[c] # "ok" /\ pc'[c] = "ok" /\ Undisturbed(target[c])
                         => last[target[c]] = c
<1>1. Core /\ LastInOrder /\ [Next]_vars => InTurn
  <2> SUFFICES ASSUME Core, LastInOrder, [Next]_vars, NEW c \in Calls,
                      pc[c] # "ok", pc'[c] = "ok", Undisturbed(target[c])
               PROVE  last[target[c]] = c
    OBVIOUS
  <2>1. pc' = pc \/ \E d \in Calls, p \in Places :
                       /\ pc' = [pc EXCEPT ![d] = p]
                       /\ p = "ok" => ReadAnswer(d)
    BY OneCallMoves, Zenon DEF OneMoves
  <2>2. ReadAnswer(c)
    BY <2>1 DEF Core, TypeInv, TypeOK
  <2>3. /\ pc[c] = "read" /\ stream[c] # None
        /\ \E k \in 1..Len(fromPlc[stream[c]]) : TRUE
    BY <2>2 DEF ReadAnswer, Core, TypeInv, CallShape
  <2>4. fromPlc[stream[c]] # <<>>
    BY <2>3
  <2>5. Answered(c, stream[c])
    BY <2>3, <2>4 DEF Core, Traffic, OneAtATime, InOrder, Silent, Asked
  <2> QED
    BY <2>3, <2>5 DEF LastInOrder
<1>2. [](Core /\ LastInOrder) /\ [][Next]_vars => [][InTurn]_vars
  BY <1>1, PTL
<1> QED
  BY <1>2, OrderInv, PTL DEF Spec, TakesEffectInOrder

----------------------------------------------------------------------------
\* The refinement of AtLeastOnce.
statuses == [c \in Calls |-> StatusOf(c)]
copiesOf == [c \in Calls |-> Cardinality(Carriers(c))]

LEMMA StatusFacts ==
    ASSUME NEW c \in Calls
    PROVE  /\ pc[c] = "idle" => StatusOf(c) = "new"
           /\ pc[c] \in Active => StatusOf(c) = "running"
           /\ pc[c] = "ok" => StatusOf(c) = "ok"
           /\ pc[c] \in {"err", "cancelled"} => StatusOf(c) = "failed"
BY DEF StatusOf, Active, Holding

LEMMA StatusFactsNext ==
    ASSUME NEW c \in Calls
    PROVE  /\ pc'[c] \in Active => StatusOf(c)' = "running"
           /\ pc'[c] = "ok" => StatusOf(c)' = "ok"
           /\ pc'[c] \in {"err", "cancelled"} => StatusOf(c)' = "failed"
BY DEF StatusOf, Active, Holding

LEMMA StatusMoved ==
    ASSUME TypeOK, NEW c \in Calls, NEW p, pc' = [pc EXCEPT ![c] = p]
    PROVE  /\ pc'[c] = p
           /\ statuses' = [statuses EXCEPT ![c] = StatusOf(c)']
<1>1. pc'[c] = p /\ \A d \in Calls \ {c} : pc'[d] = pc[d]
  BY DEF TypeOK
<1>2. \A d \in Calls \ {c} : StatusOf(d)' = StatusOf(d)
  BY <1>1 DEF StatusOf
<1> QED
  BY <1>1, <1>2 DEF statuses

\* The moves of a call in a step that leaves the network alone.
LEMMA QuietMove ==
    ASSUME Core, Core', Quiet, [Next]_vars
    PROVE  \/ pc' = pc
           \/ \E c \in Calls, p \in Places :
                 /\ pc' = [pc EXCEPT ![c] = p]
                 /\ \/ pc[c] = "idle" /\ p \in {"err", "resolve"}
                    \/ pc[c] \in Active /\ p \in Active \cup {"err", "cancelled"}
                    \/ pc[c] \in Active /\ p = "ok" /\ applied[c] > 0
<1> DEFINE Moves(c, p) ==
        /\ pc' = [pc EXCEPT ![c] = p]
        /\ \/ pc[c] = "idle" /\ p \in {"err", "resolve"}
           \/ pc[c] \in Active /\ p \in Active \cup {"err", "cancelled"}
           \/ pc[c] \in Active /\ p = "ok" /\ applied[c] > 0
<1>1. ASSUME NEW c \in Calls, Start(c) PROVE \E p \in Places : Moves(c, p)
  BY <1>1, PlacesFacts DEF Start
<1>2. ASSUME NEW c \in Calls, Cancel(c) PROVE Moves(c, "cancelled")
  BY <1>2 DEF Cancel
<1>3. ASSUME NEW c \in Calls, ReadAnswer(c) PROVE Moves(c, "ok")
  <2>1. pc[c] \in Active /\ pc' = [pc EXCEPT ![c] = "ok"] /\ applied' = applied
    BY <1>3 DEF ReadAnswer, Active, Holding, Quiet
  <2>2. pc'[c] = "ok"
    BY <2>1 DEF Core, TypeInv, TypeOK
  <2>3. applied'[c] > 0
    BY <2>2 DEF Core, OwnAnswer
  <2> QED
    BY <2>1, <2>3
<1>4. ASSUME NEW c \in Calls, Proceed(c), ~ReadAnswer(c)
      PROVE  pc' = pc \/ \E p \in Active \cup {"err"} :
                 pc[c] \in Active /\ pc' = [pc EXCEPT ![c] = p]
  BY <1>4
  DEF Proceed, Resolve, ResolveFails, AcquireCached, AcquireFresh, Granted,
      Connect, ConnectFails, Write, WriteFails, ReadOther, ReadFails,
      ExchangeFails, AttemptFails, Wake, Active, Holding
<1>5. ASSUME NEW c \in Calls, Proceed(c)
      PROVE  pc' = pc \/ \E p \in Places : Moves(c, p)
  BY <1>3, <1>4, <1>5, PlacesFacts DEF Places
<1>6. ASSUME NEW s \in Streams, Environment(s) PROVE pc' = pc
  BY <1>6 DEF Environment, Execute, PeerClose, AnswerTwice
<1>7. CASE UNCHANGED vars
  BY <1>7 DEF vars
<1> QED
  BY <1>1, <1>2, <1>5, <1>6, <1>7, PlacesFacts DEF Next, Finished

LEMMA PromiseInit == Init => Promise!Init
<1> SUFFICES ASSUME Init
             PROVE  /\ statuses = [c \in Calls |-> "new"]
                    /\ sent = [c \in Calls |-> 0]
                    /\ copiesOf = [c \in Calls |-> 0]
                    /\ applied = [c \in Calls |-> 0]
  BY DEF Promise!Init, statuses, copiesOf
<1>1. \A c \in Calls : pc[c] = "idle" /\ Carriers(c) = {}
  BY DEF Init, Carriers
<1> QED
  BY <1>1, StatusFacts, FS_EmptySet DEF Init, statuses, copiesOf

LEMMA PromiseStep ==
    ASSUME MaxDup = 0, Core, Core', Budget, Accounts, [Next]_vars
    PROVE  [Promise!Next]_(Promise!vars)
<1> SUFFICES \/ \E c \in Calls :
                   \/ Promise!Begin(c) \/ Promise!Send(c) \/ Promise!Lose(c)
                   \/ Promise!TakeEffect(c) \/ Promise!Succeed(c)
                   \/ Promise!Fail(c)
             \/ /\ statuses' = statuses /\ copiesOf' = copiesOf
                /\ sent' = sent /\ applied' = applied
  BY DEF Promise!Next, Promise!vars, statuses, copiesOf
<1>1. TypeOK /\ OneRequest /\ \A c \in Calls : IsFiniteSet(Carriers(c))
  BY DEF Core, TypeInv, Accounts, Account
<1>2. \A c \in Calls : statuses[c] = StatusOf(c)
  BY DEF statuses
<1>3. CASE Quiet
  <2>1. copiesOf' = copiesOf /\ sent' = sent /\ applied' = applied
    BY <1>3 DEF Quiet, copiesOf, Carriers
  <2>2. CASE pc' = pc
    BY <2>1, <2>2 DEF statuses, StatusOf
  <2>3. ASSUME NEW c \in Calls, NEW p \in Places, pc' = [pc EXCEPT ![c] = p],
               \/ pc[c] = "idle" /\ p \in {"err", "resolve"}
               \/ pc[c] \in Active /\ p \in Active \cup {"err", "cancelled"}
               \/ pc[c] \in Active /\ p = "ok" /\ applied[c] > 0
        PROVE  \/ statuses' = statuses
               \/ Promise!Begin(c) \/ Promise!Succeed(c) \/ Promise!Fail(c)
    <3>1. /\ pc'[c] = p
          /\ statuses' = [statuses EXCEPT ![c] = StatusOf(c)']
      BY <1>1, <2>3, StatusMoved
    <3>2. CASE pc[c] = "idle" /\ p \in {"err", "resolve"}
      <4>1. StatusOf(c) = "new" /\ StatusOf(c)' \in {"running", "failed"}
        BY <3>1, <3>2, StatusFacts, StatusFactsNext DEF Active
      <4> QED
        BY <1>2, <2>1, <3>1, <4>1 DEF Promise!Begin, statuses, copiesOf
    <3>3. CASE pc[c] \in Active /\ p \in Active
      <4>1. StatusOf(c) = "running" /\ StatusOf(c)' = "running"
        BY <3>1, <3>3, StatusFacts, StatusFactsNext
      <4> QED
        BY <3>1, <4>1 DEF statuses
    <3>4. CASE pc[c] \in Active /\ p \in {"err", "cancelled"}
      <4>1. StatusOf(c) = "running" /\ StatusOf(c)' = "failed"
        BY <3>1, <3>4, StatusFacts, StatusFactsNext
      <4> QED
        BY <1>2, <2>1, <3>1, <4>1 DEF Promise!Fail, statuses, copiesOf
    <3>5. CASE pc[c] \in Active /\ p = "ok" /\ applied[c] > 0
      <4>1. StatusOf(c) = "running" /\ StatusOf(c)' = "ok"
        BY <3>1, <3>5, StatusFacts, StatusFactsNext
      <4> QED
        BY <1>2, <2>1, <3>1, <3>5, <4>1 DEF Promise!Succeed, statuses, copiesOf
    <3> QED
      BY <2>3, <3>2, <3>3, <3>4, <3>5
  <2> QED
    BY <1>3, <2>1, <2>2, <2>3, QuietMove
<1>4. ASSUME NEW c \in Calls, NEW s \in Streams, Write(c), applied' = applied,
             sent' = [sent EXCEPT ![c] = @ + 1], toPlc' = toPlc \/ Adds(c, s)
      PROVE  Promise!Send(c)
  <2>1. pc[c] = "write" /\ pc' = [pc EXCEPT ![c] = "read"]
    BY <1>4 DEF Write
  <2>2. /\ StatusOf(c) = "running"
        /\ statuses' = [statuses EXCEPT ![c] = "running"]
    <3>1. pc'[c] = "read" /\ statuses' = [statuses EXCEPT ![c] = StatusOf(c)']
      BY <1>1, <2>1, StatusMoved
    <3>2. StatusOf(c) = "running" /\ StatusOf(c)' = "running"
      BY <2>1, <3>1, StatusFacts, StatusFactsNext DEF Active, Holding
    <3> QED
      BY <3>1, <3>2
  <2>3. statuses' = statuses
    BY <2>2 DEF statuses
  <2>4. sent[c] < SendLimit
    BY <1>1, <2>1, BudgetFacts, RoundsFacts
    DEF WithinBudget, Active, Holding
  <2>5. copiesOf' \in {copiesOf, [copiesOf EXCEPT ![c] = @ + 1]}
    <3>1. CASE toPlc' = toPlc
      BY <3>1 DEF copiesOf, Carriers
    <3>2. CASE Adds(c, s)
      <4>1. /\ Cardinality(Carriers(c)') = Cardinality(Carriers(c)) + 1
            /\ \A d \in Calls \ {c} : Carriers(d)' = Carriers(d)
        BY <1>1, <3>2, RequestAdded
      <4> QED
        BY <4>1 DEF copiesOf
    <3> QED
      BY <1>4, <3>1, <3>2
  <2> QED
    BY <1>2, <1>4, <2>2, <2>3, <2>4, <2>5
    DEF Promise!Send, statuses, copiesOf
<1>5. ASSUME NEW c \in Calls, NEW s \in Streams, Takes(c, s), pc' = pc,
             sent' = sent, applied' \in {applied, [applied EXCEPT ![c] = @ + 1]}
      PROVE  Promise!Lose(c) \/ Promise!TakeEffect(c)
  <2>1. /\ Cardinality(Carriers(c)) \in Nat \ {0}
        /\ Cardinality(Carriers(c)') = Cardinality(Carriers(c)) - 1
        /\ \A d \in Calls \ {c} : Carriers(d)' = Carriers(d)
    BY <1>1, <1>5, RequestTaken
  <2>2. copiesOf[c] > 0 /\ copiesOf' = [copiesOf EXCEPT ![c] = @ - 1]
    <3>1. copiesOf[c] = Cardinality(Carriers(c))
      BY DEF copiesOf
    <3>2. copiesOf[c] > 0
      BY <2>1, <3>1
    <3>3. copiesOf' = [copiesOf EXCEPT ![c] = Cardinality(Carriers(c)')]
      BY <2>1 DEF copiesOf
    <3> QED
      BY <2>1, <3>1, <3>2, <3>3
  <2>3. statuses' = statuses
    BY <1>5 DEF statuses, StatusOf
  <2> QED
    BY <1>5, <2>2, <2>3 DEF Promise!Lose, Promise!TakeEffect, statuses, copiesOf
<1> QED
  BY <1>1, <1>3, <1>4, <1>5, NetworkStep

\* With a PLC that answers once, a call is an at-least-once operation: each
\* copy of a request is lost or takes effect once, no call sends more than
\* SendLimit, and none succeeds before it has taken effect.
THEOREM KeepsPromiseCorrect == MaxDup = 0 => (Spec => KeepsPromise)
<1> SUFFICES ASSUME MaxDup = 0 PROVE Spec => KeepsPromise
  OBVIOUS
<1>1. Spec => [](Core /\ Budget /\ Accounts)
  BY PromiseInv
<1>2. Core /\ Core' /\ Budget /\ Accounts /\ [Next]_vars
          => [Promise!Next]_(Promise!vars)
  BY PromiseStep
<1> QED
  BY <1>1, <1>2, PromiseInit, PTL DEF Spec, KeepsPromise, Promise!Spec
====
