------------------------- MODULE FrameScannerProofs -------------------------
(***************************************************************************)
(* Theorems about FrameScanner: whatever bytes a PLC sends and however     *)
(* they are cut into reads, what the loop returns is a whole frame with    *)
(* the serial of the request; and among answers whose headers arrive whole *)
(* the loop keeps its place, finds the first answer, and returns it as the *)
(* PLC sent it.                                                            *)
(***************************************************************************)
EXTENDS FrameScanner, FrameFacts

(***************************************************************************)
(* Sequences of bytes.                                                     *)
(***************************************************************************)
LEMMA Piece ==
    ASSUME NEW s \in Seq(Byte), NEW m \in 1..(Len(s) + 1), NEW n \in 0..Len(s)
    PROVE  SubSeq(s, m, n) \in Seq(Byte)
<1>1. \A i \in m..n : s[i] \in Byte
  OBVIOUS
<1> QED BY <1>1, SubSeqProperties

LEMMA Rest ==
    ASSUME NEW s \in Seq(Byte), s # <<>>
    PROVE  Tail(s) \in Seq(Byte)
BY HeadTailProperties

\* A sequence without its first elements.
LEMMA CutFront ==
    ASSUME NEW b \in Seq(Byte), NEW m \in 0..Len(b),
           NEW c, c = SubSeq(b, m + 1, Len(b))
    PROVE  /\ c \in Seq(Byte) /\ Len(c) = Len(b) - m
           /\ \A p \in 1..Len(c) : c[p] = b[m + p]
<1>1. Len(b) \in Nat /\ m + 1 \in 1..(Len(b) + 1)
  OBVIOUS
<1>2. \A i \in (m + 1)..Len(b) : b[i] \in Byte
  BY <1>1
<1>3. /\ c \in Seq(Byte)
      /\ Len(c) = IF m + 1 <= Len(b) THEN Len(b) - (m + 1) + 1 ELSE 0
      /\ \A i \in 1..(Len(b) - (m + 1) + 1) : c[i] = b[(m + 1) + i - 1]
  BY <1>1, <1>2, SubSeqProperties
<1>4. Len(c) = Len(b) - m
  BY <1>1, <1>3
<1>5. ASSUME NEW p \in 1..Len(c) PROVE c[p] = b[m + p]
  <2>1. p \in 1..(Len(b) - (m + 1) + 1) /\ (m + 1) + p - 1 = m + p
    BY SMTT(20), <1>1, <1>4
  <2> QED BY <1>3, <2>1
<1> QED BY <1>3, <1>4, <1>5

(***************************************************************************)
(* The serial of the request.                                              *)
(***************************************************************************)

LEMMA SerialsAre == \A v \in Serials : v \in Nat \ {0} /\ v <= 65535
BY SMTT(60) DEF Serials

\* The transport looks for the serial that build_mc_payload has written.
LEMMA ExpectedIsSerial == Format = "MC4E" => Expected = Serial
<1> SUFFICES ASSUME Format = "MC4E" PROVE Expected = Serial
  OBVIOUS
<1>1. Serial \in Word16 /\ 3 \in Word16 /\ 4096 \in Word16
  BY ScannerAssumption, SerialsAre, Word16Is
<1>2. RequestSubheader \in Seq(Byte) /\ Len(RequestSubheader) = 2
  BY DEF RequestSubheader, Byte
<1>3. HighLow(4096) \in Seq(Byte) /\ Len(HighLow(4096)) = 2
  BY <1>1, WordBytesOf
<1>4. <<1>> \in Seq(Byte)
  BY DEF Byte
<1>5. Payload = Header(RequestSubheader, Serial, 3, HighLow(4096)) \o <<1>>
  BY DEF Payload, BuildPayload, Header
<1>6. ASSUME NEW n \in Word16, NEW timer \in Seq(Byte), Len(timer) = 2,
             NEW d \in Seq(Byte)
      PROVE  ExpectedSerial(Header(RequestSubheader, Serial, n, timer) \o d)
                 = Serial
  BY <1>1, <1>2, <1>6, FrameSerial
<1>7. ExpectedSerial(Header(RequestSubheader, Serial, 3, HighLow(4096)) \o <<1>>)
          = Serial
  BY <1>1, <1>3, <1>4, <1>6
<1> QED BY <1>5, <1>7 DEF Expected

(***************************************************************************)
(* The bytes of the items.                                                 *)
(***************************************************************************)

\* What FrameScanner assumes of the items makes them bytes in both formats.
LEMMA ItemBytes ==
    ASSUME NEW item, IsItem(item)
    PROVE  Encoded(item) \in Seq(Byte)
<1>1. CASE item.kind = "noise"
  BY <1>1 DEF IsItem, Encoded
<1>2. CASE item.kind = "answer"
  <2>1. /\ item.serial \in Word16 /\ item.endCode \in Word16
        /\ item.data \in Seq(Byte)
    BY <1>2 DEF IsItem
  <2>2. 2 + Len(item.data) \in Word16
    BY <1>2, Word16Is DEF IsItem, MaxData, MaxFrameLen
  <2>3. /\ LowHigh(item.serial) \in Seq(Byte)
        /\ LowHigh(2 + Len(item.data)) \in Seq(Byte)
        /\ LowHigh(item.endCode) \in Seq(Byte)
    BY <2>1, <2>2, WordBytesOf
  <2>4. /\ ResponseSubheader \in Seq(Byte) /\ Subheader3E \in Seq(Byte)
        /\ <<0, 0>> \in Seq(Byte) /\ DefaultRoute \in Seq(Byte)
    BY RouteIsBytes DEF ResponseSubheader, Subheader3E, Byte
  <2> DEFINE front == IF Format = "MC4E"
                      THEN ResponseSubheader \o LowHigh(item.serial) \o <<0, 0>>
                      ELSE Subheader3E
  <2>5. front \in Seq(Byte)
    BY <2>3, <2>4, ConcatProperties
  <2>6. Encoded(item) = front \o DefaultRoute \o LowHigh(2 + Len(item.data))
                        \o LowHigh(item.endCode) \o item.data
    BY <1>2 DEF Encoded, Answer
  <2> HIDE DEF front
  <2> QED BY <2>1, <2>3, <2>4, <2>5, <2>6, ConcatProperties
<1> QED BY <1>1, <1>2 DEF IsItem

\* The parts of an answer, and its length.
IsAnswer(e, item) ==
    /\ e \in Seq(Byte)
    /\ Len(item.data) \in Nat /\ Len(e) = 15 + Len(item.data)
    /\ Len(e) <= MaxFrameLen
    /\ e[1] = 212 /\ e[6] = 0 /\ e[7] = 0
    /\ item.serial \in Nat /\ Word(e, 2) = item.serial
    /\ Word(e, 11) = 2 + Len(item.data)
    /\ item.endCode \in Nat /\ Word(e, 13) = item.endCode
    /\ SubSeq(e, 16, Len(e)) = item.data

LEMMA AnswerParts ==
    ASSUME Format = "MC4E", NEW item, IsItem(item), item.kind = "answer"
    PROVE  IsAnswer(Encoded(item), item)
<1>0. PICK e : e = Encoded(item)
  OBVIOUS
<1>1. /\ item.serial \in Word16 /\ item.endCode \in Word16
      /\ item.data \in Seq(Byte)
  BY DEF IsItem
<1>2. /\ Len(item.data) \in Nat
      /\ 2 + Len(item.data) \in Word16
      /\ 15 + Len(item.data) <= MaxFrameLen
  BY <1>1, Word16Is DEF IsItem, MaxData, MaxFrameLen
<1>3. ResponseSubheader \in Seq(Byte) /\ Len(ResponseSubheader) = 2
  BY DEF ResponseSubheader, Byte
<1>4. /\ LowHigh(item.endCode) \in Seq(Byte) /\ Len(LowHigh(item.endCode)) = 2
      /\ LowHigh(item.endCode)[1] + 256 * LowHigh(item.endCode)[2]
            = item.endCode
  BY <1>1, WordBytesOf
<1> DEFINE h == Header(ResponseSubheader, item.serial, 2 + Len(item.data),
                       LowHigh(item.endCode))
<1>5. h \in Seq(Byte)
  BY <1>1, <1>2, <1>3, <1>4, HeaderParts
<1>6. e = h \o item.data
  BY <1>0 DEF Encoded, Answer, Header
<1>7. e \in Seq(Byte) /\ IsJoin(e, h, item.data)
  BY <1>1, <1>5, <1>6, Appended
<1>8. /\ Len(e) = 15 + Len(item.data)
      /\ IsHeader(e, ResponseSubheader, item.serial, 2 + Len(item.data),
                  LowHigh(item.endCode))
      /\ \A i \in 1..Len(item.data) : e[15 + i] = item.data[i]
  BY <1>1, <1>2, <1>3, <1>4, <1>7, FrameParts
<1>9. e[1] = 212 /\ e[6] = 0
  BY <1>8 DEF IsHeader, ResponseSubheader
<1>10. e[7] = 0
  <2>1. 1 \in 1..5 /\ 6 + 1 = 7
    OBVIOUS
  <2> QED BY <1>8, <2>1, RouteIsBytes DEF IsHeader
<1>11. /\ Word(e, 2) = item.serial /\ Word(e, 11) = 2 + Len(item.data)
       /\ Word(e, 13) = item.endCode
  BY <1>4, <1>8 DEF IsHeader
<1>12. item.serial \in Nat /\ item.endCode \in Nat
  BY <1>1, Word16Is
<1>13. SubSeq(e, 16, Len(e)) = item.data
  BY <1>1, <1>7, <1>8, DataSlice
<1>14. IsAnswer(e, item)
  BY <1>2, <1>7, <1>8, <1>9, <1>10, <1>11, <1>12, <1>13 DEF IsAnswer
<1> QED BY <1>0, <1>14

\* McClient reads in an answer the end code and the data of the PLC.
LEMMA AnswerOutcome ==
    ASSUME Format = "MC4E", NEW item, IsItem(item), item.kind = "answer"
    PROVE  Outcome(Encoded(item)) =
               IF item.endCode = 0
               THEN [kind |-> "success", data |-> item.data]
               ELSE [kind |-> "endcode", code |-> item.endCode]
<1>1. PICK e : e = Encoded(item)
  OBVIOUS
<1>2. /\ Len(item.data) \in Nat /\ Len(e) = 15 + Len(item.data) /\ e[1] = 212
      /\ Word(e, 11) = 2 + Len(item.data) /\ Word(e, 13) = item.endCode
      /\ SubSeq(e, 16, Len(e)) = item.data /\ item.endCode \in Nat
  BY SMTT(20), <1>1, AnswerParts DEF IsAnswer
<1>3. Is4E(e) /\ ~(Len(e) < 2) /\ ~(Word(e, 11) < 2)
  BY <1>2 DEF Is4E, ResponseSubheader
<1>4. Slice(e, 15, 15 + Word(e, 11) - 2) = item.data
  <2>1. 15 + Word(e, 11) - 2 = Len(e) /\ Len(e) \in Int
    BY <1>2
  <2>2. Min({Len(e), Len(e)}) = Len(e)
    <3>1. \A x \in {Len(e), Len(e)} : x = Len(e)
      OBVIOUS
    <3> QED BY <2>1, <3>1 DEF Min
  <2>3. 15 + 1 = 16
    OBVIOUS
  <2> QED BY <1>2, <2>1, <2>2, <2>3 DEF Slice
<1>5. /\ ParseFrame(e).kind = "parsed" /\ ParseFrame(e).data = item.data
      /\ ParseFrame(e).endCode = item.endCode
  <2>1. ParseFrame(e) =
            Parsed(SubSeq(e, 1, 2), Slice(e, 6, 11), Word(e, 11),
                   Slice(e, 15, 15 + Word(e, 11) - 2), Word(e, 13),
                   Absent, Word(e, 2))
    BY <1>3 DEF ParseFrame
  <2> QED BY <1>2, <1>4, <2>1 DEF Parsed
<1>6. item.endCode > 0 \/ item.endCode = 0
  BY <1>2
<1> QED BY <1>1, <1>2, <1>5, <1>6 DEF Outcome

(***************************************************************************)
(* Where the items are in the stream.                                      *)
(***************************************************************************)
Bytes(s) == [j \in 1..Len(s) |-> Encoded(s[j])]
StartOf(s, i) == Len(FlattenSeq([j \in 1..(i - 1) |-> Encoded(s[j])]))

LEMMA InputBytes ==
    ASSUME NEW s \in Inputs
    PROVE  Len(s) \in Nat /\ \A j \in 1..Len(s) : Bytes(s)[j] \in Seq(Byte)
BY ScannerAssumption, ItemBytes DEF Bytes

LEMMA StartIsJoined ==
    ASSUME NEW s \in Inputs, NEW k \in 0..Len(s)
    PROVE  StartOf(s, k + 1) = Len(Joined(Bytes(s), k))
<1>1. [j \in 1..((k + 1) - 1) |-> Encoded(s[j])] = [j \in 1..k |-> Bytes(s)[j]]
  BY InputBytes DEF Bytes
<1> QED BY <1>1 DEF StartOf, Joined

LEMMA StreamIsJoined ==
    ASSUME NEW s \in Inputs
    PROVE  Stream(s) = Joined(Bytes(s), Len(s))
<1>1. [j \in 1..Len(s) |-> Encoded(s[j])] = [j \in 1..Len(s) |-> Bytes(s)[j]]
  BY DEF Bytes
<1> QED BY <1>1 DEF Stream, Joined

\* The stream is bytes, and it ends where the last item ends.
LEMMA StreamBytes ==
    ASSUME NEW s \in Inputs
    PROVE  Stream(s) \in Seq(Byte) /\ Len(Stream(s)) = StartOf(s, Len(s) + 1)
<1>1. Len(s) \in Nat /\ Len(s) \in 0..Len(s)
  BY InputBytes
<1>2. Joined(Bytes(s), Len(s)) \in Seq(Byte)
  BY <1>1, InputBytes, JoinedType
<1> QED BY <1>1, <1>2, StartIsJoined, StreamIsJoined

\* The items follow each other, each as it was encoded.
LEMMA ItemPlaces ==
    ASSUME NEW s \in Inputs, NEW k \in 1..Len(s)
    PROVE  /\ StartOf(s, k) \in Nat
           /\ StartOf(s, k + 1) = StartOf(s, k) + Len(Encoded(s[k]))
           /\ \A p \in 1..Len(Encoded(s[k])) :
                  Stream(s)[StartOf(s, k) + p] = Encoded(s[k])[p]
<1>1. /\ Len(s) \in Nat /\ k \in Nat /\ k - 1 \in Nat /\ (k - 1) + 1 = k
      /\ k - 1 \in 0..Len(s) /\ k \in 0..Len(s) /\ Len(s) \in k..Len(s)
  BY InputBytes
<1>2. PICK a, b, e : a = Joined(Bytes(s), k - 1) /\ b = Joined(Bytes(s), k)
                     /\ e = Encoded(s[k])
  OBVIOUS
<1>3. a \in Seq(Byte) /\ e \in Seq(Byte)
  BY <1>1, <1>2, InputBytes, JoinedType DEF Bytes
<1>4. b = a \o e
  <2>1. Bytes(s)[(k - 1) + 1] = e
    BY <1>1, <1>2 DEF Bytes
  <2> QED BY <1>1, <1>2, <1>3, <2>1, JoinedMore
<1>5. b \in Seq(Byte) /\ IsJoin(b, a, e)
  BY <1>3, <1>4, Appended
<1>6. StartOf(s, k) = Len(a) /\ StartOf(s, k + 1) = Len(b)
  <2>1. StartOf(s, (k - 1) + 1) = Len(a)
    BY <1>1, <1>2, StartIsJoined
  <2> QED BY <1>1, <1>2, <2>1, StartIsJoined
<1>7. Len(a) \in Nat /\ Len(e) \in Nat /\ Len(b) = Len(a) + Len(e)
  BY <1>3, <1>5 DEF IsJoin
<1>8. ASSUME NEW p \in 1..Len(e) PROVE Stream(s)[Len(a) + p] = e[p]
  <2>1. Len(a) + p \in 1..Len(b)
    BY <1>7
  <2>2. Joined(Bytes(s), Len(s))[Len(a) + p] = b[Len(a) + p]
    <3>1. Begins(Joined(Bytes(s), Len(s)), Joined(Bytes(s), k))
      BY <1>1, InputBytes, JoinedPlaces
    <3> QED BY <1>2, <2>1, <3>1 DEF Begins
  <2>3. b[Len(a) + p] = e[p]
    BY <1>5 DEF IsJoin
  <2> QED BY <2>2, <2>3, StreamIsJoined
<1> QED BY <1>2, <1>6, <1>7, <1>8

LEMMA FirstStart == ASSUME NEW s \in Inputs PROVE StartOf(s, 1) = 0
<1>1. 0 \in 0..Len(s) /\ 0 + 1 = 1
  BY InputBytes
<1>2. StartOf(s, 0 + 1) = Len(Joined(Bytes(s), 0))
  BY <1>1, StartIsJoined
<1> QED BY <1>1, <1>2, JoinedNone

\* An item that comes later starts later.
LEMMA StartsGrow ==
    ASSUME NEW s \in Inputs, NEW i \in 1..(Len(s) + 1),
           NEW k \in i..(Len(s) + 1)
    PROVE  /\ StartOf(s, i) \in Nat /\ StartOf(s, k) \in Nat
           /\ StartOf(s, i) <= StartOf(s, k)
<1>1. /\ Len(s) \in Nat /\ i - 1 \in 0..Len(s) /\ k - 1 \in 0..Len(s)
      /\ k - 1 \in (i - 1)..Len(s) /\ (i - 1) + 1 = i /\ (k - 1) + 1 = k
  BY InputBytes
<1>2. /\ StartOf(s, (i - 1) + 1) = Len(Joined(Bytes(s), i - 1))
      /\ StartOf(s, (k - 1) + 1) = Len(Joined(Bytes(s), k - 1))
  BY <1>1, StartIsJoined
<1>3. /\ Joined(Bytes(s), i - 1) \in Seq(Byte)
      /\ Joined(Bytes(s), k - 1) \in Seq(Byte)
  BY <1>1, InputBytes, JoinedType
<1>4. Len(Joined(Bytes(s), i - 1)) <= Len(Joined(Bytes(s), k - 1))
  BY <1>1, InputBytes, JoinedPlaces DEF Begins
<1> QED BY <1>1, <1>2, <1>3, <1>4

(***************************************************************************)
(* The frame that detect_frame finds.                                      *)
(***************************************************************************)
LEMMA ByteIsNat == \A v \in Byte : v \in Nat
BY DEF Byte

LEMMA WordIsNat ==
    ASSUME NEW b \in Seq(Byte), NEW i \in Nat, i + 2 <= Len(b)
    PROVE  Word(b, i) \in Nat
<1>1. b[i + 1] \in Byte /\ b[i + 2] \in Byte
  BY ElementOfSeq
<1>2. b[i + 1] \in Nat /\ b[i + 2] \in Nat
  BY <1>1, ByteIsNat
<1>3. 256 * b[i + 2] \in Nat
  BY <1>2
<1> QED BY <1>2, <1>3 DEF Word

\* A frame has a length, and one with a serial has a whole header.
LEMMA DetectedFrame ==
    ASSUME NEW b \in Seq(Byte), DetectFrame(b).kind = "frame"
    PROVE  /\ DetectFrame(b).len \in Nat
           /\ DetectFrame(b).serial # Absent =>
                 /\ Is4E(b)
                 /\ DetectFrame(b).len = 13 + Word(b, 11)
                 /\ Word(b, 11) >= 2
                 /\ DetectFrame(b).serial = Word(b, 2)
<1>1. CASE Is4E(b)
  <2>1. Word(b, 11) \in Nat /\ Word(b, 2) \in Nat
    BY <1>1, WordIsNat DEF Is4E
  <2>2. Word(b, 11) >= 2
    <3>1. Word(b, 11) < 2 => DetectFrame(b) = Malformed
      BY <1>1 DEF DetectFrame
    <3>2. Malformed.kind # "frame"
      BY DEF Malformed
    <3> QED BY <2>1, <3>1, <3>2
  <2>3. DetectFrame(b) = Frame(15, Word(b, 11), Word(b, 2))
    BY <1>1, <2>1, <2>2 DEF DetectFrame
  <2> QED BY <1>1, <2>1, <2>2, <2>3 DEF Frame
<1>2. CASE ~Is4E(b) /\ Announces(b, 11, 7)
  <2>1. Word(b, 7) \in Nat /\ Word(b, 7) >= 2
    BY <1>2, WordIsNat DEF Announces
  <2>2. DetectFrame(b) = Frame(11, Word(b, 7), Absent)
    BY <1>2 DEF DetectFrame
  <2> QED BY <2>1, <2>2 DEF Frame
<1>3. CASE ~Is4E(b) /\ ~Announces(b, 11, 7) /\ Announces(b, 9, 5)
  <2>1. Word(b, 5) \in Nat /\ Word(b, 5) >= 2
    BY <1>3, WordIsNat DEF Announces
  <2>2. DetectFrame(b) = Frame(9, Word(b, 5), Absent)
    BY <1>3 DEF DetectFrame
  <2> QED BY <2>1, <2>2 DEF Frame
<1>4. CASE ~Is4E(b) /\ ~Announces(b, 11, 7) /\ ~Announces(b, 9, 5)
  BY <1>4 DEF DetectFrame, NotYet
<1> QED BY <1>1, <1>2, <1>3, <1>4

\* A buffer in which detect_frame finds a frame, or an error, is not empty.
LEMMA NothingInEmpty == DetectFrame(<<>>) = NotYet
BY DEF DetectFrame, Is4E, Announces

\* With a whole header of an answer at its start, detect_frame finds the answer.
LEMMA WholeHeader ==
    ASSUME NEW item,
           NEW b \in Seq(Byte), Len(b) >= 15,
           NEW e, IsAnswer(e, item), \A p \in 1..15 : b[p] = e[p]
    PROVE  /\ DetectFrame(b).kind = "frame"
           /\ DetectFrame(b).len = Len(e)
           /\ DetectFrame(b).serial = item.serial
<1>1. /\ Len(item.data) \in Nat /\ Len(e) = 15 + Len(item.data)
      /\ e[1] = 212 /\ Word(e, 2) = item.serial
      /\ Word(e, 11) = 2 + Len(item.data)
  BY DEF IsAnswer
<1>2. b[1] = e[1] /\ b[3] = e[3] /\ b[4] = e[4] /\ b[12] = e[12] /\ b[13] = e[13]
  OBVIOUS
<1>3. Word(b, 2) = item.serial /\ Word(b, 11) = 2 + Len(item.data)
  <2>1. /\ Word(b, 2) = b[3] + 256 * b[4] /\ Word(e, 2) = e[3] + 256 * e[4]
        /\ Word(b, 11) = b[12] + 256 * b[13]
        /\ Word(e, 11) = e[12] + 256 * e[13]
    BY DEF Word
  <2> QED BY <1>1, <1>2, <2>1
<1>4. Is4E(b) /\ ~(Word(b, 11) < 2)
  BY <1>1, <1>2, <1>3 DEF Is4E, ResponseSubheader
<1>5. DetectFrame(b) = Frame(15, Word(b, 11), Word(b, 2))
  BY <1>4 DEF DetectFrame
<1> QED BY SMTT(20), <1>1, <1>3, <1>5 DEF Frame

\* With less than eleven bytes of an answer it waits.
LEMMA PartOfHeader ==
    ASSUME NEW item,
           NEW b \in Seq(Byte), Len(b) < 11,
           NEW e, IsAnswer(e, item), \A p \in 1..Len(b) : b[p] = e[p]
    PROVE  DetectFrame(b) = NotYet
<1>1. e[6] = 0 /\ e[7] = 0
  BY DEF IsAnswer
<1>2. ~Is4E(b) /\ ~Announces(b, 11, 7)
  BY DEF Is4E, Announces
<1>3. ~Announces(b, 9, 5)
  <2> SUFFICES ASSUME Len(b) >= 9 PROVE Word(b, 5) = 0
    BY DEF Announces
  <2>1. b[6] = 0 /\ b[7] = 0
    BY <1>1
  <2> QED BY <2>1 DEF Word
<1> QED BY <1>2, <1>3 DEF DetectFrame

(***************************************************************************)
(* The type invariant.                                                     *)
(***************************************************************************)

\* A read moves bytes from the front of the wire to the end of the buffer.
LEMMA ReadMoves ==
    ASSUME TypeOK, Read
    PROVE  /\ buf' \in Seq(Byte) /\ wire' \in Seq(Byte)
           /\ \E n \in 1..Len(wire) :
                 /\ HeadersWhole => ~CutsHeader(Taken + n)
                 /\ Len(buf') = Len(buf) + n /\ Len(wire') = Len(wire) - n
                 /\ \A p \in 1..Len(buf) : buf'[p] = buf[p]
                 /\ \A p \in 1..n : buf'[Len(buf) + p] = wire[p]
                 /\ \A p \in 1..Len(wire') : wire'[p] = wire[n + p]
<1>1. PICK n \in 1..Min({Len(wire), ReadSize}) :
          /\ HeadersWhole => ~CutsHeader(Taken + n)
          /\ buf' = buf \o SubSeq(wire, 1, n)
          /\ wire' = SubSeq(wire, n + 1, Len(wire))
  BY DEF Read
<1>2. wire \in Seq(Byte) /\ buf \in Seq(Byte) /\ Len(wire) \in Nat
  BY DEF TypeOK
<1>3. n \in 1..Len(wire)
  <2>1. /\ Min({Len(wire), ReadSize}) \in Int
        /\ Min({Len(wire), ReadSize}) <= Len(wire)
    <3>1. ReadSize \in Int
      BY DEF ReadSize
    <3>2. \E x \in {Len(wire), ReadSize} :
              \A y \in {Len(wire), ReadSize} : x <= y
      BY <1>2, <3>1
    <3> QED BY <1>2, <3>1, <3>2 DEF Min
  <2> QED BY <1>2, <2>1
<1>4. PICK c : c = SubSeq(wire, 1, n)
  OBVIOUS
<1>5. c \in Seq(Byte) /\ Len(c) = n /\ \A p \in 1..n : c[p] = wire[p]
  <2>1. c \in Seq(Byte)
    BY <1>2, <1>3, <1>4, Piece
  <2>2. /\ Len(SubSeq(wire, 1, n)) = n
        /\ \A p \in 1..n : SubSeq(wire, 1, n)[p] = wire[p]
    <3>1. \A i \in 1..n : wire[i] \in Byte
      BY <1>2, <1>3
    <3> QED BY <1>2, <1>3, <3>1, SubSeqProperties
  <2> QED BY <1>4, <2>1, <2>2
<1>6. buf' \in Seq(Byte) /\ IsJoin(buf', buf, c)
  BY <1>1, <1>2, <1>4, <1>5, Appended
<1>7. /\ Len(buf') = Len(buf) + n
      /\ \A p \in 1..Len(buf) : buf'[p] = buf[p]
      /\ \A p \in 1..n : buf'[Len(buf) + p] = wire[p]
  BY <1>5, <1>6 DEF IsJoin
<1>8. /\ wire' \in Seq(Byte) /\ Len(wire') = Len(wire) - n
      /\ \A p \in 1..Len(wire') : wire'[p] = wire[n + p]
  <2>1. n \in 0..Len(wire)
    BY <1>2, <1>3
  <2> QED BY <1>1, <1>2, <2>1, CutFront
<1> QED BY <1>1, <1>3, <1>6, <1>7, <1>8

LEMMA TypeHolds == Init => TypeOK
BY StreamBytes DEF Init, TypeOK

LEMMA TypeKept == TypeOK /\ [Next]_vars => TypeOK'
<1> SUFFICES ASSUME TypeOK, [Next]_vars PROVE TypeOK'
  OBVIOUS
<1>1. CASE UNCHANGED vars
  BY <1>1 DEF TypeOK, vars
<1>2. CASE Read
  <2>1. buf' \in Seq(Byte) /\ wire' \in Seq(Byte)
    BY <1>2, ReadMoves
  <2> QED BY <1>2, <2>1 DEF Read, TypeOK
<1>3. CASE ReadEof \/ ReadError \/ NeedMore \/ Returned
  BY <1>3 DEF TypeOK, ReadEof, ReadError, NeedMore, Returned, vars
<1>4. CASE TakeFrame \/ DropFrame
  <2>1. Found.len \in 1..Len(buf)
    BY <1>4, DetectedFrame DEF TakeFrame, DropFrame, WholeFrame, Found, TypeOK
  <2>2. /\ SubSeq(buf, 1, Found.len) \in Seq(Byte)
        /\ SubSeq(buf, Found.len + 1, Len(buf)) \in Seq(Byte)
    BY <2>1, Piece DEF TypeOK
  <2> QED BY <1>4, <2>2 DEF TakeFrame, DropFrame, WholeFrame, TypeOK
<1>5. CASE SkipByte
  <2>1. buf # <<>>
    BY <1>5, NothingInEmpty DEF SkipByte, Found, NotYet
  <2> QED BY <1>5, <2>1, Rest DEF SkipByte, TypeOK
<1> QED BY <1>1, <1>2, <1>3, <1>4, <1>5 DEF Next, Scan

LEMMA TypeInv == Spec => []TypeOK
BY TypeHolds, TypeKept, PTL DEF Spec

(***************************************************************************)
(* The frame that is returned.                                             *)
(***************************************************************************)

\* A frame with a serial, cut out of the buffer, is as it was there.
LEMMA FrameCutOut ==
    ASSUME NEW b \in Seq(Byte), NEW n \in 15..Len(b)
    PROVE  /\ Len(SubSeq(b, 1, n)) = n
           /\ Word(SubSeq(b, 1, n), 2) = Word(b, 2)
           /\ Word(SubSeq(b, 1, n), 11) = Word(b, 11)
<1>1. /\ Len(SubSeq(b, 1, n)) = n
      /\ \A i \in 1..n : SubSeq(b, 1, n)[i] = b[i]
  <2>1. \A i \in 1..n : b[i] \in Byte
    OBVIOUS
  <2>2. 1 \in Int /\ n \in Int /\ 1 <= n /\ n - 1 + 1 = n
    OBVIOUS
  <2>3. \A i \in 1..n : 1 + i - 1 = i
    OBVIOUS
  <2> QED BY <2>1, <2>2, <2>3, SubSeqProperties, SMTT(30)
<1>2. {2 + 1, 2 + 2, 11 + 1, 11 + 2} \subseteq 1..n
  OBVIOUS
<1>3. \A i \in {2 + 1, 2 + 2, 11 + 1, 11 + 2} : SubSeq(b, 1, n)[i] = b[i]
  BY <1>1, <1>2
<1> QED BY <1>1, <1>3, SMTT(30) DEF Word

LEMMA TakenCarriesSerial ==
    ASSUME Format = "MC4E", TypeOK, TakeFrame
    PROVE  Word(result', 2) = Serial /\ Len(result') = 13 + Word(result', 11)
<1>1. Expected = Serial /\ Serial \in Nat \ {0}
  BY ExpectedIsSerial, SerialsAre, ScannerAssumption
<1>2. /\ buf \in Seq(Byte) /\ Found.kind = "frame" /\ Len(buf) >= Found.len
      /\ result' = SubSeq(buf, 1, Found.len)
  BY DEF TypeOK, TakeFrame, WholeFrame
<1>3. Found.serial # Absent /\ Found.serial = Serial
  BY <1>1 DEF TakeFrame, Matching, Absent
<1>4. /\ Is4E(buf) /\ Found.len = 13 + Word(buf, 11) /\ Found.len \in Nat
      /\ Word(buf, 11) >= 2 /\ Word(buf, 2) = Serial
  BY <1>2, <1>3, DetectedFrame DEF Found
<1>5. Word(buf, 11) \in Nat
  BY <1>2, <1>4, WordIsNat DEF Is4E
<1>6. Found.len \in 15..Len(buf)
  BY <1>2, <1>4, <1>5
<1> QED BY <1>2, <1>4, <1>6, FrameCutOut

LEMMA SerialKept ==
    ASSUME Format = "MC4E", TypeOK, AnswerCarriesSerial, [Next]_vars
    PROVE  AnswerCarriesSerial'
<1>1. CASE TakeFrame
  <2>1. Word(result', 2) = Serial /\ Len(result') = 13 + Word(result', 11)
    BY <1>1, TakenCarriesSerial
  <2> QED BY <2>1 DEF AnswerCarriesSerial
<1>2. CASE Read \/ ReadEof \/ ReadError \/ DropFrame \/ SkipByte \/ NeedMore
  <2>1. phase' # "ok"
    BY <1>2 DEF Read, ReadEof, ReadError, DropFrame, WholeFrame, SkipByte,
                NeedMore
  <2> QED BY <2>1 DEF AnswerCarriesSerial
<1>3. CASE Returned \/ UNCHANGED vars
  BY <1>3 DEF Returned, vars, AnswerCarriesSerial
<1> QED BY <1>1, <1>2, <1>3 DEF Next, Scan

(***************************************************************************)
(* The wire and the buffer are windows of the stream.                      *)
(***************************************************************************)
IsWindow(w, s, at) == \A p \in 1..Len(w) : w[p] = Stream(s)[at + p]

\* The buffer and, behind it, the wire.
Windows ==
    /\ Len(buf) + Len(wire) <= Total
    /\ IsWindow(wire, items, Taken)
    /\ IsWindow(buf, items, Taken - Len(buf))

\* The counts of FrameScanner in terms of the constants of this module.
LEMMA Counts ==
    /\ Total = StartOf(items, Len(items) + 1)
    /\ Taken = Total - Len(wire)
    /\ \A i : Start(i) = StartOf(items, i)
    /\ Total' = StartOf(items', Len(items') + 1)
    /\ Taken' = Total' - Len(wire')
    /\ \A i : Start(i)' = StartOf(items', i)
BY DEF Total, Taken, Start, StartOf

LEMMA CountsAreInt ==
    ASSUME TypeOK
    PROVE  /\ Len(buf) \in Nat /\ Len(wire) \in Nat
           /\ Total \in Nat /\ Taken \in Int
<1>1. Len(Stream(items)) \in Nat
  BY StreamBytes DEF TypeOK
<1>2. Total \in Nat
  BY <1>1, Counts, StreamBytes DEF TypeOK
<1> QED BY SMTT(20), <1>2, Counts DEF TypeOK

LEMMA WindowsHold == Init => Windows
<1> SUFFICES ASSUME Init PROVE Windows
  OBVIOUS
<1>1. Len(wire) = Total /\ wire = Stream(items) /\ buf = <<>> /\ Total \in Nat
  BY StreamBytes, Counts DEF Init
<1>2. Taken = 0 /\ Len(buf) = 0
  BY <1>1, Counts
<1>3. \A p \in 1..Len(wire) : 0 + p = p
  BY <1>1
<1> QED BY <1>1, <1>2, <1>3 DEF Windows, IsWindow

\* The buffer without its first m bytes is a window that begins m bytes later.
LEMMA WindowsCut ==
    ASSUME TypeOK, Windows, NEW m \in 0..Len(buf),
           items' = items, wire' = wire, buf' \in Seq(Byte),
           Len(buf') = Len(buf) - m,
           \A p \in 1..Len(buf') : buf'[p] = buf[m + p]
    PROVE  /\ Windows' /\ Taken' = Taken
           /\ Taken' - Len(buf') = (Taken - Len(buf)) + m
<1>1. Total' = Total /\ Taken' = Taken
  BY Counts
<1>2. /\ Len(buf) \in Nat /\ Len(wire) \in Nat /\ m \in Nat
      /\ Total \in Nat /\ Taken \in Int
  BY CountsAreInt
<1>3. Taken' - Len(buf') = (Taken - Len(buf)) + m
  BY <1>1, <1>2
<1>4. ASSUME NEW p \in 1..Len(buf')
      PROVE  buf'[p] = Stream(items)[((Taken - Len(buf)) + m) + p]
  <2>1. m + p \in 1..Len(buf) /\ (Taken - Len(buf)) + (m + p)
                                  = ((Taken - Len(buf)) + m) + p
    BY <1>2
  <2>2. buf[m + p] = Stream(items)[(Taken - Len(buf)) + (m + p)]
    BY <2>1 DEF Windows, IsWindow
  <2> QED BY <2>1, <2>2
<1>5. Len(buf') + Len(wire') <= Total'
  BY <1>1, <1>2 DEF Windows
<1>6. IsWindow(wire', items', Taken')
  BY <1>1 DEF Windows
<1>7. IsWindow(buf', items', Taken' - Len(buf'))
  BY <1>3, <1>4 DEF IsWindow
<1> QED BY <1>1, <1>3, <1>5, <1>6, <1>7 DEF Windows

LEMMA WindowsRead ==
    ASSUME TypeOK, Windows, Read
    PROVE  /\ Windows' /\ items' = items
           /\ Taken' - Len(buf') = Taken - Len(buf)
           /\ HeadersWhole => ~CutsHeader(Taken')
<1>1. PICK n \in 1..Len(wire) :
          /\ HeadersWhole => ~CutsHeader(Taken + n)
          /\ Len(buf') = Len(buf) + n /\ Len(wire') = Len(wire) - n
          /\ \A p \in 1..Len(buf) : buf'[p] = buf[p]
          /\ \A p \in 1..n : buf'[Len(buf) + p] = wire[p]
          /\ \A p \in 1..Len(wire') : wire'[p] = wire[n + p]
  BY ReadMoves
<1>2. items' = items
  BY DEF Read
<1>3. /\ Len(buf) \in Nat /\ Len(wire) \in Nat /\ n \in Nat
      /\ Total \in Nat /\ Taken \in Int
  BY CountsAreInt
<1>4. Total' = Total /\ Taken' = Taken + n
  BY SMTT(20), <1>1, <1>2, <1>3, Counts
<1>5. Taken' - Len(buf') = Taken - Len(buf)
  BY <1>1, <1>3, <1>4
<1>6. ASSUME NEW p \in 1..Len(wire')
      PROVE  wire'[p] = Stream(items)[(Taken + n) + p]
  <2>1. n + p \in 1..Len(wire) /\ Taken + (n + p) = (Taken + n) + p
    BY <1>1, <1>3
  <2>2. wire[n + p] = Stream(items)[Taken + (n + p)]
    BY <2>1 DEF Windows, IsWindow
  <2> QED BY <1>1, <2>1, <2>2
<1>7. ASSUME NEW p \in 1..Len(buf')
      PROVE  buf'[p] = Stream(items)[(Taken - Len(buf)) + p]
  <2>1. CASE p <= Len(buf)
    <3>1. p \in 1..Len(buf)
      BY <1>3, <2>1
    <3> QED BY <1>1, <3>1 DEF Windows, IsWindow
  <2>2. CASE ~(p <= Len(buf))
    <3>1. /\ p - Len(buf) \in 1..n /\ p - Len(buf) \in 1..Len(wire)
          /\ Len(buf) + (p - Len(buf)) = p
          /\ Taken + (p - Len(buf)) = (Taken - Len(buf)) + p
      BY <1>1, <1>3, <2>2
    <3>2. buf'[Len(buf) + (p - Len(buf))] = wire[p - Len(buf)]
      BY <1>1, <3>1
    <3>3. wire[p - Len(buf)] = Stream(items)[Taken + (p - Len(buf))]
      BY <3>1 DEF Windows, IsWindow
    <3> QED BY <3>1, <3>2, <3>3
  <2> QED BY <2>1, <2>2
<1>8. Len(buf') + Len(wire') <= Total'
  BY <1>1, <1>3, <1>4 DEF Windows
<1>9. IsWindow(wire', items', Taken')
  BY <1>2, <1>4, <1>6 DEF IsWindow
<1>10. IsWindow(buf', items', Taken' - Len(buf'))
  BY <1>2, <1>5, <1>7 DEF IsWindow
<1>11. HeadersWhole => ~CutsHeader(Taken')
  BY <1>1, <1>4
<1> QED BY <1>2, <1>5, <1>8, <1>9, <1>10, <1>11 DEF Windows

(***************************************************************************)
(* The place of the loop among answers whose headers are read whole.       *)
(***************************************************************************)
Clean(s, at) ==
    \A i \in 1..Len(s) :
        s[i].kind = "answer" => at - StartOf(s, i) \notin 11..14

\* No read has ended in bytes 11 to 14 of an answer.
Uncut == Clean(items, Taken)

\* The buffer starts with item k, and no item before it is the answer.
At(k) ==
    /\ Taken - Len(buf) = StartOf(items, k)
    /\ \A i \in 1..(k - 1) : ~Mine(items[i])

\* The item at the start of the buffer is not there as a whole.
Unfinished(k) == k <= Len(items) => Taken < StartOf(items, k + 1)

\* The loop has a place; when it reads again, or ends without an answer, it has
\* not passed over an item that is in the buffer.
Placed ==
    phase \in {"read", "scan", "eof"} =>
        \E k \in 1..(Len(items) + 1) :
            At(k) /\ (phase # "scan" => Unfinished(k))

\* What is returned is the first answer.
Delivered ==
    phase = "ok" =>
        \E k \in 1..Len(items) : FirstAnswer(k) /\ result = Encoded(items[k])

\* Every item is an answer: this is the case of interest in what follows.
AnswersOnly == Orderly => Placed /\ Delivered

ScanInv == TypeOK /\ Windows /\ Uncut /\ AnswersOnly

LEMMA CleanIs == \A end : ~CutsHeader(end) => Clean(items, end)
BY Counts DEF CutsHeader, Clean

LEMMA ItemsAre ==
    ASSUME TypeOK
    PROVE  /\ items \in Inputs /\ Len(items) \in Nat
           /\ \A i \in 1..Len(items) : IsItem(items[i])
BY ScannerAssumption DEF TypeOK

\* While the buffer has bytes, the place is an item, whose bytes they are.
LEMMA BytesAt ==
    ASSUME TypeOK, Windows, NEW k \in 1..Len(items),
           Taken - Len(buf) = StartOf(items, k)
    PROVE  \A p \in 1..Len(buf) :
               p <= Len(Encoded(items[k])) => buf[p] = Encoded(items[k])[p]
<1> SUFFICES ASSUME NEW p \in 1..Len(buf), p <= Len(Encoded(items[k]))
             PROVE  buf[p] = Encoded(items[k])[p]
  OBVIOUS
<1>1. Len(buf) \in Nat /\ items \in Inputs
  BY CountsAreInt, ItemsAre
<1>2. Len(Encoded(items[k])) \in Nat
  BY ItemsAre, ItemBytes
<1>3. p \in 1..Len(Encoded(items[k]))
  BY <1>1, <1>2
<1>4. Stream(items)[StartOf(items, k) + p] = Encoded(items[k])[p]
  BY <1>1, <1>3, ItemPlaces
<1>5. buf[p] = Stream(items)[(Taken - Len(buf)) + p]
  BY DEF Windows, IsWindow
<1> QED BY <1>4, <1>5

LEMMA EmptyAtEnd ==
    ASSUME TypeOK, Windows, Taken - Len(buf) = StartOf(items, Len(items) + 1)
    PROVE  buf = <<>>
<1>1. /\ Len(buf) \in Nat /\ Len(wire) \in Nat /\ Total \in Nat
      /\ Taken = Total - Len(wire) /\ Total = StartOf(items, Len(items) + 1)
  BY CountsAreInt, Counts
<1>2. Len(buf) = 0
  BY <1>1
<1> QED BY <1>2 DEF TypeOK

\* At its place the loop finds the answer that starts there, or less than
\* eleven bytes of it.
FindsAnswer(k) ==
    /\ Len(buf) >= 15
    /\ Found.kind = "frame"
    /\ Found.len = Len(Encoded(items[k]))
    /\ Found.serial = items[k].serial
FindsNothing(k) ==
    Found = NotYet /\ (k <= Len(items) => Len(buf) < Len(Encoded(items[k])))

LEMMA FoundAt ==
    ASSUME Format = "MC4E", TypeOK, Windows, Uncut, Orderly,
           NEW k \in 1..(Len(items) + 1),
           Taken - Len(buf) = StartOf(items, k)
    PROVE  (k \in 1..Len(items) /\ FindsAnswer(k)) \/ FindsNothing(k)
<1>0. Len(items) \in Nat /\ Len(buf) \in Nat /\ buf \in Seq(Byte)
  BY ItemsAre DEF TypeOK
<1>1. CASE k = Len(items) + 1
  <2>1. Found = NotYet
    BY <1>1, EmptyAtEnd, NothingInEmpty DEF Found
  <2> QED BY <1>0, <1>1, <2>1 DEF FindsNothing
<1>2. CASE k # Len(items) + 1
  <2>1. k \in 1..Len(items)
    BY <1>0, <1>2
  <2>2. IsItem(items[k]) /\ items[k].kind = "answer"
    BY <2>1, ItemsAre DEF Orderly
  <2>3. PICK e : e = Encoded(items[k])
    OBVIOUS
  <2>4. IsAnswer(e, items[k])
    BY <2>2, <2>3, AnswerParts
  <2>5. Len(e) \in Nat /\ Len(e) >= 15
    BY <2>4 DEF IsAnswer
  <2>6. \A p \in 1..Len(buf) : p <= Len(e) => buf[p] = e[p]
    BY <2>1, <2>3, BytesAt
  <2>7. Len(buf) >= 15 \/ Len(buf) < 11
    <3>1. Taken \in Int /\ StartOf(items, k) \in Nat
      BY <2>1, CountsAreInt, ItemsAre, ItemPlaces
    <3>2. Taken - StartOf(items, k) = Len(buf)
      BY <1>0, <3>1
    <3>3. Taken - StartOf(items, k) \notin 11..14
      BY <2>1, <2>2 DEF Uncut, Clean
    <3>4. \A n \in Nat : n \notin 11..14 => n >= 15 \/ n < 11
      OBVIOUS
    <3> QED BY <1>0, <3>2, <3>3, <3>4
  <2>8. CASE Len(buf) >= 15
    <3>1. \A p \in 1..15 : buf[p] = e[p]
      BY <1>0, <2>5, <2>6, <2>8
    <3> QED BY <1>0, <2>1, <2>3, <2>4, <2>8, <3>1, WholeHeader
            DEF FindsAnswer, Found
  <2>9. CASE Len(buf) < 11
    <3>1. \A p \in 1..Len(buf) : buf[p] = e[p]
      BY <1>0, <2>5, <2>6, <2>9
    <3>2. Found = NotYet
      BY <1>0, <2>4, <2>9, <3>1, PartOfHeader DEF Found
    <3> QED BY <1>0, <2>3, <2>5, <2>9, <3>2 DEF FindsNothing
  <2> QED BY <2>7, <2>8, <2>9
<1> QED BY <1>1, <1>2

(***************************************************************************)
(* The invariant.                                                          *)
(***************************************************************************)
LEMMA FoundInside ==
    ASSUME TypeOK, WholeFrame
    PROVE  Found.len \in 1..Len(buf)
BY DetectedFrame DEF WholeFrame, Found, TypeOK

\* A dropped frame and a skipped byte leave a window.
LEMMA DropMoves ==
    ASSUME TypeOK, Windows, DropFrame
    PROVE  /\ Windows' /\ Taken' = Taken
           /\ Taken' - Len(buf') = (Taken - Len(buf)) + Found.len
<1>1. buf \in Seq(Byte) /\ Found.len \in 0..Len(buf)
  BY FoundInside DEF TypeOK, DropFrame
<1>2. buf' = SubSeq(buf, Found.len + 1, Len(buf)) /\ items' = items /\ wire' = wire
  BY DEF DropFrame
<1>3. /\ buf' \in Seq(Byte) /\ Len(buf') = Len(buf) - Found.len
      /\ \A p \in 1..Len(buf') : buf'[p] = buf[Found.len + p]
  BY SMTT(20), <1>1, <1>2, CutFront
<1> QED BY <1>1, <1>2, <1>3, WindowsCut

LEMMA WindowsKept == TypeOK /\ Windows /\ [Next]_vars => Windows' /\ items' = items
<1> SUFFICES ASSUME TypeOK, Windows, [Next]_vars
             PROVE  Windows' /\ items' = items
  OBVIOUS
<1>1. CASE Read
  BY <1>1, WindowsRead
<1>2. CASE ReadEof \/ ReadError \/ NeedMore \/ Returned \/ UNCHANGED vars
  <2>1. items' = items /\ wire' = wire /\ buf' = buf
    BY <1>2 DEF ReadEof, ReadError, NeedMore, Returned, vars
  <2>2. Total' = Total /\ Taken' = Taken
    BY <2>1, Counts
  <2> QED BY <2>1, <2>2 DEF Windows
<1>3. CASE DropFrame
  BY <1>3, DropMoves DEF DropFrame
<1>4. CASE TakeFrame
  <2>1. buf \in Seq(Byte) /\ Found.len \in 0..Len(buf)
    BY <1>4, FoundInside DEF TypeOK, TakeFrame
  <2>2. /\ buf' = SubSeq(buf, Found.len + 1, Len(buf))
        /\ items' = items /\ wire' = wire
    BY <1>4 DEF TakeFrame
  <2>3. /\ buf' \in Seq(Byte) /\ Len(buf') = Len(buf) - Found.len
        /\ \A p \in 1..Len(buf') : buf'[p] = buf[Found.len + p]
    BY SMTT(20), <2>1, <2>2, CutFront
  <2> QED BY <2>1, <2>2, <2>3, WindowsCut
<1>5. CASE SkipByte
  <2>1. buf \in Seq(Byte) /\ buf # <<>>
    BY <1>5, NothingInEmpty DEF SkipByte, Found, NotYet, TypeOK
  <2>2. buf' = Tail(buf) /\ items' = items /\ wire' = wire
    BY <1>5 DEF SkipByte
  <2>3. /\ buf' \in Seq(Byte) /\ Len(buf') = Len(buf) - 1 /\ 1 \in 0..Len(buf)
        /\ \A p \in 1..Len(buf') : buf'[p] = buf[1 + p]
    <3>1. /\ Tail(buf) \in Seq(Byte) /\ Len(Tail(buf)) = Len(buf) - 1
          /\ \A p \in 1..Len(Tail(buf)) : Tail(buf)[p] = buf[p + 1]
      BY <2>1, HeadTailProperties
    <3>2. 1 \in 0..Len(buf)
      BY <2>1
    <3> QED BY <2>1, <2>2, <3>1, <3>2
  <2> QED BY <2>2, <2>3, WindowsCut
<1> QED BY <1>1, <1>2, <1>3, <1>4, <1>5 DEF Next, Scan

\* Only a read moves the end of what has been taken.
LEMMA UncutKept ==
    ASSUME HeadersWhole, TypeOK, Windows, Uncut, [Next]_vars
    PROVE  Uncut'
<1>1. items' = items
  BY WindowsKept
<1>2. CASE Read
  <2>1. Clean(items, Taken')
    BY <1>2, WindowsRead, CleanIs
  <2> QED BY <1>1, <2>1 DEF Uncut
<1>3. CASE ~Read
  <2>1. wire' = wire
    BY <1>3 DEF Next, Scan, ReadEof, ReadError, TakeFrame, DropFrame, SkipByte,
                NeedMore, Returned, vars
  <2>2. Taken' = Taken
    BY <1>1, <2>1, Counts
  <2> QED BY <1>1, <2>2 DEF Uncut
<1> QED BY <1>2, <1>3

\* An answer has at least fifteen bytes.
LEMMA AnswerSize ==
    ASSUME Format = "MC4E", TypeOK, Orderly, NEW k \in 1..Len(items)
    PROVE  /\ IsAnswer(Encoded(items[k]), items[k])
           /\ Len(Encoded(items[k])) \in Nat /\ Len(Encoded(items[k])) >= 15
           /\ StartOf(items, k) \in Nat
           /\ StartOf(items, k + 1)
                 = StartOf(items, k) + Len(Encoded(items[k]))
<1>1. IsAnswer(Encoded(items[k]), items[k])
  BY ItemsAre, AnswerParts DEF Orderly
<1>2. /\ Len(Encoded(items[k])) \in Nat /\ Len(Encoded(items[k])) >= 15
  BY <1>1 DEF IsAnswer
<1> QED BY <1>1, <1>2, ItemsAre, ItemPlaces

LEMMA ScanHolds == Format = "MC4E" /\ Init => ScanInv
<1> SUFFICES ASSUME Format = "MC4E", Init PROVE ScanInv
  OBVIOUS
<1>1. TypeOK /\ Windows
  BY TypeHolds, WindowsHold
<1>2. /\ items \in Inputs /\ Len(items) \in Nat
      /\ Len(buf) = 0 /\ Taken = 0 /\ Taken - Len(buf) = 0
  <2>1. Len(wire) = Total /\ Len(buf) = 0
    BY <1>1, StreamBytes, Counts DEF Init
  <2> QED BY <1>1, <2>1, ItemsAre, Counts, CountsAreInt
<1>3. Uncut
  <2> SUFFICES ASSUME NEW i \in 1..Len(items)
               PROVE  0 - StartOf(items, i) \notin 11..14
    BY <1>2 DEF Uncut, Clean
  <2>1. StartOf(items, i) \in Nat
    BY <1>2, ItemPlaces
  <2> QED BY <2>1
<1>4. ASSUME Orderly PROVE At(1) /\ Unfinished(1)
  <2>1. At(1)
    BY <1>2, FirstStart DEF At
  <2>2. ASSUME 1 <= Len(items) PROVE 0 < StartOf(items, 1 + 1)
    <3>1. 1 \in 1..Len(items)
      BY <1>2, <2>2
    <3> QED BY <1>1, <1>2, <1>4, <3>1, AnswerSize, FirstStart
  <2> QED BY <1>2, <2>1, <2>2 DEF Unfinished
<1>5. Orderly => Placed
  <2>1. 1 \in 1..(Len(items) + 1)
    BY <1>2
  <2> QED BY <1>4, <2>1 DEF Placed
<1>6. Delivered
  BY DEF Delivered, Init
<1> QED BY <1>1, <1>3, <1>5, <1>6 DEF ScanInv, AnswersOnly

\* A read keeps the place.
LEMMA PlaceRead ==
    ASSUME ScanInv, Orderly, Read
    PROVE  Placed' /\ Delivered'
<1>1. /\ phase = "read" /\ phase' = "scan" /\ items' = items
      /\ Taken' - Len(buf') = Taken - Len(buf)
  BY WindowsRead DEF Read, ScanInv
<1>2. PICK k \in 1..(Len(items) + 1) : At(k)
  BY <1>1 DEF ScanInv, AnswersOnly, Placed
<1>3. At(k)'
  BY <1>1, <1>2 DEF At
<1> QED BY <1>1, <1>3 DEF Placed, Delivered

\* When the loop reads again, the answer at its place is not there as a whole.
LEMMA PlaceNeedMore ==
    ASSUME Format = "MC4E", ScanInv, Orderly, NeedMore
    PROVE  Placed' /\ Delivered'
<1>1. /\ phase = "scan" /\ phase' = "read"
      /\ items' = items /\ wire' = wire /\ buf' = buf
  BY DEF NeedMore
<1>2. TypeOK /\ Windows /\ Uncut
  BY DEF ScanInv
<1>3. PICK k \in 1..(Len(items) + 1) : At(k)
  BY <1>1 DEF ScanInv, AnswersOnly, Placed
<1>4. Taken' = Taken
  BY <1>1, Counts
<1>5. At(k)'
  BY <1>1, <1>3, <1>4 DEF At
<1>6. Unfinished(k)
  <2> SUFFICES ASSUME k <= Len(items) PROVE Taken < StartOf(items, k + 1)
    BY DEF Unfinished
  <2>1. Len(items) \in Nat /\ k \in 1..Len(items)
    BY <1>2, ItemsAre
  <2>2. Len(buf) < Len(Encoded(items[k]))
    <3>1. CASE FindsAnswer(k)
      <4>1. Found.kind # "none"
        BY <3>1 DEF FindsAnswer
      <4> QED BY <3>1, <4>1 DEF FindsAnswer, NeedMore
    <3>2. CASE FindsNothing(k)
      BY <3>2, <2>1 DEF FindsNothing
    <3> QED BY <1>2, <1>3, <3>1, <3>2, FoundAt DEF At
  <2>3. /\ StartOf(items, k) \in Nat /\ Len(Encoded(items[k])) \in Nat
        /\ StartOf(items, k + 1) = StartOf(items, k) + Len(Encoded(items[k]))
    BY <1>2, <2>1, AnswerSize
  <2>4. Taken = StartOf(items, k) + Len(buf)
    <3>1. Taken \in Int /\ Len(buf) \in Nat
      BY <1>2, CountsAreInt
    <3> QED BY <1>3, <2>3, <3>1 DEF At
  <2>5. Len(buf) \in Nat
    BY <1>2, CountsAreInt
  <2> QED BY <2>2, <2>3, <2>4, <2>5
<1>7. Unfinished(k)'
  BY <1>1, <1>4, <1>6 DEF Unfinished
<1> QED BY <1>1, <1>5, <1>7 DEF Placed, Delivered

\* A frame that is found is the answer at the place of the loop.
LEMMA FoundAnswer ==
    ASSUME Format = "MC4E", ScanInv, Orderly, WholeFrame
    PROVE  \E k \in 1..Len(items) : At(k) /\ FindsAnswer(k)
<1>1. phase = "scan" /\ Found.kind = "frame"
  BY DEF WholeFrame
<1>2. PICK k \in 1..(Len(items) + 1) : At(k)
  BY <1>1 DEF ScanInv, AnswersOnly, Placed
<1>3. ~FindsNothing(k)
  BY <1>1 DEF FindsNothing, NotYet
<1> QED BY <1>2, <1>3, FoundAt DEF At, ScanInv

LEMMA MatchingIsMine ==
    ASSUME Format = "MC4E", TypeOK, Orderly, NEW k \in 1..Len(items),
           FindsAnswer(k)
    PROVE  Matching <=> Mine(items[k])
<1>1. Expected = Serial /\ Serial \in Nat \ {0}
  BY ExpectedIsSerial, ScannerAssumption, SerialsAre
<1>2. items[k].serial \in Nat /\ items[k].kind = "answer"
  BY AnswerSize DEF IsAnswer, Orderly
<1>3. Found.serial = items[k].serial /\ Found.serial # Absent
  BY <1>2 DEF FindsAnswer, Absent
<1> QED BY <1>1, <1>2, <1>3 DEF Matching, Mine

\* A frame with another serial is one item, and not the answer.
LEMMA PlaceDrop ==
    ASSUME Format = "MC4E", ScanInv, Orderly, DropFrame
    PROVE  Placed' /\ Delivered'
<1>1. /\ WholeFrame /\ ~Matching
      /\ phase = "scan" /\ phase' = "scan" /\ items' = items
  BY DEF DropFrame, WholeFrame
<1>2. TypeOK /\ Windows
  BY DEF ScanInv
<1>3. PICK k \in 1..Len(items) : At(k) /\ FindsAnswer(k)
  BY <1>1, FoundAnswer
<1>4. Taken' - Len(buf') = (Taken - Len(buf)) + Found.len
  BY <1>2, DropMoves
<1>5. Taken' - Len(buf') = StartOf(items, k + 1)
  BY <1>2, <1>3, <1>4, AnswerSize DEF At, FindsAnswer
<1>6. ~Mine(items[k])
  BY <1>1, <1>2, <1>3, MatchingIsMine
<1>7. Len(items) \in Nat /\ k + 1 \in 1..(Len(items) + 1)
  BY <1>2, ItemsAre
<1>8. \A i \in 1..((k + 1) - 1) : ~Mine(items[i])
  <2> SUFFICES ASSUME NEW i \in 1..((k + 1) - 1) PROVE ~Mine(items[i])
    OBVIOUS
  <2>1. i \in 1..(k - 1) \/ i = k
    BY <1>7
  <2> QED BY <1>3, <1>6, <2>1 DEF At
<1>9. At(k + 1)'
  BY <1>1, <1>5, <1>8 DEF At
<1> QED BY <1>1, <1>7, <1>9 DEF Placed, Delivered

\* What is taken is the answer at the place of the loop, as it was sent.
LEMMA PlaceTake ==
    ASSUME Format = "MC4E", ScanInv, Orderly, TakeFrame
    PROVE  Placed' /\ Delivered'
<1>1. /\ WholeFrame /\ Matching /\ phase' = "ok" /\ items' = items
      /\ result' = SubSeq(buf, 1, Found.len)
  BY DEF TakeFrame
<1>2. TypeOK /\ Windows
  BY DEF ScanInv
<1>3. PICK k \in 1..Len(items) : At(k) /\ FindsAnswer(k)
  BY <1>1, FoundAnswer
<1>4. FirstAnswer(k)
  BY <1>1, <1>2, <1>3, MatchingIsMine DEF FirstAnswer, At
<1>5. SubSeq(buf, 1, Found.len) = Encoded(items[k])
  <2>1. PICK e : e = Encoded(items[k])
    OBVIOUS
  <2>2. /\ buf \in Seq(Byte) /\ e \in Seq(Byte) /\ Len(e) \in Nat
        /\ Found.len = Len(e)
    BY <1>2, <1>3, <2>1, AnswerSize DEF TypeOK, FindsAnswer, IsAnswer
  <2>3. Len(e) <= Len(buf)
    BY <1>1, <2>2 DEF WholeFrame
  <2>4. \A p \in 1..Len(buf) : p <= Len(e) => buf[p] = e[p]
    BY <1>2, <1>3, <2>1, BytesAt DEF At
  <2>5. ASSUME NEW p \in 1..Len(e) PROVE buf[(1 - 1) + p] = e[p]
    <3>1. p \in 1..Len(buf) /\ p <= Len(e) /\ (1 - 1) + p = p
      BY <2>2, <2>3
    <3> QED BY <2>4, <3>1
  <2>6. Len(e) = Len(e) + (1 - 1)
    BY <2>2
  <2>7. SubSeq(buf, 1, Len(e)) = e
    BY <2>2, <2>3, <2>5, <2>6, PieceIs
  <2> QED BY <2>1, <2>2, <2>7
<1>6. FirstAnswer(k)'
  BY <1>1, <1>4 DEF FirstAnswer
<1> QED BY <1>1, <1>3, <1>5, <1>6 DEF Placed, Delivered

\* Among answers no byte is ever skipped.
LEMMA NoSkip ==
    ASSUME Format = "MC4E", ScanInv, Orderly, SkipByte
    PROVE  FALSE
<1>1. phase = "scan"
  BY DEF SkipByte
<1>2. TypeOK /\ Windows /\ Uncut
  BY DEF ScanInv
<1>3. PICK k \in 1..(Len(items) + 1) : At(k)
  BY <1>1 DEF ScanInv, AnswersOnly, Placed
<1>4. CASE k \in 1..Len(items) /\ FindsAnswer(k)
  <2>1. Found.kind = "frame" /\ Found.len = Len(Encoded(items[k]))
    BY <1>4 DEF FindsAnswer
  <2>2. /\ Found.len \in Nat /\ Found.len >= 15 /\ Found.len <= MaxFrameLen
    BY <1>2, <1>4, <2>1, AnswerSize DEF IsAnswer
  <2>3. MaxFrameLen \in Nat
    BY DEF MaxFrameLen
  <2> QED BY <2>1, <2>2, <2>3 DEF SkipByte
<1>5. CASE FindsNothing(k)
  BY <1>5 DEF FindsNothing, NotYet, SkipByte
<1> QED BY <1>2, <1>3, <1>4, <1>5, FoundAt DEF At

LEMMA ScanKept ==
    ASSUME Format = "MC4E", HeadersWhole, ScanInv, [Next]_vars
    PROVE  ScanInv'
<1>1. TypeOK /\ Windows /\ Uncut
  BY DEF ScanInv
<1>2. TypeOK' /\ Windows' /\ Uncut' /\ items' = items
  BY <1>1, TypeKept, WindowsKept, UncutKept
<1>3. ASSUME Orderly PROVE Placed' /\ Delivered'
  <2>0. Placed /\ Delivered
    BY <1>3 DEF ScanInv, AnswersOnly
  <2>1. CASE Read
    BY <1>3, <2>1, PlaceRead
  <2>2. CASE ReadEof
    <3>1. /\ phase = "read" /\ phase' = "eof"
          /\ items' = items /\ wire' = wire /\ buf' = buf
      BY <2>2 DEF ReadEof
    <3>2. Taken' = Taken
      BY <3>1, Counts
    <3>3. PICK k \in 1..(Len(items) + 1) : At(k) /\ Unfinished(k)
      BY <2>0, <3>1 DEF Placed
    <3>4. At(k)' /\ Unfinished(k)'
      BY <3>1, <3>2, <3>3 DEF At, Unfinished
    <3> QED BY <3>1, <3>4 DEF Placed, Delivered
  <2>3. CASE ReadError
    BY <2>3 DEF ReadError, Placed, Delivered
  <2>4. CASE TakeFrame
    BY <1>3, <2>4, PlaceTake
  <2>5. CASE DropFrame
    BY <1>3, <2>5, PlaceDrop
  <2>6. CASE SkipByte
    BY <1>3, <2>6, NoSkip
  <2>7. CASE NeedMore
    BY <1>3, <2>7, PlaceNeedMore
  <2>8. CASE Returned \/ UNCHANGED vars
    <3>1. /\ items' = items /\ wire' = wire /\ buf' = buf
          /\ phase' = phase /\ result' = result
      BY <2>8 DEF Returned, vars
    <3>2. Taken' = Taken
      BY <3>1, Counts
    <3>3. Placed'
      <4> SUFFICES ASSUME phase \in {"read", "scan", "eof"}
                   PROVE  \E k \in 1..(Len(items) + 1) :
                              At(k)' /\ (phase # "scan" => Unfinished(k)')
        BY <3>1 DEF Placed
      <4>1. PICK k \in 1..(Len(items) + 1) :
                At(k) /\ (phase # "scan" => Unfinished(k))
        BY <2>0 DEF Placed
      <4> QED BY <3>1, <3>2, <4>1 DEF At, Unfinished
    <3>4. Delivered'
      BY <2>0, <3>1 DEF Delivered, FirstAnswer
    <3> QED BY <3>3, <3>4
  <2> QED BY <2>1, <2>2, <2>3, <2>4, <2>5, <2>6, <2>7, <2>8 DEF Next, Scan
<1>4. Orderly' => Orderly
  BY <1>2 DEF Orderly
<1> QED BY <1>2, <1>3, <1>4 DEF ScanInv, AnswersOnly

LEMMA ScanInvHolds ==
    ASSUME Format = "MC4E", HeadersWhole
    PROVE  Spec => []ScanInv
<1>1. Init => ScanInv
  BY ScanHolds
<1>2. ScanInv /\ [Next]_vars => ScanInv'
  BY ScanKept
<1> QED BY <1>1, <1>2, PTL DEF Spec

LEMMA AlignedHolds == ScanInv => Aligned
<1> SUFFICES ASSUME ScanInv, Orderly, phase \in {"read", "scan"}
             PROVE  Taken - Len(buf) \in Starts
  BY DEF Aligned
<1>1. PICK k \in 1..(Len(items) + 1) : At(k)
  BY DEF ScanInv, AnswersOnly, Placed
<1>2. Taken - Len(buf) = Start(k)
  BY <1>1, Counts DEF At
<1> QED BY <1>2 DEF Starts

LEMMA FoundHolds == ScanInv => AnswerFound
<1> SUFFICES ASSUME ScanInv, Orderly, phase \in {"read", "eof"},
                    NEW i \in 1..Len(items), Start(i + 1) <= Taken
             PROVE  ~Mine(items[i])
  BY DEF AnswerFound
<1>1. PICK k \in 1..(Len(items) + 1) : At(k) /\ Unfinished(k)
  BY DEF ScanInv, AnswersOnly, Placed
<1>2. /\ items \in Inputs /\ Len(items) \in Nat /\ Taken \in Int
      /\ StartOf(items, i + 1) <= Taken
  BY ItemsAre, CountsAreInt, Counts DEF ScanInv
<1>3. i < k
  <2> SUFFICES ASSUME ~(i < k) PROVE FALSE
    OBVIOUS
  <2>1. /\ k <= Len(items) /\ k + 1 \in 1..(Len(items) + 1)
        /\ i + 1 \in (k + 1)..(Len(items) + 1)
    BY <1>2
  <2>2. /\ StartOf(items, k + 1) \in Nat /\ StartOf(items, i + 1) \in Nat
        /\ StartOf(items, k + 1) <= StartOf(items, i + 1)
    BY <1>2, <2>1, StartsGrow
  <2>3. Taken < StartOf(items, k + 1)
    BY <1>1, <2>1 DEF Unfinished
  <2> QED BY <1>2, <2>2, <2>3
<1>4. i \in 1..(k - 1)
  BY <1>2, <1>3
<1> QED BY <1>1, <1>4 DEF At

LEMMA IntactHolds == Format = "MC4E" /\ ScanInv => AnswerIntact
<1> SUFFICES ASSUME Format = "MC4E", ScanInv, Orderly, phase = "ok"
             PROVE  \E i \in 1..Len(items) :
                        /\ FirstAnswer(i)
                        /\ result = Encoded(items[i])
                        /\ Outcome(result) =
                              IF items[i].endCode = 0
                              THEN [kind |-> "success", data |-> items[i].data]
                              ELSE [kind |-> "endcode",
                                    code |-> items[i].endCode]
  BY DEF AnswerIntact
<1>1. PICK k \in 1..Len(items) : FirstAnswer(k) /\ result = Encoded(items[k])
  BY DEF ScanInv, AnswersOnly, Delivered
<1>2. IsItem(items[k]) /\ items[k].kind = "answer"
  BY ItemsAre DEF ScanInv, Orderly
<1>3. Outcome(Encoded(items[k])) =
          IF items[k].endCode = 0
          THEN [kind |-> "success", data |-> items[k].data]
          ELSE [kind |-> "endcode", code |-> items[k].endCode]
  BY <1>2, AnswerOutcome
<1> QED BY <1>1, <1>3

(***************************************************************************)
(* The theorems.                                                           *)
(***************************************************************************)

\* The buffer, the wire and what is returned are sequences of bytes, whatever
\* the PLC sends and however it is cut.
THEOREM TypeCorrect == Spec => []TypeOK
BY TypeInv

\* Whatever bytes arrive, among them frames with lengths that are too small or
\* too large, and wherever they are cut, the loop returns a whole MC4E frame
\* with the serial of the request or nothing.
THEOREM AnswerCarriesSerialCorrect ==
    Format = "MC4E" => (Spec => []AnswerCarriesSerial)
<1> SUFFICES ASSUME Format = "MC4E"
             PROVE  Spec => []AnswerCarriesSerial
  OBVIOUS
<1>1. Init => AnswerCarriesSerial
  BY DEF Init, AnswerCarriesSerial
<1>2. TypeOK /\ AnswerCarriesSerial /\ [Next]_vars => AnswerCarriesSerial'
  BY SerialKept
<1>3. Spec => []TypeOK
  BY TypeInv
<1> QED BY <1>1, <1>2, <1>3, PTL DEF Spec

\* Among answers whose headers arrive whole the loop never loses its place,
\* whatever the answers hold, however many there are and wherever the reads
\* cut them otherwise: the buffer always starts where an answer starts.
THEOREM AlignedCorrect ==
    Format = "MC4E" /\ HeadersWhole => (Spec => []Aligned)
<1> SUFFICES ASSUME Format = "MC4E", HeadersWhole PROVE Spec => []Aligned
  OBVIOUS
<1>1. Spec => []ScanInv
  BY ScanInvHolds
<1> QED BY <1>1, AlignedHolds, PTL

\* Under the same conditions the loop neither waits for more bytes nor ends
\* while the answer to its request is in the buffer as a whole.
THEOREM AnswerFoundCorrect ==
    Format = "MC4E" /\ HeadersWhole => (Spec => []AnswerFound)
<1> SUFFICES ASSUME Format = "MC4E", HeadersWhole PROVE Spec => []AnswerFound
  OBVIOUS
<1>1. Spec => []ScanInv
  BY ScanInvHolds
<1> QED BY <1>1, FoundHolds, PTL

\* Under the same conditions what is returned is the first answer with the
\* serial of the request, byte for byte, and parse_frame and
\* check_response_end_code read in it the end code and the data of the PLC.
THEOREM AnswerIntactCorrect ==
    Format = "MC4E" /\ HeadersWhole => (Spec => []AnswerIntact)
<1> SUFFICES ASSUME Format = "MC4E", HeadersWhole PROVE Spec => []AnswerIntact
  OBVIOUS
<1>1. Spec => []ScanInv
  BY ScanInvHolds
<1>2. ScanInv => AnswerIntact
  BY IntactHolds
<1> QED BY <1>1, <1>2, PTL
====
