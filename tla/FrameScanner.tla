---------------------------- MODULE FrameScanner ----------------------------
(***************************************************************************)
(* The read loop of perform_stream_io, byte by byte: TCP delivers what the *)
(* PLC sent in pieces of any length, and the loop finds the answer to its  *)
(* request among the frames.  McTransport treats a frame as one message;   *)
(* this module shows what that rests on.                                   *)
(***************************************************************************)
EXTENDS McFrame

CONSTANTS
    Format,         \* the mc_format of the client
    Serial,         \* the serial of the request
    Inputs,         \* what the PLC may send: sequences of items
    HeadersWhole    \* TRUE: no read ends in bytes 11 to 14 of an answer

MaxFrameLen == 65535
ReadSize == 4096      \* length of the array that is read into
Serials == 1..65535   \* serials of requests

\* An item is an answer frame or some other bytes.
AnswerItem(serial, endCode, data) ==
    [kind |-> "answer", serial |-> serial, endCode |-> endCode, data |-> data]
Noise(bytes) == [kind |-> "noise", bytes |-> bytes]

Encoded(item) ==
    IF item.kind = "noise" THEN item.bytes
    ELSE Answer(Format, item.serial, item.endCode, item.data)

\* The bytes of a sequence of items.
Stream(s) == FlattenSeq([j \in 1..Len(s) |-> Encoded(s[j])])

\* The answer to the request of this exchange.
Mine(item) == item.kind = "answer" /\ item.serial = Serial

\* An answer with its header is not longer than MaxFrameLen.
MaxData == MaxFrameLen - 15
IsItem(item) ==
    \/ item.kind = "noise" /\ item.bytes \in Seq(Byte)
    \/ /\ item.kind = "answer"
       /\ item.serial \in Word16 /\ item.endCode \in Word16
       /\ item.data \in Seq(Byte) /\ Len(item.data) <= MaxData

ASSUME ScannerAssumption ==
    /\ Format \in {"MC4E", "MC3E"}
    /\ Serial \in Serials
    /\ HeadersWhole \in BOOLEAN
    /\ \A s \in Inputs :
           Len(s) \in Nat /\ \A i \in 1..Len(s) : IsItem(s[i])

VARIABLES
    items,    \* what the PLC sends in this exchange; it does not change
    wire,     \* the bytes of it that no read has returned
    buf,      \* the buffer of the loop
    phase,    \* "read", "scan", or how the loop ended: "ok", "eof", "error"
    result    \* the frame returned

vars == <<items, wire, buf, phase, result>>

Payload == BuildPayload([subheader |-> RequestSubheader, serial |-> Serial,
                         route |-> DefaultRoute, len |-> 3, timer |-> 4096,
                         data |-> <<1>>], Format)
Expected == ExpectedSerial(Payload)

\* The offsets in the stream at which an item starts, or the stream ends.
Start(i) == Len(FlattenSeq([j \in 1..(i - 1) |-> Encoded(items[j])]))
Starts == {Start(i) : i \in 1..(Len(items) + 1)}
Total == Start(Len(items) + 1)
Taken == Total - Len(wire)

Init ==
    /\ items \in Inputs
    /\ wire = Stream(items)
    /\ buf = <<>>
    /\ phase = "read"
    /\ result = <<>>

(***************************************************************************)
(* Reading.                                                                *)
(***************************************************************************)

\* A read that ends here leaves bytes 11 to 14 of an answer at the end.
CutsHeader(end) ==
    \E i \in 1..Len(items) :
        items[i].kind = "answer" /\ end - Start(i) \in 11..14

\* stream.read returns some of the bytes that are there.
Read ==
    /\ phase = "read"
    /\ \E n \in 1..Min({Len(wire), ReadSize}) :
          /\ HeadersWhole => ~CutsHeader(Taken + n)
          /\ buf' = buf \o SubSeq(wire, 1, n)
          /\ wire' = SubSeq(wire, n + 1, Len(wire))
    /\ phase' = "scan"
    /\ UNCHANGED <<items, result>>

\* The PLC has closed the connection: a read of 0 bytes ends the loop.
ReadEof ==
    /\ phase = "read"
    /\ wire = <<>>
    /\ phase' = "eof"
    /\ UNCHANGED <<items, wire, buf, result>>

\* The read fails, or its timeout fires.
ReadError ==
    /\ phase = "read"
    /\ phase' = "error"
    /\ UNCHANGED <<items, wire, buf, result>>

(***************************************************************************)
(* One turn of the inner loop for each of its exits and continues.         *)
(***************************************************************************)
Found == DetectFrame(buf)

\* A frame that may be taken or dropped is in the buffer as a whole.
WholeFrame ==
    /\ phase = "scan"
    /\ Found.kind = "frame"
    /\ Found.len \in 1..MaxFrameLen
    /\ Len(buf) >= Found.len

\* Faulty variant of Matching: a frame without a serial is taken, too.
MatchingLoose == Found.serial = Absent \/ Found.serial = Expected

\* A frame without a serial counts as serial 0.
Matching ==
    \/ Expected = 0
    \/ (IF Found.serial = Absent THEN 0 ELSE Found.serial) = Expected

\* The first matching frame is returned; the rest of the buffer is lost.
TakeFrame ==
    /\ WholeFrame
    /\ Matching
    /\ result' = SubSeq(buf, 1, Found.len)
    /\ buf' = SubSeq(buf, Found.len + 1, Len(buf))
    /\ phase' = "ok"
    /\ UNCHANGED <<items, wire>>

\* Faulty variant of DropFrame: what follows the frame is dropped with it.
DropFrameAll ==
    /\ WholeFrame
    /\ ~Matching
    /\ buf' = <<>>
    /\ UNCHANGED <<items, wire, phase, result>>

\* A frame with another serial is dropped and the scan goes on.
DropFrame ==
    /\ WholeFrame
    /\ ~Matching
    /\ buf' = SubSeq(buf, Found.len + 1, Len(buf))
    /\ UNCHANGED <<items, wire, phase, result>>

\* Faulty variant of SkipByte: the byte stays in the buffer.
SkipByteStays ==
    /\ phase = "scan"
    /\ Found.kind = "error"
    /\ UNCHANGED <<items, wire, buf, phase, result>>

\* No frame starts here, or one too long: try one byte further.
SkipByte ==
    /\ phase = "scan"
    /\ \/ Found.kind = "error"
       \/ Found.kind = "frame" /\ Found.len \notin 1..MaxFrameLen
    /\ buf' = Tail(buf)
    /\ UNCHANGED <<items, wire, phase, result>>

\* The buffer ends before the frame, or before its header, does.
NeedMore ==
    /\ phase = "scan"
    /\ \/ Found.kind = "none"
       \/ /\ Found.kind = "frame"
          /\ Found.len \in 1..MaxFrameLen
          /\ Len(buf) < Found.len
    /\ phase' = "read"
    /\ UNCHANGED <<items, wire, buf, result>>

Scan == TakeFrame \/ DropFrame \/ SkipByte \/ NeedMore

\* perform_stream_io has returned.
Returned ==
    /\ phase \in {"ok", "eof", "error"}
    /\ UNCHANGED vars

Next == Read \/ ReadEof \/ ReadError \/ Scan \/ Returned

Spec == Init /\ [][Next]_vars

\* The inner loop runs without an await.
FairSpec == Spec /\ WF_vars(Scan)

----------------------------------------------------------------------------
TypeOK ==
    /\ items \in Inputs
    /\ wire \in Seq(Byte)
    /\ buf \in Seq(Byte)
    /\ phase \in {"read", "scan", "ok", "eof", "error"}
    /\ result \in Seq(Byte)

\* The PLC sends nothing but answers.
Orderly == \A i \in 1..Len(items) : items[i].kind = "answer"

\* The loop never loses its place among answers: whatever the pieces in which
\* the bytes arrive, the buffer starts where an answer starts, and it holds the
\* bytes that follow there.
Aligned ==
    Orderly /\ phase \in {"read", "scan"} => Taken - Len(buf) \in Starts

\* However its bytes are cut into reads, an answer that is in the buffer as a
\* whole is found: the loop neither waits for more nor ends without it.
AnswerFound ==
    Orderly /\ phase \in {"read", "eof"} =>
        \A i \in 1..Len(items) : Start(i + 1) <= Taken => ~Mine(items[i])

\* What is returned is the first answer to this request, as the PLC sent it,
\* and McClient reads the end code and the data in it that the PLC put there.
FirstAnswer(i) == Mine(items[i]) /\ \A j \in 1..(i - 1) : ~Mine(items[j])
AnswerIntact ==
    Orderly /\ phase = "ok" => \E i \in 1..Len(items) :
        /\ FirstAnswer(i)
        /\ result = Encoded(items[i])
        /\ Outcome(result) =
              IF items[i].endCode = 0
              THEN [kind |-> "success", data |-> items[i].data]
              ELSE [kind |-> "endcode", code |-> items[i].endCode]

\* Also among bytes that are no frames, what is returned carries the serial
\* of the request and is as long as its length field says.
AnswerCarriesSerial ==
    phase = "ok" =>
        /\ Word(result, 2) = Serial
        /\ Len(result) = 13 + Word(result, 11)

\* The inner loop ends, whatever the buffer holds.
ScanEnds == phase = "scan" ~> phase # "scan"

\* detect_frame "returns Ok(None) when the header is incomplete": on the first
\* bytes of an answer it never announces a frame before the header is whole.
IncompleteHeaderWaits ==
    phase = "scan" => \A i \in 1..Len(items) :
        items[i].kind = "answer" /\ Len(buf) < 15
        /\ IsPrefix(buf, Encoded(items[i])) => Found = NotYet
====
