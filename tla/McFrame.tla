------------------------------ MODULE McFrame ------------------------------
(***************************************************************************)
(* The layout of MC3E and MC4E frames: what McRequest builds, and what     *)
(* detect_frame and parse_frame make of a buffer.  A buffer is a sequence  *)
(* of bytes; offsets count from 0, as in the code.                         *)
(***************************************************************************)
EXTENDS Integers, SequencesExt, FiniteSetsExt

Absent == -1                          \* None of an Option of a number
Byte == 0..255
MaxWord == 65535
Word16 == 0..MaxWord

\* Faulty variant of LowHigh: the low byte is not masked.
LowHighWide(v) == <<v, v \div 256>>

LowHigh(v) == <<v % 256, v \div 256>>    \* u16::to_le_bytes
HighLow(v) == <<v \div 256, v % 256>>    \* u16::to_be_bytes

\* u16::from_le_bytes of the bytes at offset i.
Word(buf, i) == buf[i + 1] + 256 * buf[i + 2]

\* The bytes at offsets first .. end-1, as far as the buffer has them.
Slice(buf, first, end) == SubSeq(buf, first + 1, Min({Len(buf), end}))

\* MC_SUBHEADER_REQUEST, MC_SUBHEADER_RESPONSE and the default AccessRoute.
RequestSubheader == <<84, 0>>
ResponseSubheader == <<212, 0>>
Subheader3E == <<208, 0>>             \* of the answers of a PLC to MC3E frames
DefaultRoute == <<0, 255, 255, 3, 0>>

(***************************************************************************)
(* Requests.                                                               *)
(***************************************************************************)

\* build_mc_payload_with_format: the timer is big-endian in an MC4E frame and
\* little-endian in an MC3E frame, which has no serial.
BuildPayload(r, format) ==
    IF format = "MC4E"
    THEN r.subheader \o LowHigh(r.serial) \o <<0, 0>> \o r.route
         \o LowHigh(r.len) \o HighLow(r.timer) \o r.data
    ELSE r.subheader \o r.route \o LowHigh(r.len) \o LowHigh(r.timer) \o r.data

\* What the transports expect in an answer: bytes 2 and 3 of the payload,
\* whatever its format.
ExpectedSerial(payload) == IF Len(payload) >= 4 THEN Word(payload, 2) ELSE 0

(***************************************************************************)
(* Answers of the PLC (not part of the crate).  The length counts the end  *)
(* code.                                                                   *)
(***************************************************************************)
Answer(format, serial, endCode, data) ==
    (IF format = "MC4E" THEN ResponseSubheader \o LowHigh(serial) \o <<0, 0>>
     ELSE Subheader3E)
    \o DefaultRoute \o LowHigh(2 + Len(data)) \o LowHigh(endCode) \o data

(***************************************************************************)
(* detect_frame.                                                           *)
(***************************************************************************)
NotYet == [kind |-> "none"]
Malformed == [kind |-> "error"]
Frame(header, len, serial) ==
    [kind |-> "frame", len |-> header + len - 2, serial |-> serial]

\* A whole MC4E header is there.
Is4E(buf) ==
    /\ Len(buf) >= 15
    /\ buf[1] \in {RequestSubheader[1], ResponseSubheader[1]}

\* Read as a header of this length, with its length field at offset i, the
\* buffer announces at least an end code.
Announces(buf, header, i) == Len(buf) >= header /\ Word(buf, i) >= 2

\* Faulty variant of DetectFrame: the two bytes of the end code count twice.
DetectFrameLong(buf) ==
    IF Is4E(buf)
    THEN IF Word(buf, 11) < 2 THEN Malformed
         ELSE Frame(15, Word(buf, 11) + 2, Word(buf, 2))
    ELSE IF Announces(buf, 11, 7) THEN Frame(11, Word(buf, 7), Absent)
    ELSE IF Announces(buf, 9, 5) THEN Frame(9, Word(buf, 5), Absent)
    ELSE NotYet

DetectFrame(buf) ==
    IF Is4E(buf)
    THEN IF Word(buf, 11) < 2 THEN Malformed
         ELSE Frame(15, Word(buf, 11), Word(buf, 2))
    ELSE IF Announces(buf, 11, 7) THEN Frame(11, Word(buf, 7), Absent)
    ELSE IF Announces(buf, 9, 5) THEN Frame(9, Word(buf, 5), Absent)
    ELSE NotYet

(***************************************************************************)
(* parse_frame, with the data slice its two callers cut out of the buffer. *)
(***************************************************************************)
Refused == [kind |-> "refused"]

Parsed(subheader, route, len, data, endCode, timer, serial) ==
    [kind |-> "parsed", subheader |-> subheader, route |-> route, len |-> len,
     data |-> data, endCode |-> endCode, timer |-> timer, serial |-> serial]

\* Faulty variant of ParseFrame: the data starts at the end code.
ParseFrameEarly(buf) ==
    Parsed(SubSeq(buf, 1, 2), Slice(buf, 6, 11), Word(buf, 11),
           Slice(buf, 13, 13 + Word(buf, 11) - 2), Word(buf, 13), Absent,
           Word(buf, 2))

\* Two bytes after an 11-byte header are the monitor timer of a request, never
\* an end code; in the 9-byte form, which has no subheader, they are one.
ParseFrame(buf) ==
    IF Len(buf) < 2 THEN Refused
    ELSE IF Is4E(buf) THEN
        IF Word(buf, 11) < 2 THEN Refused
        ELSE Parsed(SubSeq(buf, 1, 2), Slice(buf, 6, 11), Word(buf, 11),
                    Slice(buf, 15, 15 + Word(buf, 11) - 2), Word(buf, 13),
                    Absent, Word(buf, 2))
    ELSE IF Announces(buf, 11, 7) THEN
        Parsed(SubSeq(buf, 1, 2), Slice(buf, 2, 7), Word(buf, 7),
               Slice(buf, 11, 11 + Word(buf, 7) - 2), Absent, Word(buf, 9),
               Absent)
    ELSE IF Announces(buf, 9, 5) THEN
        Parsed(Subheader3E, Slice(buf, 0, 5), Word(buf, 5),
               Slice(buf, 9, 9 + Word(buf, 5) - 2), Word(buf, 7), Absent,
               Absent)
    ELSE Parsed(SubSeq(buf, 1, 2), <<0, 0, 0, 0, 0>>, Len(buf) - 2,
                Slice(buf, 2, Len(buf)), Absent, Absent, Absent)

\* What McClient makes of the bytes a transport returned: parse_mc_payload,
\* then check_response_end_code.  A frame without an end code is a success.
Outcome(buf) ==
    LET r == ParseFrame(buf) IN
    CASE r.kind = "refused" -> [kind |-> "failed"]
      [] r.kind = "parsed" /\ r.endCode > 0 ->
            [kind |-> "endcode", code |-> r.endCode]
      [] OTHER -> [kind |-> "success", data |-> r.data]
====
