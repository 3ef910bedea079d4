--------------------------- MODULE MCFrameScanner ---------------------------
(* FrameScanner on short streams. *)
EXTENDS FrameScanner, TLC

Items ==
    {AnswerItem(serial, endCode, data) :
        serial \in {Serial, 212, 3}, endCode \in {0, 49240},
        data \in {<<>>, <<7>>, <<212, 0>>}}
Own == {item \in Items : Mine(item)}

\* Headers with a length field that is too small or too large, and an answer
\* cut off at its front.
Odd ==
    {<<212, 0, 5, 1, 0, 0, 0, 255, 255, 3, 0, 1, 0, 0, 0>>,
     <<84, 0, 5, 1, 0, 0, 0, 255, 255, 3, 0, 255, 255, 0, 0>>,
     <<212, 0, 212, 0, 212, 0, 212, 0, 212, 0>>,
     SubSeq(Answer(Format, Serial, 0, <<7>>), 6, 16),
     <<0>>, <<255, 255>>}
Noisy == {Noise(b) : b \in Odd} \cup {AnswerItem(Serial, 0, <<7>>)}

OwnAnswers == {<<i>> : i \in Own}
AllStreams ==
    {<<i>> : i \in Items} \cup (Items \X Items)
    \cup (Noisy \X Noisy) \cup (Noisy \X Noisy \X Noisy)
====
