--------------------------- MODULE MCUdpExchange ---------------------------
(* UdpExchange with a few datagrams of others. *)
EXTENDS UdpExchange

\* Longer than the answer, of an earlier request.
LongStrays == {[serial |-> 7, len |-> 40]}

\* Shorter than the answer, or without a serial, too.
AllStrays == LongStrays \cup {[serial |-> 7, len |-> 16], [serial |-> 468, len |-> 2]}
====
