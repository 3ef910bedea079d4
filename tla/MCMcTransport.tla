--------------------------- MODULE MCMcTransport ---------------------------
(* McTransport on small sets. *)
EXTENDS McTransport, TLC

\* Calls and connections are interchangeable in the safety runs.
Symmetry == Permutations(Calls) \cup Permutations(Streams)
====
