---------------------------- MODULE MCRegistries ----------------------------
(* Registries for interchangeable tasks, with files of a few entries. *)
EXTENDS Registries, TLC

Symmetry == Permutations(Tasks)

Entry(c, n, d, k) == [code |-> c, name |-> n, description |-> d, category |-> k]
Num(n) == [number |-> n]
Text(t) == [text |-> t]

\* "0x02" and "0xC061".
Embedded ==
    <<Entry(Text(<<"0", "x", "0", "2">>), "MC_ERR_0002", "range", "Addressing"),
      Entry(Text(<<"0", "x", "C", "0", "6", "1">>), "MC_ERR_C061", "length",
            "DataFormat")>>

\* Describes 0xC061 anew, as the decimal " 49249", and adds a code, twice.
Overrides ==
    <<Entry(Text(<<" ", "4", "9", "2", "4", "9">>), None, "length of request",
            None),
      Entry(Num(40), "OWN_40", "first", "Network"),
      Entry(Num(40), "OWN_40", None, "Icmp")>>

\* The codes of all of these are refused.
BadCodes ==
    {Num(65536), Num(-1), Text(<<"C", "0", "6", "1">>), Text(<<"0", "x">>),
     Text(<<"0", "X", "2">>), Text(<<"0", "x", "1", "0", "0", "0", "0">>)}
Bad(c) == <<Entry(Num(2), "OWN_2", "mine", "Network"),
               Entry(c, "OWN", "bad", "Network")>>

OneFile == {Overrides}
SeveralFiles == OneFile \cup {Bad(c) : c \in BadCodes}
====
