--------------------------- MODULE MCDeviceTables ---------------------------
(* DeviceTables for a part of the embedded list and four files. *)
EXTENDS DeviceTables

Device(symbol, code, category, base) ==
    [symbol |-> symbol, code |-> code, category |-> category, base |-> base,
     series |-> {"Q", "R"}]

D == Device(<<"D">>, 168, "Word", "Decimal")
X == Device(<<"X">>, 156, "Bit", "Hexadecimal")
S == Device(<<"S">>, 152, "Bit", "Decimal")
SB == Device(<<"S", "B">>, 161, "Bit", "Hexadecimal")
LTN == Device(<<"L", "T", "N">>, 82, "DoubleWord", "Decimal")
LSTN == Device(<<"L", "S", "T", "N">>, 82, "Word", "Decimal")

EmbeddedPart == <<D, X, LTN, LSTN, SB, S>>

\* Another base and category for D; the symbol X for the code of S, which is
\* S for all that; a file with a good entry and one for no device.
FileSet ==
    [other |-> <<[D EXCEPT !.base = "Hexadecimal", !.category = "Bit"], X, SB>>,
     moved |-> <<[X EXCEPT !.code = 152], D, [D EXCEPT !.category = "Bit"]>>,
     unknown |-> <<D, [D EXCEPT !.code = 1]>>]

\* Read in each base; a symbol alone; letters that are digits, too; one of two
\* symbols with one code; blanks; texts that mean nothing.
TextSet ==
    {<<"D", "1", "0">>, <<" ", "d", " ", "1", "0", " ">>, <<"D">>,
     <<"X", "1", "f">>, <<"X", "F">>, <<"S", "B", "1", "0">>,
     <<"L", "T", "N", "5">>, <<"1", "0">>,
     <<"D", "1", "6", "7", "7", "7", "2", "1", "6">>, <<"D", "+", "7">>}

ASSUME AppSymbolsApart == SymbolsApart

Symmetry == Permutations(Tasks)
====
