----------------------------- MODULE MCExCommand ------------------------------
(* A character that is also a command which asks for lines, the character   *)
(* that ends them, one of a register, and a given command with a quote.     *)
EXTENDS ExCommand, TLC

CONSTANTS p, q

MCChar == {"a", "."}
MCRegs == [c \in MCChar |-> IF c = "a" THEN <<>> ELSE <<"a">>]
MCClips == {<<"a", ".">>}
MCOpens == {<<":">>, <<":", "!">>, <<"/">>, <<"^R", "=">>}
MCHistories == {<<>>, <<<<"a">>, <<"'", "a">>>>}
MCInputs == {<<"a">>}
MCPlaces == {p, q}
\* The places of the document are alike.
MCSymmetry == Permutations(MCPlaces)
===============================================================================
