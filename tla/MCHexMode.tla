------------------------------ MODULE MCHexMode -------------------------------
(* Three bytes, one of which is a control character, two on a line, and      *)
(* texts of one line and of a line and a half.                               *)
EXTENDS HexMode

MCByte == {"NUL", "@", "D"}
MCControl == {"NUL"}
MCDigit == {"0", "4"}
MCCode == "NUL" :> <<"0", "0">> @@ "@" :> <<"4", "0">> @@ "D" :> <<"4", "4">>
MCNl == "nl"
MCTexts == {<<"@", "NUL">>, <<"D", "@", "NUL">>}
MCInserts == {<<"D">>, <<"@", "NUL">>}
===============================================================================
