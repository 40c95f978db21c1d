------------------------------ MODULE MCExStream ------------------------------
(* Small instances of ExStream: texts of two or three lines, with and      *)
(* without a newline at the end.                                           *)
EXTENDS ExStream

CONSTANTS foo, bar

MCWord == {foo, bar}
MCFiles == {<<foo, Nl, bar, Nl>>, <<foo, Nl, bar>>}
MCTexts == {<<Nl>>}

MCSubs ==
  {[pattern |-> foo, with |-> <<bar>>, kind |-> "plain", global |-> FALSE],
   [pattern |-> bar, with |-> <<>>, kind |-> "plain", global |-> TRUE],
   [pattern |-> foo, with |-> <<bar>>, kind |-> "regex", global |-> TRUE],
   [pattern |-> foo, with |-> <<bar>>, kind |-> "groups", global |-> TRUE]}
=============================================================================
