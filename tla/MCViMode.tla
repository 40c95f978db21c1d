------------------------------- MODULE MCViMode -------------------------------
(* Six users of ViMode: one who inserts and repeats, one who selects and   *)
(* changes, one who inserts in a block, one who changes a word, and two    *)
(* who edit what they insert.                                              *)
EXTENDS ViMode

MCUsers ==
  {[keys |-> {"i", "d", "w", "~", ".", "2", "esc"}, texts |-> {"."},
    selects |-> FALSE, edits |-> FALSE,
    session |-> 2, text |-> 1],
   [keys |-> {"c", "y", "w", "K", "esc"}, texts |-> {"w"},
    selects |-> TRUE, edits |-> FALSE,
    session |-> 2, text |-> 1],
   [keys |-> {"i", "x", "K", "t", "esc"}, texts |-> {"t"},
    selects |-> TRUE, edits |-> FALSE,
    session |-> 3, text |-> 1],
   [keys |-> {"i", ".", "esc"}, texts |-> {"t", "."},
    selects |-> FALSE, edits |-> TRUE, session |-> 3, text |-> 2],
   [keys |-> {"c", "w", "esc"}, texts |-> {"t"},
    selects |-> TRUE, edits |-> FALSE, session |-> 3, text |-> 1],
   [keys |-> {"c", "w", "esc"}, texts |-> {"t"},
    selects |-> FALSE, edits |-> TRUE, session |-> 2, text |-> 1]}
=============================================================================
