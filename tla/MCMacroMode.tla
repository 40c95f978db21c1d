------------------------------ MODULE MCMacroMode ------------------------------
(* Small instance of MacroMode: register a, appended to by A, and the      *)
(* macro long.                                                             *)
EXTENDS MacroMode, TLC

CONSTANTS a, A, long

MCName == {a, A, long}
MCAppends == {A}
MCLong == {long}
MCFold == (A :> a) @@ [n \in {a, long} |-> n]
MCVariables == {}

C(op, arg, cnt) == [op |-> op, arg |-> arg, cnt |-> cnt]

MCTyped ==
  {C("edit", NoName, 1), C("yank", A, 1), C("q", a, 1), C("q", A, 1),
   C("q", long, 1), C("q", NoName, 1), C("play", a, 2), C("play", long, 1)}
MCTexts == {C("q", long, 1), C("again", NoName, 1)}

MaxContents == 2

Bounded == \A n \in Name : Len(Contents(macros[n])) <= MaxContents
=============================================================================
