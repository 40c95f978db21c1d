------------------------------- MODULE TextLines ------------------------------
(***************************************************************************)
(* The text of the editor component of wxWidgets as the code sees it: a    *)
(* sequence, positions in it from 0, and its lines from 0, which lie       *)
(* between the newlines; the last line may be empty.                       *)
(***************************************************************************)
EXTENDS Integers, SequencesExt

CONSTANT Nl \* the newline

Newlines(t) == {i \in DOMAIN t : t[i] = Nl}

\* GetLineCount and LineFromPosition.
Count(t) == Cardinality(Newlines(t)) + 1

LineOf(t, pos) == Cardinality({i \in Newlines(t) : i <= pos})

\* PositionFromLine: of a line after the last one the end of the text.
LineStart(t, line) ==
  IF line <= 0 THEN 0
  ELSE Min({Len(t)} \cup {i \in Newlines(t) : LineOf(t, i) = line})

\* GetLineEndPosition: in front of the newline.
LineEnd(t, line) ==
  Min({Len(t)} \cup {i - 1 : i \in {j \in Newlines(t) : LineOf(t, j) > line}})

\* The lines of a text, without their newlines.
LineText(t, line) == SubSeq(t, LineStart(t, line) + 1, LineEnd(t, line))
Lines(t) == [k \in 1..Count(t) |-> LineText(t, k - 1)]

===============================================================================
