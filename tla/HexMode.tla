------------------------------- MODULE HexMode --------------------------------
(***************************************************************************)
(* The hex mode of the text component: hexmode.cpp, hexmode-line.cpp and   *)
(* factory/hexmode.cpp.  The component shows a dump of a buffer, each line *)
(* with a field of three cells for each byte and, behind these, a cell for *)
(* each byte.  Edits are done in both, at a position in the dump; whole    *)
(* changes of the buffer make a new dump.                                  *)
(*                                                                         *)
(* The component keeps the undo history, as texts; a single step of it is  *)
(* a call of the component, and the steps of an undo group are one.  The   *)
(* text is shown outside hex mode in a component that is in vi's visual    *)
(* mode, and is not readonly.                                              *)
(***************************************************************************)
EXTENDS TextLines

CONSTANTS
  Byte,       \* the bytes, which are the characters of a text as well
  Control,    \* those that are not printed
  Digit,      \* the hex digits
  Code,       \* the two digits of a byte
  PerLine,    \* m_bytes_per_line
  Texts,      \* the texts in the beginning
  Inserts,    \* the texts that are inserted or appended, or replace a target
  MaxBytes,   \* bound: the length of the buffer
  MaxEdits    \* bound: the edits, the last of which ends a behaviour

ASSUME HexAssumption ==
  /\ PerLine \in Nat \ {0}
  /\ Byte \cap (Digit \cup {" ", ".", Nl}) = {}
  /\ Digit \cap {" ", ".", Nl} = {} /\ Nl \notin {" ", "."}
  /\ Code \in [Byte -> Digit \X Digit]
  /\ \A b1, b2 \in Byte : Code[b1] = Code[b2] => b1 = b2
  /\ Texts \cup Inserts \subseteq Seq(Byte)
  /\ MaxBytes \in Nat /\ MaxEdits \in Nat

VARIABLES
  text,      \* what the component shows
  caret,     \* the current position in it
  active,    \* m_is_active
  buffer,    \* m_buffer
  original,  \* m_buffer_original
  undo,      \* the undo history, see Steps
  did,       \* the last edit, and how many there were
  astray     \* what has happened that leaves dump and buffer apart

vars == <<text, caret, active, buffer, original, undo, did, astray>>

-----------------------------------------------------------------------------
(* The dump.                                                               *)

EachField == 3
Ascii == EachField * PerLine
Width == Ascii + PerLine

Shown(b) == IF b \in Control THEN "." ELSE b

Field(b) == Code[b] \o <<" ">>

\* hexmode::line: the bytes from an offset, and a newline if there are more.
DumpLine(t, offset) ==
  LET n == Min({PerLine, Len(t) - offset})
      Here(k) == t[offset + k]
  IN  FlattenSeq([k \in 1..n |-> Field(Here(k))])
      \o [k \in 1..(EachField * (PerLine - n)) |-> " "]
      \o [k \in 1..n |-> Shown(Here(k))]
      \o (IF Len(t) - offset > PerLine THEN <<Nl>> ELSE <<>>)

\* hexmode::lines.
Dump(t) ==
  FlattenSeq([k \in 1..((Len(t) + PerLine - 1) \div PerLine)
                |-> DumpLine(t, (k - 1) * PerLine)])

-----------------------------------------------------------------------------
(* A place in the dump: hexmode_line.                                      *)

None == -1

\* The place of the caret.
At(t, pos) == [line |-> LineOf(t, pos), col |-> pos - LineStart(t, LineOf(t, pos))]

\* That of a position: behind the end of a line it is the next one's.
Place(t, pos) ==
  LET p == At(t, pos)
  IN  IF p.col >= Width THEN [line |-> p.line + 1, col |-> Ascii] ELSE p

IsAscii(p) == p.col \in Ascii..(Width - 1)
IsHex(p) == p.col \in 0..(Ascii - 1)

\* The cell of a place; behind the text there is a zero.
Cell(t, p) ==
  LET at == LineStart(t, p.line) + p.col + 1
  IN  IF at \in DOMAIN t THEN t[at] ELSE Nl

\* is_readonly and buffer_index: of a blank there is none.  The shift of the
\* line by 4 bits is for the 16 bytes on a line that the program has.
Index(t, p) ==
  CASE IsAscii(p) -> p.line * PerLine + p.col - Ascii
    [] IsHex(p) /\ Cell(t, p) # " " -> p.line * PerLine + p.col \div EachField
    [] OTHER -> None

\* other_field, of a place that is not blank.
\* Not so: the remainder is not the byte.
OtherWide(p) ==
  IF IsAscii(p) THEN EachField * (p.col - Ascii) ELSE Ascii + (p.col % EachField)

Other(p) ==
  IF IsAscii(p) THEN EachField * (p.col - Ascii)
  ELSE Ascii + p.col \div EachField

-----------------------------------------------------------------------------
(* The component.                                                          *)

\* The history of undo: the texts to go back to, how many groups are open,
\* whether the open group has no step yet, and where the save point is.  The
\* texts ts follow each other, each a step unless a group is open.
Steps(u, from, ts) ==
  LET past == IF ts = <<>> THEN u.past
              ELSE IF u.depth = 0 THEN u.past \o <<from>> \o Front(ts)
              ELSE IF u.fresh THEN Append(u.past, from) ELSE u.past
  IN  [past |-> past, depth |-> u.depth, fresh |-> u.fresh /\ ts = <<>>,
       clean |-> IF ts # <<>> /\ u.clean >= Len(past) THEN None ELSE u.clean]

IsSaved == undo.clean = Len(undo.past)

\* EmptyUndoBuffer and SetSavePoint; a group stays open.
Emptied(u) == [past |-> <<>>, depth |-> u.depth, fresh |-> TRUE, clean |-> 0]

\* A text is cleared and another one appended, if they are not empty.
Clear(from, to) ==
  (IF from = <<>> THEN <<>> ELSE << <<>> >>) \o (IF to = <<>> THEN <<>> ELSE <<to>>)

Changed(ts) ==
  /\ text' = IF ts = <<>> THEN text ELSE Last(ts)
  /\ undo' = Steps(undo, text, ts)

\* Replace: the cells from a position by others.
Put(t, pos, cells) ==
  SubSeq(t, 1, pos) \o cells \o SubSeq(t, pos + Len(cells) + 1, Len(t))

\* set_text: the text is cleared, and the dump appended; the position is
\* restored as far as there is text.
SetText(buf, pos) ==
  /\ Changed(Clear(text, Dump(buf)))
  /\ buffer' = buf
  /\ original' = buf
  /\ caret' = Min({pos, Len(Dump(buf))})
  /\ astray' = {"set"}

\* An edit, of a byte or of the target from a byte, for the properties.
Edit(op, i, with, size) ==
  /\ did.n < MaxEdits
  /\ did' = [n |-> did.n + 1, op |-> op, i |-> i, with |-> with, size |-> size]

-----------------------------------------------------------------------------
(* The operations.                                                         *)

Init ==
  /\ text \in Texts
  /\ caret = 0
  /\ active = FALSE
  /\ buffer = <<>> /\ original = <<>>
  /\ \E clean \in {0, None} :
       undo = [past |-> <<>>, depth |-> 0, fresh |-> TRUE, clean |-> clean]
  /\ did = [n |-> 0, op |-> "none", i |-> 0, with |-> <<>>, size |-> 0]
  /\ astray = {}

\* set(true): activate opens a group.  A text that is not modified loses its
\* history.
Activate ==
  /\ ~active /\ Edit("set", 0, <<>>, 0)
  /\ active' = TRUE
  /\ buffer' = text /\ original' = text
  /\ text' = Dump(text)
  /\ caret' = Min({caret, Len(Dump(text))})
  /\ LET u == Steps([past |-> undo.past, depth |-> undo.depth + 1,
                     fresh |-> undo.fresh \/ undo.depth = 0, clean |-> undo.clean],
                    text, Clear(text, Dump(text)))
     IN  undo' = IF IsSaved THEN Emptied(u) ELSE u
  /\ astray' = {}

\* set(false): deactivate closes it, before the text of the buffer is shown.
Deactivate ==
  /\ active /\ Edit("set", 0, <<>>, 0)
  /\ active' = FALSE
  /\ text' = buffer
  /\ caret' = 0
  /\ LET u == Steps([undo EXCEPT !.depth = IF @ = 0 THEN 0 ELSE @ - 1],
                    text, Clear(text, buffer))
     IN  undo' = IF IsSaved THEN Emptied(u) ELSE u
  /\ astray' = {}
  /\ UNCHANGED <<buffer, original>>

\* The caret is put somewhere, by the mouse or a command, once at a time.
Move(pos) ==
  /\ active /\ did.n < MaxEdits /\ did.op # "move"
  /\ pos \in 0..Len(text)
  /\ caret' = pos
  /\ did' = [n |-> did.n, op |-> "move", i |-> 0, with |-> <<>>, size |-> 0]
  /\ UNCHANGED <<text, active, buffer, original, undo, astray>>

\* set_pos: an arrow steps to the next field, and to the next line there, if
\* vi is off or inserts; the component only ends the selection this made.
Prior(t, line, hex) ==
  IF hex THEN LineStart(t, line - 1) + Ascii - EachField
  ELSE LineEnd(t, line - 1) - 1

Arrow(right) ==
  LET line  == LineOf(text, caret)
      start == LineStart(text, line)
      hex   == caret - start < Ascii
      to    == caret + (IF hex THEN EachField ELSE 1) * (IF right THEN 1 ELSE -1)
      first == IF hex THEN start ELSE start + Ascii
      end   == IF hex THEN start + Ascii ELSE start + Width
      next  == LineStart(text, line + 1) + (IF hex THEN 0 ELSE Ascii)
  IN  /\ active /\ did.n < MaxEdits
      /\ did' = [n |-> did.n, op |-> "arrow", i |-> 0, with |-> <<>>,
                  size |-> IF right THEN 1 ELSE -1]
      /\ caret' = Max({0, Min({Len(text),
           IF to >= end THEN next ELSE IF to < first /\ line > 0
           THEN Prior(text, line, hex) ELSE to})})
      /\ UNCHANGED <<text, active, buffer, original, undo, astray>>

\* A byte of the buffer; the write behind its end is lost.
Set(i, b) == IF i < Len(buffer) THEN [buffer EXCEPT ![i + 1] = b] ELSE buffer

\* A key that is typed over another one moves the caret, the r of vi does not.
Right(moves) == caret' = IF moves THEN Min({caret + 1, Len(text')}) ELSE caret

\* replace in the ascii field: the character itself is shown, also one from
\* the dialog that is not printed.
ReplaceAscii(c, moves) ==
  LET p == At(text, caret)
      i == Index(text, p)
      start == LineStart(text, p.line)
      one == Put(text, start + p.col, <<c>>)
  IN  /\ active /\ IsAscii(p) /\ i <= Len(buffer)
      /\ Edit("replace", i, <<c>>, 1)
      /\ Changed(<<one, Put(one, start + Other(p), Code[c])>>)
      /\ buffer' = Set(i, c)
      /\ astray' = astray \cup (IF i = Len(buffer) THEN {"end"} ELSE {})
                          \cup (IF c \in Control THEN {"control"} ELSE {})
      /\ Right(moves)
      /\ UNCHANGED <<active, original>>

\* replace of a digit.  The code is made of the new digit and the one in
\* front of it if it is the second, but of itself and the old digit in its
\* place if it is the first.  Cells that are no code are left out.
ReplaceDigit(d, moves) ==
  LET p == At(text, caret)
      i == Index(text, p)
      start == LineStart(text, p.line)
      second == Cell(text, [p EXCEPT !.col = @ + 1]) = " "
      digits == IF second THEN <<Cell(text, [p EXCEPT !.col = @ - 1]), d>>
                ELSE <<d, Cell(text, p)>>
      code == CHOOSE b \in Byte : Code[b] = digits
      one == Put(text, start + p.col, <<d>>)
  IN  /\ active /\ IsHex(p) /\ i \in 0..Len(buffer)
      /\ \E b \in Byte : Code[b] = digits
      /\ Edit("replace", i, <<code>>, 1)
      /\ Changed(<<one, Put(one, start + Other(p), <<Shown(code)>>)>>)
      /\ buffer' = Set(i, code)
      /\ astray' = astray \cup (IF second THEN {} ELSE {"digit"})
      /\ Right(moves)
      /\ UNCHANGED <<active, original>>

\* control_char_dialog, of a byte that is selected in the hex field: the
\* selection starts at its first digit.
ReplaceByte(b) ==
  LET p == Place(text, caret)
      i == Index(text, p)
      start == LineStart(text, p.line)
      one == Put(text, start + p.col, Code[b])
  IN  /\ active /\ IsHex(p) /\ i \in 0..Len(buffer)
      /\ p.col % EachField = 0 /\ text # <<>>
      /\ Edit("replace", i, <<b>>, 1)
      /\ Changed(<<one, Put(one, start + Other(p), <<Shown(b)>>)>>)
      /\ buffer' = Set(i, b)
      /\ UNCHANGED <<caret, active, original, astray>>

\* insert, of text in the ascii field, after which the caret follows it, or
\* of the two digits of a byte in the hex field.
Inserted(buf, i, t) == SubSeq(buf, 1, i) \o t \o SubSeq(buf, i + 1, Len(buf))

\* The caret that was at a column and is at a position, after n bytes.
Behind(dump, there, col, n) ==
  IF col + n >= Width THEN LineStart(dump, LineOf(dump, there) + 1) + Ascii
  ELSE there + n

InsertAscii(t) ==
  LET p == Place(text, caret)
      i == Index(text, p)
      buf == Inserted(buffer, i, t)
      there == Min({caret, Len(Dump(buf))})
      to == Behind(Dump(buf), there, p.col, Len(t))
  IN  /\ active /\ IsAscii(p) /\ i <= Len(buffer)
      /\ Len(buf) <= MaxBytes
      /\ Edit("insert", i, t, 0)
      /\ SetText(buf, to)
      /\ UNCHANGED active

InsertByte(b) ==
  LET p == Place(text, caret)
      i == Index(text, p)
  IN  /\ active /\ IsHex(p) /\ i \in 0..Len(buffer)
      /\ Len(buffer) < MaxBytes
      /\ Edit("insert byte", i, <<b>>, 0)
      /\ SetText(Inserted(buffer, i, <<b>>), caret)
      /\ UNCHANGED active

\* erase of a count of bytes.
Without(buf, i, count) == SubSeq(buf, 1, i) \o SubSeq(buf, i + count + 1, Len(buf))

Erase(count) ==
  LET i == Index(text, Place(text, caret))
  IN  /\ active
      /\ i \in 0..(Len(buffer) - 1)
      /\ Edit("erase", i, <<>>, count)
      /\ SetText(Without(buffer, i, count), caret)
      /\ UNCHANGED active

\* append_text, when a file is loaded: the dump of what comes is appended to
\* the line that is there.
AppendText(t) ==
  /\ active
  /\ Len(buffer) + Len(t) <= MaxBytes
  /\ Edit("append", Len(buffer), t, 0)
  /\ buffer' = buffer \o t
  /\ original' = buffer'
  /\ Changed(<<text \o Dump(t)>>)
  /\ astray' = astray \cup {"set"} \cup
               (IF buffer = <<>> THEN {} ELSE {"append"})
  /\ UNCHANGED <<caret, active>>

\* replace_target, of fields on one line, with or without the blank behind
\* the last one.  The digits of the first bytes replace those of the target,
\* those of others are inserted, and what is left of the target is erased.
\* Each of these makes a new dump, or only the insertions do, and a sync in
\* the end.
TargetStep(w, k, start, end, with, settext) ==
  LET at == start + EachField * (k - 1)
      i  == Index(w.dump, Place(w.dump, at))
      buf == IF at <= end THEN [w.buf EXCEPT ![i + 1] = with[k]]
             ELSE Inserted(w.buf, i, <<with[k]>>)
  IN  IF ~w.ok \/ i \notin 0..(Len(w.buf) - (IF at <= end THEN 1 ELSE 0))
         \/ (at > end /\ IsAscii(Place(w.dump, at)))
      THEN [w EXCEPT !.ok = FALSE]
      ELSE [buf |-> buf, ok |-> TRUE,
            dump |-> IF settext \/ at > end THEN Dump(buf) ELSE w.dump]

\* Not so: as many bytes as there are cells.
TargetEndCells(w, start, end, with) ==
  LET at == start + EachField * Len(with)
      i  == Index(w.dump, Place(w.dump, at))
  IN  IF at >= end \/ i \notin 0..(Len(w.buf) - 1) THEN w.buf
      ELSE Without(w.buf, i, end - at)

TargetEnd(w, start, end, with) ==
  LET at == start + EachField * Len(with)
      i  == Index(w.dump, Place(w.dump, at))
  IN  IF at >= end \/ i \notin 0..(Len(w.buf) - 1) THEN w.buf
      ELSE Without(w.buf, i, (end - at) \div EachField)

\* A replacement that leaves the hex field is left out.  The caret makes no
\* difference, so that it is at the start here.
ReplaceTarget(i, size, blank, with, settext) ==
  LET col   == i % PerLine
      start == LineStart(text, i \div PerLine) + EachField * col
      end   == start + EachField * size - (IF blank THEN 0 ELSE 1)
      run[k \in 0..Len(with)] ==
        IF k = 0 THEN [buf |-> buffer, dump |-> text, ok |-> TRUE]
        ELSE TargetStep(run[k - 1], k, start, end, with, settext)
      done  == run[Len(with)]
      buf   == TargetEnd(done, start, end, with)
  IN  /\ active /\ astray \subseteq {"set"} /\ caret = 0
      /\ i + size <= Len(buffer) /\ col + size <= PerLine
      /\ done.ok /\ Len(buf) <= MaxBytes
      /\ Edit(IF blank THEN "target" ELSE "target short", i, with, size)
      /\ SetText(buf, caret)
      /\ UNCHANGED active

\* The text looks like a dump.
IsDump(t) ==
  /\ Len(t) > Ascii
  /\ t[1] \in Digit /\ t[2] \in Digit /\ t[3] = " "
  /\ \A k \in 1..Ascii : t[k] \in Digit \cup {" "}

\* Undo: of the component, and of the buffer as a whole.  The two agree when
\* what is undone is the group that this activation opened, and the buffer was
\* not set since.  The component puts the caret somewhere, and so does Move.
Undo ==
  /\ undo.past # <<>>
  /\ Edit("undo", 0, <<>>, 0)
  /\ text' = Last(undo.past)
  /\ undo' = [past |-> Front(undo.past), depth |-> undo.depth, fresh |-> TRUE,
               clean |-> IF undo.clean = Len(undo.past) THEN None ELSE undo.clean]
  /\ caret' = Min({caret, Len(text')})
  /\ buffer' = IF active THEN original ELSE buffer
  /\ active' = IsDump(text')
  /\ astray' = IF active /\ undo.depth = 1 /\ ~undo.fresh
                  /\ astray \cap {"set", "undo"} = {}
               THEN {} ELSE {"undo"}
  /\ UNCHANGED original

\* A save writes the buffer.
Save ==
  /\ active /\ did.n < MaxEdits
  /\ undo' = [undo EXCEPT !.clean = Len(undo.past)]
  /\ UNCHANGED <<text, caret, active, buffer, original, did, astray>>

Next ==
  \/ Activate \/ Deactivate \/ Undo \/ Save
  \/ \E pos \in 0..(Width + 1) * MaxBytes : Move(pos)
  \/ \E right \in BOOLEAN : Arrow(right)
  \/ \E moves \in BOOLEAN : \/ \E c \in Byte : ReplaceAscii(c, moves)
                            \/ \E d \in Digit : ReplaceDigit(d, moves)
  \/ \E b \in Byte : ReplaceByte(b) \/ InsertByte(b)
  \/ \E t \in Inserts : InsertAscii(t) \/ AppendText(t)
  \/ \E count \in 1..2 : Erase(count)
  \/ \E i \in 0..(MaxBytes - 1), size \in 1..PerLine, blank, settext \in BOOLEAN,
        with \in Inserts : ReplaceTarget(i, size, blank, with, settext)

Spec == Init /\ [][Next]_vars

-----------------------------------------------------------------------------
(* Properties.                                                             *)

TypeOK ==
  /\ text \in Seq(Byte \cup Digit \cup {" ", ".", Nl})
  /\ caret \in 0..Len(text)
  /\ active \in BOOLEAN
  /\ buffer \in Seq(Byte) /\ original \in Seq(Byte)
  /\ undo.depth \in 0..MaxEdits /\ undo.fresh \in BOOLEAN
  /\ undo.clean \in -1..Len(undo.past)
  /\ did.n \in 0..MaxEdits
  /\ astray \subseteq {"set", "end", "control", "digit", "append", "undo"}

Together == active /\ astray \subseteq {"set"}

(* What is shown is the dump of what a save writes: after edits in both    *)
(* fields, which change the two cell by cell, insertions and deletions,    *)
(* which make another dump, and the undo of edits that made none.  What    *)
(* leaves them apart is said by astray.                                    *)
DumpIsBuffer == Together => text = Dump(buffer)

(* A target that ends with the blank of its last byte is replaced by as    *)
(* many bytes or fewer, one that ends in front of that by as many or more, *)
(* and the bytes around it stay: replace_target, for which each byte that  *)
(* is inserted moves the others.                                           *)
TargetReplaced ==
  [][LET e == did'
     IN  did.n # e.n /\ Together
         /\ \/ e.op = "target" /\ Len(e.with) <= e.size
            \/ e.op = "target short" /\ Len(e.with) >= e.size
         => buffer' = SubSeq(buffer, 1, e.i) \o e.with
                      \o SubSeq(buffer, e.i + e.size + 1, Len(buffer))]_vars
===============================================================================
