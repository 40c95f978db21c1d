----------------------------- MODULE AddressRange -----------------------------
(***************************************************************************)
(* The ex commands with an address or a range, on a text that is loaded in *)
(* the editor: addressrange.cpp and address.cpp.  A range becomes a        *)
(* selection or a target of the editor component, in positions; lines are  *)
(* what lies between the newlines, and the one after the last newline,     *)
(* which may be empty, counts.  The global commands :g and :v are a loop   *)
(* of several steps, in which other commands run.                          *)
(*                                                                         *)
(* The selection, the target, the marks and LinesJoin are those of the     *)
(* component, as the code uses them.  A text is a sequence of words and    *)
(* newlines; the blank that a join leaves, the undo groups and the caret   *)
(* are left out: a search finds any line it may find.  The editor is never *)
(* readonly: then the commands that change the text return at once.        *)
(***************************************************************************)
EXTENDS TextLines

CONSTANTS
  Order,      \* the words of a text, from the least one on; Tab is one
  Tab,        \* the tab at the start of a line
  Amp,        \* the ampersand of a replacement
  Texts,      \* the texts in the beginning
  Addresses,  \* the addresses that are typed
  Globals,    \* the ranges of the global commands
  Inserts,    \* the texts that are inserted
  Subs,       \* the substitutions that are typed
  Nested,     \* the commands a global command is given
  NestedSub,  \* the substitution among them
  MaxPieces,  \* bound: the length of a text
  MaxHits,    \* the lines after which a loop is suspect (50)
  MaxCommands,\* bound: the commands that are typed
  MaxRounds   \* bound: the rounds of a global command

Word == Range(Order)
Piece == Word \cup {Nl}
Fragment == Seq(Piece)
Address == [base : {"number", "last", "mark"}, off : Int]
             \cup [base : {"search"}, word : Word]
Sub == [pattern : Word, with : Seq(Word \cup {Amp}), option : {"all", "first", "kept"}]
Inner == {"d", "m$", "t$", "s", "y", "ka"}

ASSUME RangeAssumption ==
  /\ IsInjective(Order)
  /\ Tab \in Word
  /\ Nl \notin Word /\ Amp \notin Word
  /\ Texts \cup Inserts \subseteq Fragment
  /\ Addresses \subseteq Address
  /\ Globals \subseteq Addresses \X Addresses
  /\ Subs \cup {NestedSub} \subseteq Sub
  /\ Nested \subseteq Seq(Inner) \ {<<>>}
  /\ MaxRounds \in Nat /\ MaxPieces \in Nat /\ MaxHits \in Nat /\ MaxCommands \in Nat

\* The marks: a of the user, % of global, # and $ of substitute.
Mark == {"a", "%", "#", "$"}
NoLine == -1

VARIABLES
  ed,       \* the editor: its text, selection, target, marks and register 0
  subst,    \* m_substitute: the pattern and the replacement, shared by all
  loop,     \* the global command that is running
  typed     \* the last command and its lines, and how many there were

vars == <<ed, subst, loop, typed>>

NoLoop == [phase |-> "none"]
Nothing == <<0, 0>>

-----------------------------------------------------------------------------
(* Edits of the component, which move the selection and the marks.         *)

Selected(e) == SubSeq(e.text, e.sel[1] + 1, e.sel[2])

InsertedAt(e, pos, t) ==
  LET line  == LineOf(e.text, pos)
      first == IF pos = LineStart(e.text, line) THEN line ELSE line + 1
      n     == Cardinality(Newlines(t))
      Moved(p) == IF p > pos THEN p + Len(t) ELSE p
  IN  [e EXCEPT
         !.text = SubSeq(@, 1, pos) \o t \o SubSeq(@, pos + 1, Len(@)),
         !.sel = <<Moved(@[1]), Moved(@[2])>>,
         !.marks = [m \in Mark |-> IF @[m] >= first THEN @[m] + n ELSE @[m]]]

\* The marks of the lines that go are merged into the line that is left.
DeletedFrom(e, from, to) ==
  LET line == LineOf(e.text, from)
      n    == LineOf(e.text, to) - line
      Moved(p) == IF p <= from THEN p ELSE IF p > to THEN p - (to - from)
                  ELSE from
  IN  [e EXCEPT
         !.text = SubSeq(@, 1, from) \o SubSeq(@, to + 1, Len(@)),
         !.sel = <<Moved(@[1]), Moved(@[2])>>,
         !.marks = [m \in Mark |-> IF @[m] <= line THEN @[m]
                                   ELSE IF @[m] <= line + n THEN line
                                   ELSE @[m] - n]]

Unselected(e) == [e EXCEPT !.sel = Nothing]

MarkedAt(e, m, line) == [e EXCEPT !.marks[m] = line]
Unmarked(e, ms) ==
  [e EXCEPT !.marks = [m \in Mark |-> IF m \in ms THEN NoLine ELSE @[m]]]

-----------------------------------------------------------------------------
(* Addresses and ranges.                                                   *)

\* The calculator; a mark that is not there gives 0.
Value(e, a) ==
  CASE a.base = "number" -> a.off
    [] a.base = "last"   -> Count(e.text) + a.off
    [] a.base = "mark"   -> IF e.marks["a"] = NoLine THEN 0
                            ELSE e.marks["a"] + 1 + a.off

\* find_stc searches from the caret on, and then in front of it, or the other
\* way around: what it finds is a line with the word, and depends on the caret.
Searched(e, word) ==
  LET at == {LineOf(e.text, i - 1) + 1 : i \in {j \in DOMAIN e.text : e.text[j] = word}}
  IN  IF at = {} THEN {0} ELSE at

\* address::get_line: the line from 1, or 0, that an address can be.
LinesOf(e, a) ==
  IF a.base = "search" THEN Searched(e, a.word)
  ELSE {IF Value(e, a) < 0 THEN 1 ELSE Min({Value(e, a), Count(e.text)})}

IsOk(b, e) == 0 < b /\ b <= e

\* set_selection: a selection that is there is taken instead of the range.
CanSelect(e, b, f) == Selected(e) # <<>> \/ IsOk(b, f)

\* Not so: The range ends in front of its last line.
SelectionShort(e, b, f) ==
  IF Selected(e) # <<>> THEN e
  ELSE [e EXCEPT !.sel = <<LineStart(e.text, b - 1), LineStart(e.text, f - 1)>>]

WithSelection(e, b, f) ==
  IF Selected(e) # <<>> THEN e
  ELSE [e EXCEPT !.sel = <<LineStart(e.text, b - 1), LineStart(e.text, f)>>]

-----------------------------------------------------------------------------
(* The commands, on an editor, with line numbers from 1.                   *)

\* yank; an empty selection leaves the register.
Yanked(e, b, f) ==
  LET s == WithSelection(e, b, f)
  IN  IF Selected(s) = <<>> THEN s ELSE [s EXCEPT !.reg = Selected(s)]

Yankable(e, b, f) ==
  CanSelect(e, b, f) /\ Selected(WithSelection(e, b, f)) # <<>>

\* erase: ex::cut yanks and replaces the selection by nothing.
\* A mark in the address has become its line number before (ex::address_parse),
\* so that erase finds no mark to delete.
Erased(e, b, f) ==
  LET y == Yanked(e, b, f)
  IN  Unselected(DeletedFrom(y, y.sel[1], y.sel[2]))

\* general: the destination is a line of the text before the command.
General(e, b, f, dest) ==
  /\ IsOk(b, f)
  /\ dest # 0
  /\ ~(b <= dest /\ dest <= f)

PutAt(e, dest) == InsertedAt(Unselected(e), LineStart(e.text, dest - 1), e.reg)

\* Not so: The lines are yanked and not cut.
MovedUncut(e, b, f, dest) == PutAt(Yanked(e, b, f), dest)

MovedTo(e, b, f, dest) == PutAt(Erased(e, b, f), dest)

CopiedTo(e, b, f, dest) ==
  IF Yankable(e, b, f) THEN PutAt(Yanked(e, b, f), dest) ELSE e

\* join: LinesJoin deletes the newlines in the target.
Joined(e, b, f) ==
  LET from == LineStart(e.text, b - 1)
      to   == LineStart(e.text, f - 1)
      Step(x, k) ==
        LET at == Min(Newlines(x.text) \cap (from + 1)..Len(x.text))
        IN  DeletedFrom(x, at - 1, at)
      n    == LineOf(e.text, to) - LineOf(e.text, from)
  IN  [FoldLeft(Step, e, [k \in 1..n |-> k]) EXCEPT !.target = <<from, to - n>>]

\* SendMsg of a tab, or a backtab.  On more lines, each that is not empty, but
\* for one that the selection ends in front of, is indented or not any more,
\* and whole lines are selected.
Shifted(e, forward) ==
  LET first == LineOf(e.text, e.sel[1])
      last  == LineOf(e.text, e.sel[2])
      stop  == IF e.sel[2] = LineStart(e.text, last) THEN last ELSE last + 1
      Step(x, k) ==
        LET line == first + k - 1
            at   == LineStart(x.text, line)
        IN  IF LineText(x.text, line) = <<>> THEN x
            ELSE IF forward THEN InsertedAt(x, at, <<Tab>>)
            ELSE IF x.text[at + 1] = Tab THEN DeletedFrom(x, at, at + 1)
            ELSE x
      r == FoldLeft(Step, e, [k \in 1..(stop - first) |-> k])
  IN  [r EXCEPT !.sel = <<LineStart(r.text, first), LineStart(r.text, stop)>>]

\* Within one line a tab takes the place of the selection, and a backtab works
\* on the indentation if the caret is in it.
ShiftedWithin(e, forward) ==
  LET at     == LineStart(e.text, LineOf(e.text, e.sel[2]))
      before == SubSeq(e.text, at + 1, e.sel[2])
  IN  Unselected(
        IF forward
        THEN InsertedAt(DeletedFrom(e, e.sel[1], e.sel[2]), e.sel[1], <<Tab>>)
        ELSE IF before # <<>> /\ Range(before) = {Tab} THEN DeletedFrom(e, at, at + 1)
        ELSE e)

Indented(e, forward) ==
  IF LineOf(e.text, e.sel[1]) = LineOf(e.text, e.sel[2])
  THEN ShiftedWithin(e, forward) ELSE Shifted(e, forward)

\* sort::string: a line ends where the next one starts, or is more.
Rank(w) == CHOOSE k \in DOMAIN Order : Order[k] = w
Less(l, m) ==
  \/ IsStrictPrefix(l, m)
  \/ \E k \in 1..Min({Len(l), Len(m)}) :
       /\ SubSeq(l, 1, k - 1) = SubSeq(m, 1, k - 1)
       /\ Rank(l[k]) < Rank(m[k])

Sorted(ls, option) ==
  LET Once(s, l) == IF l \in Range(s) THEN s ELSE Append(s, l)
      up == SortSeq(IF option.unique THEN FoldLeft(Once, <<>>, ls) ELSE ls, Less)
  IN  IF option.down THEN Reverse(up) ELSE up

\* sort::selection_other sorts whole lines, the columns that were typed or not,
\* drops the empty ones, ends each with a newline, and selects the result.
Resorted(e, option) ==
  LET ls == Sorted(SelectSeq(Lines(Selected(e)), LAMBDA l : l # <<>>), option)
      t  == FlattenSeq([k \in DOMAIN ls |-> Append(ls[k], Nl)])
      x  == InsertedAt(DeletedFrom(e, e.sel[1], e.sel[2]), e.sel[1], t)
  IN  [x EXCEPT !.sel = IF t = <<>> THEN Nothing
                        ELSE <<e.sel[1], e.sel[1] + Len(t)>>]

-----------------------------------------------------------------------------
(* substitute.                                                             *)

\* data::substitute::set: the options that are not typed stay as they were.
Typed(s) ==
  [pattern |-> s.pattern, with |-> s.with,
   all |-> IF s.option = "kept" THEN subst.all ELSE s.option = "all"]

\* build_replacement: the match itself stands for an ampersand.
Replacement(s) ==
  [k \in DOMAIN s.with |-> IF s.with[k] = Amp THEN s.pattern ELSE s.with[k]]

\* SearchInTarget: the place of the first match in a target, or 0.
Found(t, pattern, target) ==
  LET at == {i \in (target[1] + 1)..target[2] : t[i] = pattern}
  IN  IF at = {} THEN 0 ELSE Min(at)

\* Not so: The search goes on in the replacement.
RoundAgain(x, k, s) ==
  LET at   == Found(x.text, s.pattern, x.target)
      r    == InsertedAt(DeletedFrom(x, at - 1, at), at - 1, Replacement(s))
      next == IF s.all THEN at - 1 ELSE LineEnd(r.text, LineOf(r.text, at - 1))
  IN  IF x.target[1] >= x.target[2] \/ at = 0 THEN x
      ELSE [r EXCEPT !.target = <<next, LineEnd(r.text, r.marks["$"])>>]

\* One round of the loop: replace what is found, and go on behind it, or
\* on the next line.
Round(x, k, s) ==
  LET at   == Found(x.text, s.pattern, x.target)
      r    == InsertedAt(DeletedFrom(x, at - 1, at), at - 1, Replacement(s))
      to   == at - 1 + Len(s.with)
      next == IF s.all THEN to ELSE LineEnd(r.text, LineOf(r.text, to))
  IN  IF x.target[1] >= x.target[2] \/ at = 0 THEN x
      ELSE [r EXCEPT !.target = <<next, LineEnd(r.text, r.marks["$"])>>]

\* The last line of a range that a selection ends in front of is left out.
LastLine(e, f) ==
  IF Selected(e) # <<>> /\ e.sel[2] = LineStart(e.text, f - 1) /\ f > 1
  THEN f - 2 ELSE f - 1

Substituted(e, b, f, s) ==
  LET m == MarkedAt(MarkedAt(e, "#", b - 1), "$", LastLine(e, f))
      t == [m EXCEPT !.target = <<LineStart(m.text, m.marks["#"]),
                                  LineEnd(m.text, m.marks["$"])>>]
      r == FoldLeft(LAMBDA x, k : Round(x, k, s), t,
                    [k \in 1..Len(e.text) |-> k])
  IN  Unmarked(r, {"#", "$"})

-----------------------------------------------------------------------------
(* global: the commands it runs, on one line, until one fails.             *)

\* What a round of the loop changes: the editor, the shared substitution,
\* the hits, and whether all went well.
Work(e) == [ed |-> e, subst |-> subst, ok |-> TRUE, hits |-> loop.hits]

\* One command, on the line of number n.
Run1(w, c, n) ==
  LET e    == w.ed
      Set(x, ok) == [w EXCEPT !.ed = x, !.ok = ok]
      last == Count(e.text)
      at   == Min({n, last})
  IN  CASE ~w.ok     -> w
        [] c = "d"   -> Set(Erased(e, at, at), TRUE)
        [] c = "y"   -> Set(Yanked(e, at, at), Yankable(e, at, at))
        [] c = "ka"  -> Set(MarkedAt(e, "a", at - 1), TRUE)
        [] c = "m$"  -> IF General(e, at, at, last)
                        THEN Set(MovedTo(e, at, at, last), TRUE)
                        ELSE Set(e, FALSE)
        [] c = "t$"  -> IF General(e, at, at, last)
                        THEN Set(CopiedTo(e, at, at, last), TRUE)
                        ELSE Set(e, FALSE)
        [] c = "s"   -> [Set(Substituted(e, at, at, Typed(NestedSub)), TRUE)
                           EXCEPT !.subst = Typed(NestedSub)]

\* for_each of a line, from 0.
ForEach(w, cmds, line) ==
  FoldLeft(LAMBDA x, c : Run1(x, c, line + 1), w, cmds)

\* The commands that are expected to remove the line.
Changes(cmds) == Cardinality({k \in DOMAIN cmds : cmds[k] \in {"d", "m$"}})

\* for_each of the lines from start up to end, which the commands shorten;
\* an empty stretch moves its end.
ForEachLine(w, cmds, start, end) ==
  LET Step(x, k) ==
        LET r == ForEach(x.w, cmds, x.i)
        IN  IF ~x.w.ok \/ x.i >= x.end \/ x.i >= Count(x.w.ed.text) - 1 THEN x
            ELSE IF ~r.ok THEN [x EXCEPT !.w = r]
            ELSE [w   |-> [r EXCEPT !.hits = @ + 1],
                  i   |-> IF Changes(cmds) = 0 THEN x.i + 1 ELSE x.i,
                  end |-> x.end - Changes(cmds)]
      none == [w |-> w, i |-> start, end |-> end]
  IN  IF start < end
      THEN FoldLeft(Step, none, [k \in 1..(end - start) |-> k])
      ELSE [none EXCEPT !.end = @ + 1]

-----------------------------------------------------------------------------
(* The commands that are typed.                                            *)

Init ==
  /\ \E t \in Texts : ed = [text |-> t, sel |-> Nothing, target |-> Nothing,
                            marks |-> [m \in Mark |-> NoLine], reg |-> <<>>]
  /\ subst = [pattern |-> "", with |-> <<>>, all |-> FALSE]
  /\ loop = NoLoop
  /\ typed = [n |-> 0, op |-> "none", b |-> 0, f |-> 0]

\* A command is typed when no other one is running.
Type(op, b, f) == typed' = [n |-> typed.n + 1, op |-> op, b |-> b, f |-> f]

\* The target that a command leaves is never used: the next one sets it.
Edit(e) ==
  /\ Len(e.text) <= MaxPieces
  /\ ed' = [e EXCEPT !.target = Nothing]
  /\ UNCHANGED loop

\* The user selects a stretch of text, or nothing.
Select(from, to) ==
  /\ Type("select", 0, 0)
  /\ from <= to /\ to <= Len(ed.text)
  /\ Edit([ed EXCEPT !.sel = IF from = to THEN Nothing ELSE <<from, to>>])
  /\ UNCHANGED subst

\* :d
Erase(b, f) ==
  /\ Type("d", b, f)
  /\ CanSelect(ed, b, f)
  /\ Edit(Erased(ed, b, f))
  /\ UNCHANGED subst

\* :y, and :w of a range, which leave the selection.
Yank(b, f) ==
  /\ Type("y", b, f)
  /\ Yankable(ed, b, f)
  /\ Edit(Yanked(ed, b, f))
  /\ UNCHANGED subst

Write(b, f) ==
  /\ Type("w", b, f)
  /\ CanSelect(ed, b, f)
  /\ Edit(WithSelection(ed, b, f))
  /\ UNCHANGED subst

\* :c
Change(b, f, t) ==
  /\ Type("c", b, f)
  /\ CanSelect(ed, b, f)
  /\ LET e == Erased(ed, b, f)
     IN  Edit(InsertedAt(e, WithSelection(ed, b, f).sel[1], t))
  /\ UNCHANGED subst

\* :!, the filter: the output t of the command, when there is some, takes
\* the place of what was written to the file it read.
Escape(b, f, t) ==
  /\ Type("!", b, f)
  /\ IsOk(b, f)
  /\ LET s == WithSelection(ed, b, f)
     IN  Edit(IF t = <<>> THEN s ELSE InsertedAt(Erased(s, b, f), s.sel[1], t))
  /\ UNCHANGED subst

\* :m, :t
Move(b, f, dest) ==
  /\ Type("m", b, f)
  /\ General(ed, b, f, dest)
  /\ Edit(MovedTo(ed, b, f, dest))
  /\ UNCHANGED subst

Copy(b, f, dest) ==
  /\ Type("t", b, f)
  /\ General(ed, b, f, dest)
  /\ Edit(CopiedTo(ed, b, f, dest))
  /\ UNCHANGED subst

\* :> and :<
Indent(b, f, forward) ==
  /\ Type(IF forward THEN ">" ELSE "<", b, f)
  /\ IsOk(b, f)
  /\ Edit(Indented(WithSelection(ed, b, f), forward))
  /\ UNCHANGED subst

\* :S
Sort(b, f, option) ==
  /\ Type(IF option.unique THEN "Su" ELSE "S", b, f)
  /\ CanSelect(ed, b, f)
  /\ Selected(WithSelection(ed, b, f)) # <<>>
  /\ Edit(Resorted(WithSelection(ed, b, f), option))
  /\ UNCHANGED subst

\* :j
Join(b, f) ==
  /\ Type("j", b, f)
  /\ IsOk(b, f)
  /\ Edit(Joined(ed, b, f))
  /\ UNCHANGED subst

\* :s, and :& and :~, which repeat it, with other options.
Substitute(b, f, s) ==
  /\ Type("s", b, f)
  /\ IsOk(b, f)
  /\ Edit(Substituted(ed, b, f, Typed(s)))
  /\ subst' = Typed(s)

Again(b, f, all) ==
  LET s == [subst EXCEPT !.all = all]
  IN  /\ Type("s", b, f)
      /\ IsOk(b, f)
      /\ subst.pattern # ""
      /\ Edit(Substituted(ed, b, f, s))
      /\ subst' = s

\* :a, :i, :pu and :k of one address.
AppendText(line, t) ==
  /\ Type("a", line, line)
  /\ line > 0
  /\ Edit(Unselected(InsertedAt(ed, LineStart(ed.text, line), t)))
  /\ UNCHANGED subst

InsertText(line, t) ==
  /\ Type("i", line, line)
  /\ line > 0
  /\ Edit(InsertedAt(ed, LineStart(ed.text, line - 1), t))
  /\ UNCHANGED subst

Put(line) ==
  /\ Type("pu", line, line)
  /\ line > 0
  /\ Edit(InsertedAt(ed, LineStart(ed.text, line), ed.reg))
  /\ UNCHANGED subst

\* :r of a file, and of the output of a command, which is :a
Read(line, t) ==
  /\ Type("r", line, line)
  /\ line > 0
  /\ Edit(InsertedAt(ed, LineStart(ed.text, line), t))
  /\ UNCHANGED subst

MarkLine(line) ==
  /\ Type("k", line, line)
  /\ line > 0
  /\ Edit(MarkedAt(ed, "a", line - 1))
  /\ UNCHANGED subst

-----------------------------------------------------------------------------
(* :g and :v, a round of the search at a time.                             *)

\* It does not ask for a range that is ok; the ranges of
\* Globals name lines of the text, what 0 would do is left to the component.
Global(b, f, p, cmds, inverse) ==
  /\ Type("g", b, f)
  /\ LET e == MarkedAt(ed, "%", f - 1)
     IN  ed' = [e EXCEPT !.target = <<LineStart(e.text, b - 1),
                                      LineEnd(e.text, f - 1)>>]
  /\ subst' = [subst EXCEPT !.pattern = p]
  /\ loop' = [phase |-> "search", cmds |-> cmds, inverse |-> inverse,
              start |-> 0, hits |-> 0,
              \* the rounds, and what it began with, for the properties
              rounds |-> 0,
              from |-> ed, pattern |-> p, whole |-> b = 1 /\ f = Count(ed.text)]

\* What the end of the command does, well or not: the destructor of the
\* environment deletes the mark.
Finish(e) ==
  /\ ed' = [Unmarked(e, {"%"}) EXCEPT !.target = Nothing]
  /\ loop' = NoLoop

\* Not so: A loop is never suspect.
NeverInfinite(hits) == hits > MaxHits /\ Changes(loop.cmds) < 0

\* A loop that has run for long and should have removed what it finds.
Infinite(hits) ==
  hits > MaxHits /\ Changes(loop.cmds) > 0 /\ loop.cmds # <<"d">>

\* Not so: The search goes on at the end of the target, whatever changed.
LeftAtEnd(w, line) ==
  <<w.ed.target[2], LineEnd(w.ed.text, w.ed.marks["%"])>>

\* What is left to search after a round: a line that changed is looked at
\* again.
Left(w, line) ==
  <<IF Changes(loop.cmds) > 0 THEN LineStart(w.ed.text, line)
    ELSE w.ed.target[2],
    LineEnd(w.ed.text, w.ed.marks["%"])>>

Match == Found(ed.text, subst.pattern, ed.target)

\* What is done for a match: the commands run on its line, or on the lines in
\* front of it.
MatchRound ==
  LET at    == LineOf(ed.text, Match - 1)
      found == [Work(ed) EXCEPT !.ed.target = <<Match - 1, Match>>]
  IN  IF loop.inverse THEN ForEachLine(found, loop.cmds, loop.start, at)
      ELSE LET r == ForEach(found, loop.cmds, at)
           IN  [w |-> [r EXCEPT !.hits = @ + 1], end |-> at]

\* The search finds a line, and goes on in what is left up to the mark.
GlobalMatch ==
  /\ loop.phase = "search"
  /\ Match # 0
  /\ loop.rounds < MaxRounds
  /\ \E round \in {MatchRound} :
       LET w    == round.w
           next == Left(w, round.end)
       IN  /\ subst' = w.subst
           /\ IF ~w.ok \/ Infinite(w.hits) THEN Finish(w.ed)
              ELSE /\ ed' = [w.ed EXCEPT !.target = next]
                   /\ loop' = [loop EXCEPT
                        !.hits = w.hits,
                        !.rounds = @ + 1,
                        !.start = IF loop.inverse THEN round.end + 1 ELSE @,
                        !.phase = IF next[1] >= next[2] THEN "rest" ELSE @]
  /\ UNCHANGED typed

\* The search finds nothing more: the inverse runs on all lines that follow.
GlobalRest ==
  /\ loop.phase = "rest" \/ (loop.phase = "search" /\ Match = 0)
  /\ \E w \in {IF loop.inverse
                THEN ForEachLine(Work(ed), loop.cmds, loop.start, Count(ed.text)).w
                ELSE Work(ed)} : subst' = w.subst /\ Finish(w.ed)
  /\ UNCHANGED typed

\* The lines that can be typed.
Target == UNION {LinesOf(ed, a) : a \in Addresses}

Typing ==
  /\ loop = NoLoop /\ typed.n < MaxCommands
  /\ LET lines == Target
     IN  \/ \E from, to \in 0..Len(ed.text) : Select(from, to)
         \/ \E b, f \in lines :
              \/ Erase(b, f) \/ Yank(b, f) \/ Write(b, f) \/ Join(b, f)
              \/ \E t \in Inserts : Change(b, f, t) \/ Escape(b, f, t)
              \/ \E dest \in lines : Move(b, f, dest) \/ Copy(b, f, dest)
              \/ \E s \in Subs : Substitute(b, f, s)
              \/ \E yes \in BOOLEAN : Again(b, f, yes) \/ Indent(b, f, yes)
              \/ \E option \in [down : BOOLEAN, unique : BOOLEAN] : Sort(b, f, option)
         \/ \E line \in lines :
              \/ Put(line) \/ MarkLine(line)
              \/ \E t \in Inserts :
                   AppendText(line, t) \/ InsertText(line, t) \/ Read(line, t)
         \/ \E r \in Globals, p \in Word, cmds \in Nested, inverse \in BOOLEAN :
              \E b \in LinesOf(ed, r[1]), f \in LinesOf(ed, r[2]) :
                Global(b, f, p, cmds, inverse)

Looping == GlobalMatch \/ GlobalRest

Next == Typing \/ Looping

Spec == Init /\ [][Next]_vars

-----------------------------------------------------------------------------
(* What the commands mean for the lines of the text.                       *)

TypeOK ==
  /\ ed.text \in Fragment /\ ed.reg \in Fragment
  /\ 0 <= ed.sel[1] /\ ed.sel[1] <= ed.sel[2] /\ ed.sel[2] <= Len(ed.text)
  /\ \A m \in Mark : ed.marks[m] \in NoLine..(Count(ed.text) - 1)
  /\ subst.pattern \in Word \cup {""} /\ subst.all \in BOOLEAN
  /\ typed.n \in 0..MaxCommands
  /\ loop = NoLoop \/ loop.phase \in {"search", "rest"}

\* A step that types a command.
Types(op) == typed' # typed /\ typed'.op = op

\* The lines without those from b to f; a text keeps its last line, empty.
Without(lines, b, f) ==
  SubSeq(lines, 1, b - 1) \o
  IF f = Len(lines) THEN << <<>> >> ELSE SubSeq(lines, f + 1, Len(lines))

\* When nothing is selected, :d removes the lines of its range and no other:
\* what addressrange::erase makes of two addresses, positions, a selection
\* and a cut, is a removal of whole lines, at the end of the text too.
Erases ==
  [][Types("d") /\ Selected(ed) = <<>>
     => Lines(ed'.text) = Without(Lines(ed.text), typed'.b, typed'.f)]_vars

\* The lines, without their indentation, and how often one is there.
Bodies(t) ==
  [k \in 1..Count(t) |-> SelectSeq(LineText(t, k - 1), LAMBDA w : w # Tab)]

Times(l, ls) == Cardinality({k \in DOMAIN ls : ls[k] = l})

\* When nothing is selected and the text ends with a newline, :m, :S, :> and
\* :< lose no line, double none and merge none, but for the empty lines and the
\* doubles a sort is to drop: the lines of a move go through register 0, to an
\* address of the text before they were cut, a sort replaces a selection that
\* it splits and joins again, and a tab can take the place of a selection.
LinesKept ==
  [][/\ Types("m") \/ Types("S") \/ Types("Su") \/ Types(">") \/ Types("<")
     /\ Selected(ed) = <<>>
     /\ LineText(ed.text, Count(ed.text) - 1) = <<>>
     /\ typed'.f < Count(ed.text)
     => LET before == Bodies(ed.text)
            after  == Bodies(ed'.text)
        IN  \A l \in Range(before) \cup Range(after) :
              CASE l = <<>> -> Times(l, after) <= Times(l, before)
                [] l # <<>> /\ typed'.op = "Su" ->
                     Times(l, after) \in 1..Times(l, before)
                [] OTHER -> Times(l, after) = Times(l, before)]_vars

\* A line after a substitution.
SubLine(l, s) ==
  FlattenSeq([k \in DOMAIN l |->
    IF l[k] = s.pattern /\ (s.all \/ \A j \in 1..(k - 1) : l[j] # s.pattern)
    THEN Replacement(s) ELSE <<l[k]>>])

\* When nothing is selected, :s, :& and :~ replace in each line of the range
\* the first match, or all of them, and look at no replacement again; the
\* other lines stay: the loop over a moving target between two marks is a
\* function on lines.
Substitutes ==
  [][Types("s") /\ Selected(ed) = <<>>
     => Lines(ed'.text) =
          [k \in DOMAIN Lines(ed.text) |->
             IF typed'.b <= k /\ k <= typed'.f
             THEN SubLine(Lines(ed.text)[k], subst')
             ELSE Lines(ed.text)[k]]]_vars

\* :g/p/d on the whole text, begun with nothing selected, leaves exactly the
\* lines without a match, and an empty last line when the last one matched:
\* the search goes on from the line that was erased, up to a mark that moves.
GlobalErases ==
  [][/\ loop # NoLoop /\ loop' = NoLoop
     /\ loop.whole /\ ~loop.inverse /\ loop.cmds = <<"d">>
     /\ Selected(loop.from) = <<>>
     => LET before == Lines(loop.from.text)
            Miss(l) == loop.pattern \notin {l[k] : k \in DOMAIN l}
            left   == SelectSeq(before, Miss)
        IN  Lines(ed'.text) =
              IF Miss(before[Len(before)]) THEN left
              ELSE Append(left, <<>>)]_vars

\* A global command that is begun with nothing selected, and copies no lines
\* to the end of the text, ends: it searches no more often than there were
\* words, or until the count of hits stops it, for each round takes what it
\* found out of what is left.
GlobalEnds ==
  loop # NoLoop /\ Selected(loop.from) = <<>> =>
    loop.rounds <= MaxHits +
      Cardinality({k \in DOMAIN loop.from.text : loop.from.text[k] \in Word})

=============================================================================
