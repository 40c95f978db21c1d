------------------------------- MODULE ExStream -------------------------------
(***************************************************************************)
(* Editing a file in ex mode without loading it: ex_stream reads the text  *)
(* line by line, hands each line to ex_stream_line::handle, which writes   *)
(* the lines to keep to a temp file, and copies the temp file to a work    *)
(* file when the command changed something.                                *)
(*                                                                         *)
(* A text is a sequence of characters, some of them newlines; what is      *)
(* searched and substituted is one character.  Streams are those of the    *)
(* standard library: at the end of the text a stream gets bad bits, and    *)
(* then has no position to return to.  The markers, which no operation on  *)
(* the text touches, and files that cannot be written are left out.        *)
(***************************************************************************)
EXTENDS Integers, SequencesExt

CONSTANTS
  Word,       \* the words of a text
  Nl,         \* the newline
  Files,      \* the texts a file may hold when it is opened
  Texts,      \* the texts that are inserted
  Subs,       \* the substitutions (data::substitute and is_regex)
  LineSize,   \* default_line_size: what is read at once (1000)
  Near,       \* the lines that goto_line always counts from the top (100)
  Far,        \* how far up it goes back, and does not start over (1000)
  MaxLine,    \* bound: the largest line number in an address, or found
  MaxPieces,  \* bound: the length of a text
  MaxEdits    \* bound: the number of passes and writes

Piece == Word \cup {Nl}
Sub == [pattern : Word, with : {<<>>} \cup {<<w>> : w \in Word},
        kind : {"plain", "regex", "groups"}, global : BOOLEAN]

ASSUME TextsAssumption ==
  /\ Nl \notin Word
  /\ Files \subseteq Seq(Piece)
  /\ Texts \subseteq Seq(Piece)
  /\ Subs \subseteq Sub
  /\ LineSize \in Nat \ {0} /\ Near \in Nat /\ Far \in Nat
  /\ MaxLine \in Nat
  /\ MaxPieces \in Nat
  /\ MaxEdits \in Nat

Unknown == -1     \* LINE_COUNT_UNKNOWN
BlockLines == 1000 \* the lines a read counts for in block mode

VARIABLES
  file,      \* the text of m_file
  work,      \* the text of m_work
  temp,      \* the text of m_temp
  bad,       \* the stream of m_temp is bad
  at,        \* what m_stream points to
  modified,  \* m_is_modified
  reader,    \* where m_stream is and what it is read with
  last,      \* m_last_line_no
  alive,     \* the program has not run into a loop without an end
  \* history: what the commands say the text is, as long as they are obeyed
  doc,
  clean,
  edits      \* the passes and writes so far

files == <<file, work, temp, bad, at, modified>>
history == <<doc, clean, edits>>
vars == <<file, work, temp, bad, at, modified, reader, last, alive,
          doc, clean, edits>>

\* The position, the failure bits that tell (eof, with or without fail, or only
\* fail), m_line_no, m_current_line_size and m_block_mode.
Reader == [pos : Nat, state : {"good", "eof", "fail"}, line : Int, size : Int,
           block : BOOLEAN]

Current == IF at = "work" THEN work ELSE file

-----------------------------------------------------------------------------
(* Texts and their lines.                                                  *)

Newlines(c) == {i \in DOMAIN c : c[i] = Nl}

Terminated(c) == c = <<>> \/ Last(c) = Nl

\* The lines of a text.
Lines(c) == Cardinality(Newlines(c)) + (IF Terminated(c) THEN 0 ELSE 1)

\* The lines handle gets while the text is read: one is complete at its newline,
\* or when it is as long as what is read at once.  What is left at the end is
\* handled too, and that is nothing when the text ends in a newline.
Handled(c) ==
  LET read[i \in 0..Len(c)] ==
        IF i = 0 THEN <<<<>>>>
        ELSE LET h == read[i - 1]
                 line == Append(Last(h), c[i])
             IN  IF c[i] = Nl \/ Len(line) = reader.size
                 THEN Front(h) \o <<line, <<>>>>
                 ELSE Append(Front(h), line)
  IN  read[Len(c)]

InOpen(h, b, e) == {k \in DOMAIN h : b <= k /\ k < e}

\* The lines a command acts on.
In(h, b, e) == {k \in DOMAIN h : b <= k /\ k <= e}

\* What is kept of the lines, put together again.
Kept(h, Chunk(_)) == FlattenSeq([k \in DOMAIN h |-> Chunk(k)])

Without(h, lines) == Kept(h, LAMBDA k : IF k \in lines THEN <<>> ELSE h[k])

\* address::get_line, set_line: a number is never past the known last line.
Clamped(n) == IF last = Unknown THEN n ELSE Min({n, last})

IsOk(b, e) == 0 < b /\ b <= e

-----------------------------------------------------------------------------
(* Reading a line forward and backward.  A reader that goes on, ok or not, *)
(* has the text it read last too.                                          *)

Starts(r) == [pos |-> r.pos, state |-> r.state, line |-> r.line, size |-> r.size,
              block |-> r.block, ok |-> TRUE, text |-> <<>>]
StartsGood(r) == [Starts(r) EXCEPT !.state = "good"]
StartsOver(r) == [pos |-> 0, state |-> "good", line |-> Unknown, size |-> r.size,
                  block |-> r.block, ok |-> TRUE, text |-> <<>>]
Stops(x) == [pos |-> x.pos, state |-> x.state, line |-> x.line, size |-> x.size,
             block |-> x.block]

\* get_next_line: getline reads up to a newline or size - 1 characters, and
\* that it does not read at all if only fail is set is taken for a long line.
NextLine(c, x) ==
  LET ends == {i \in Newlines(c) : i > x.pos}
      end  == IF ends = {} THEN Len(c) ELSE Min(ends) - 1
      room == IF x.size > 0 THEN x.size - 1 ELSE 0
  IN  CASE x.state = "eof" -> [x EXCEPT !.ok = FALSE]
        [] x.state = "fail" -> [x EXCEPT !.text = <<>>, !.line = @ + 1, !.block = TRUE,
                                       !.state = "good"]
        [] x.state = "good" /\ x.pos = Len(c) ->
             [x EXCEPT !.ok = FALSE, !.state = "eof"]
        [] x.state = "good" /\ x.pos < Len(c) /\ end - x.pos > room ->
             [x EXCEPT !.text = SubSeq(c, x.pos + 1, x.pos + room), !.line = @ + 1,
                       !.pos = @ + room, !.block = TRUE]
        [] OTHER ->
             [x EXCEPT !.text = SubSeq(c, x.pos + 1, end), !.line = @ + 1,
                       !.pos = IF ends = {} THEN end ELSE end + 1,
                       !.state = IF ends = {} THEN "eof" ELSE "good"]

Upwards(line) == IF line > 0 THEN line - 1 ELSE line

\* filter_line, for the newline at i of what was read from from on: near the
\* start of the text the stream starts over, and reads less and less.
FilterLineKeepsSize(x, from, got, i) ==
  [x EXCEPT !.text = SubSeq(got, i + 1, Len(got)), !.line = Upwards(@),
            !.state = "good", !.pos = IF from = 0 THEN 0 ELSE from + i - 1]
FilterLine(x, from, got, i) ==
  [x EXCEPT !.text = SubSeq(got, i + 1, Len(got)), !.line = Upwards(@),
            !.state = "good",
            !.pos = IF from = 0 THEN 0 ELSE from + i - 1,
            !.size = IF from = 0 THEN i - 2 ELSE @]

\* get_previous_line: reads the size characters in front of the position, or
\* the first size characters of the text.
PreviousLine(c, x) ==
  LET from == IF x.pos > x.size THEN x.pos - x.size ELSE 0
      to   == IF Len(c) > from + x.size THEN from + x.size ELSE Len(c)
      got  == SubSeq(c, from + 1, to)
  IN  IF x.size < 0 THEN [x EXCEPT !.ok = FALSE, !.pos = IF c = <<>> THEN 0 ELSE 1,
                                     !.state = "eof"]
      ELSE IF got = <<>>
      THEN [x EXCEPT !.ok = FALSE, !.pos = from,
                     !.state = IF x.size = 0 THEN "good" ELSE "eof"]
      ELSE IF Newlines(got) # {} THEN FilterLine(x, from, got, Max(Newlines(got)))
      ELSE [x EXCEPT !.text = got, !.pos = from, !.line = Upwards(@),
                     !.state = "good",
                     !.block = @ \/ x.size = LineSize,
                     !.ok = x.size = LineSize /\ Len(got) = x.size]

\* The loop of goto_line and of find: line by line, as long as it goes on, and
\* so many times at most.
Loop(c, x, times, way, GoesOn(_)) ==
  LET run[n \in 0..times] ==
        IF n = 0 THEN x
        ELSE LET y == run[n - 1]
             IN  IF ~y.ok \/ ~GoesOn(y) THEN y
                 ELSE IF way = "forward" THEN NextLine(c, y)
                 ELSE PreviousLine(c, y)
  IN  run[times]

-----------------------------------------------------------------------------
(* Moving: goto_line and find.                                             *)

Goto(c, r, no) ==
  LET Below(y) == y.line < no
      Above(y) == y.line > no
  IN  Stops(
        IF no = r.line THEN Starts(r)
        ELSE IF no = 0 \/ (no < Near /\ no < r.line) \/ no < r.line - Far
        THEN Loop(c, StartsOver(r), no + 1, "forward", Below)
        ELSE IF no < r.line
        THEN Loop(c, StartsGood(r), r.line - no, "back", Above)
        ELSE Loop(c, Starts(r), no - r.line, "forward", Below))

Stream ==
  /\ at = "none"
  /\ at' = "file"
  /\ reader' = Goto(file, reader, 0)
  /\ UNCHANGED <<file, work, temp, bad, modified, last, alive, history>>

GotoLine(no) ==
  /\ alive /\ at # "none"
  /\ reader' = Goto(Current, reader, no)
  /\ UNCHANGED <<files, last, alive, history>>

\* From the next line on or back until w is found.
Searched(c, r, w, way) ==
  LET Missed(y) == w \notin Range(y.text)
  IN  Loop(c, StartsGood(r), Len(c) + 2, way, Missed)

\* find: a search that fails goes back to where it was, and fails to when the
\* stream had no position.  A line that was read last but not ok is not looked
\* at, and a loop that comes no further never ends.
Find(w, way) ==
  LET x == Searched(Current, reader, w, way)
      missed == ~x.ok \/ w \notin Range(x.text)
      kept == reader.state = "good"
  IN  /\ alive /\ at # "none"
      /\ CASE x.ok /\ missed -> alive' = FALSE /\ reader' = Stops(x)
           [] ~missed ->
                reader' = [Stops(x) EXCEPT !.size = LineSize] /\ UNCHANGED alive
           [] OTHER ->
                /\ reader' = [pos |-> IF kept THEN reader.pos ELSE x.pos,
                              state |-> IF kept THEN "good" ELSE "fail",
                              line |-> reader.line, size |-> LineSize,
                              block |-> x.block]
                /\ UNCHANGED alive
      /\ reader'.line <= MaxLine
      /\ UNCHANGED <<files, last, history>>

\* get_line_count_request, also what a $ or % in an address asks for.  For an
\* empty text the byte before the buffer decides whether a line is added.
CountRequest ==
  LET block == reader.block \/ Newlines(Current) = {}
      kept == reader.state = "good"
  IN  /\ alive /\ at # "none"
      /\ \E unended \in 0..1 :
           /\ Current # <<>> => (unended = 0 <=> Terminated(Current))
           /\ last' = unended + IF block THEN BlockLines
                                 ELSE Cardinality(Newlines(Current))
      /\ reader' = [pos |-> IF kept THEN reader.pos ELSE Len(Current),
                    state |-> IF kept THEN "good" ELSE "fail",
                    line |-> reader.line, size |-> reader.size, block |-> block]
      /\ UNCHANGED <<files, alive, history>>

-----------------------------------------------------------------------------
(* A pass over the text (STREAM_LINE_ON_CHAR) writes the lines to keep to  *)
(* temp, on top of what an earlier pass left there.  If the pass acted on  *)
(* a line, copy makes all of temp the work file, unless temp is bad.       *)
(* acts are the lines the pass acts on, breaks those it cannot write, and  *)
(* wrong those it does not make what the command says.                     *)

Passed(out, acts, breaks) ==
  \/ /\ acts # {} /\ ~bad /\ breaks = {}
     /\ work' = temp \o out
     /\ Len(work') <= MaxPieces
     /\ temp' = <<>>
     /\ at' = "work"
     /\ modified' = TRUE
     /\ UNCHANGED bad
  \/ /\ acts = {} \/ bad \/ breaks # {}
     /\ temp' = IF bad THEN temp ELSE temp \o out
     /\ Len(temp') <= MaxPieces
     /\ bad' = (bad \/ breaks # {})
     /\ UNCHANGED <<work, at, modified>>

\* The text the command should give, and the lines the code gets wrong.
Follows(text, wrong) ==
  /\ clean' = (clean /\ wrong = {} /\ temp' = <<>>)
  /\ doc' = IF clean' THEN text ELSE <<>>

Once == edits' = edits + 1

\* A pass leaves the stream at its end.
At(p) == [pos |-> p, state |-> "good", line |-> reader.line, size |-> reader.size,
          block |-> reader.block]

\* The lines that are longer than what is read at once.
Parts(c) == {k \in 1..(Len(Handled(c)) - 1) : Last(Handled(c)[k]) # Nl}
Whole(c) == Parts(c) = {}

\* A command that fails in copy returns before it sets a line number.
Ended(out, acts, breaks, total, no, text, wrong) ==
  /\ alive /\ at # "none"
  /\ Once
  /\ Passed(out, acts, breaks)
  /\ IF acts # {} /\ bad'
     THEN /\ reader' = At(Len(Current))
          /\ UNCHANGED <<last, doc, clean>>
     ELSE /\ last' = total
          /\ reader' = IF acts # {} THEN Goto(work', At(0), no)
                       ELSE Goto(Current, At(Len(Current)), no)
          /\ Follows(text, wrong \cup Parts(Current))
  /\ UNCHANGED <<file, alive>>

\* The lines that are left, not counting the empty one at the end.
FewerOffByOne(h, d) == Len(h) - Cardinality(d)
Fewer(h, d) == Len(h) - Cardinality(d) - 1

Erase(b, e) ==
  LET h == Handled(Current)
      d == In(h, b, e)
  IN  /\ IsOk(b, e)
      /\ Ended(Without(h, d), d, {}, Fewer(h, d), 0, Without(h, b..e), {})

\* A line with what is at these places replaced.
Replaced(with, h, places) ==
  FlattenSeq([i \in DOMAIN h |-> IF i \in places THEN with ELSE <<h[i]>>])

\* Each line of the range but the last is written without its last character;
\* of the empty line after the last newline that is -1 characters.
Join(b, e) ==
  LET h == Handled(Current)
      j == In(h, b, e - 1)
  IN  /\ IsOk(b, e)
      /\ Ended(Kept(h, LAMBDA k : IF k \in j /\ h[k] # <<>> THEN Front(h[k])
                                                            ELSE h[k]),
               j, {k \in j : h[k] = <<>>},
               Fewer(h, j), b - 1,
               Kept(h, LAMBDA k : IF k \in b..(e - 1)
                                  THEN Replaced(<<>>, h[k], Newlines(h[k]))
                                  ELSE h[k]),
               {k \in j : ~Terminated(Current) /\ e > Len(h)})

\* insert_text makes a range of two lines, line and line + 1.
Insert(n, after, text) ==
  LET line == IF after THEN n + 1 ELSE n
      b == Clamped(line)
      e == Clamped(line + 1)
      h == Handled(Current)
      i == In(h, b, e)
  IN  /\ IsOk(b, e)
      /\ Ended(Kept(h, LAMBDA k : IF k \in i THEN text \o h[k] ELSE h[k]),
               i, {}, last, line,
               Kept(h, LAMBDA k : IF k = line THEN text \o h[k] ELSE h[k]),
               (i \ {line}) \cup ({line} \ i))

Occurs(s, h) == {i \in DOMAIN h : h[i] = s.pattern}

\* The places that are replaced, all of them or the first.
Places(s, h, all) == IF all \/ Occurs(s, h) = {} THEN Occurs(s, h)
                                                 ELSE {Min(Occurs(s, h))}

\* Without regular expressions the replacement is copied over the pattern in
\* place, then the line is cut at the end by the difference in length.  The
\* buffer is not terminated: strstr also finds the pattern in what an earlier
\* line, or nobody, left behind the line.
Hits(s, h, behind) ==
  IF s.global THEN Cardinality(Occurs(s, h)) + behind
              ELSE Min({1, Cardinality(Occurs(s, h)) + behind})

Cut(s, hits) == IF s.with = <<>> THEN hits ELSE 0

Overwritten(s, h, hits) ==
  LET over == IF s.with = <<>> THEN h
              ELSE Replaced(s.with, h, Places(s, h, s.global))
  IN  SubSeq(over, 1, Len(over) - Cut(s, hits))

SubstitutePlain(b, e, s) ==
  LET h == Handled(Current)
      r == In(h, b, e)
  IN  /\ s.kind = "plain"
      /\ IsOk(b, e)
      /\ \E behind \in [r -> 0..1] :
           LET hits == [k \in r |-> Hits(s, h[k], behind[k])]
           IN  Ended(Kept(h, LAMBDA k : IF k \in r
                                        THEN Overwritten(s, h[k], hits[k])
                                        ELSE h[k]),
                     {k \in r : hits[k] # 0},
                     {k \in r : Cut(s, hits[k]) > Len(h[k])}, last, 0,
                     Kept(h, LAMBDA k : IF k \in r
                                        THEN Replaced(s.with, h[k],
                                               Places(s, h[k], s.global))
                                        ELSE h[k]),
                     {k \in r : s.with = <<>>})

\* regex::search is -1 for a line without a match, 0 for a match without
\* groups, and both are taken for a truth value.
Search(s, h) == IF Occurs(s, h) = {} THEN -1
                ELSE IF s.kind = "groups" THEN 1 ELSE 0

SubstituteRegex(b, e, s) ==
  LET h == Handled(Current)
      r == In(h, b, e)
      a == {k \in r : Search(s, h[k]) # 0}
  IN  /\ s.kind # "plain"
      /\ IsOk(b, e)
      /\ Ended(Kept(h, LAMBDA k : IF k \in a
                                  THEN Replaced(s.with, h[k], Occurs(s, h[k]))
                                  ELSE h[k]),
               a, {}, last, 0,
               Kept(h, LAMBDA k : IF k \in r
                                  THEN Replaced(s.with, h[k],
                                         Places(s, h[k], s.global))
                                  ELSE h[k]),
               {k \in r : ~s.global} \cup (r \ a))

\* A yank stops behind its range.  The lines before it are written to temp.
YankRange(b, e) ==
  LET h == Handled(Current)
      out == Without(h, b..Len(h))
  IN  /\ alive /\ at # "none"
      /\ Once
      /\ IsOk(b, e)
      /\ temp' = IF bad THEN temp ELSE temp \o out
      /\ Len(temp') <= MaxPieces
      /\ reader' = At(Len(FlattenSeq(SubSeq(h, 1, Min({e + 1, Len(h)})))))
      /\ Follows(doc, {})
      /\ UNCHANGED <<file, work, bad, at, modified, last, alive>>

\* Writing a range to another file leaves only the stream at its end.
WriteRange(b, e) ==
  /\ alive /\ at # "none"
  /\ IsOk(b, e)
  /\ reader' = At(Len(Current))
  /\ UNCHANGED <<files, last, alive, history>>

\* write(), from do_file_save, whether the text is modified or not.
Write ==
  /\ alive /\ at # "none"
  /\ Once
  /\ file' = work
  /\ work' = <<>>
  /\ at' = "file"
  /\ modified' = FALSE
  /\ reader' = At(0)
  /\ UNCHANGED <<temp, bad, last, alive>>
  /\ IF modified THEN Follows(doc, {}) ELSE clean' = FALSE /\ doc' = <<>>

-----------------------------------------------------------------------------

Init ==
  /\ file \in Files
  /\ work = <<>>
  /\ temp = <<>>
  /\ bad = FALSE
  /\ at = "none"
  /\ modified = FALSE
  /\ reader = [pos |-> 0, state |-> "good", line |-> Unknown, size |-> LineSize,
               block |-> FALSE]
  /\ last = Unknown
  /\ alive = TRUE
  /\ doc = file
  /\ clean = TRUE
  /\ edits = 0

\* The lines that are typed.
Typed == {Clamped(n) : n \in 1..MaxLine}

Next ==
  \/ Stream
  \/ CountRequest
  \/ \E w \in Word, way \in {"forward", "back"} : Find(w, way)
  \/ \E no \in 0..MaxLine : GotoLine(no)
  \/ \E b, e \in Typed : WriteRange(b, e)
  \/ /\ edits < MaxEdits
     /\ \/ Write
        \/ \E n \in Typed \cup {0}, after \in BOOLEAN, text \in Texts :
             Insert(n, after, text)
        \/ \E b, e \in Typed :
             \/ Erase(b, e) \/ Join(b, e) \/ YankRange(b, e)
             \/ \E s \in Subs : SubstitutePlain(b, e, s) \/ SubstituteRegex(b, e, s)

Spec == Init /\ [][Next]_vars

-----------------------------------------------------------------------------
(* Properties.                                                             *)

TypeOK ==
  /\ {file, work, temp, doc} \subseteq Seq(Piece)
  /\ bad \in BOOLEAN
  /\ at \in {"none", "file", "work"}
  /\ modified \in BOOLEAN
  /\ reader \in Reader
  /\ reader.pos <= Len(Current) /\ Unknown <= reader.line
  /\ last \in Int /\ last >= Unknown
  /\ alive \in BOOLEAN
  /\ clean \in BOOLEAN
  /\ edits \in 0..MaxEdits

\* What is shown is what the commands say, as long as no pass has left lines
\* in temp and no command met one of the cases the code gets wrong.
ShownAsEdited == clean => Current = doc

\* A search ends, whatever moves, edits and searches came before it: on its way
\* back it reads less and less from the top.  Known cases: a text that begins
\* with more characters without a newline than are read at once, and moves up
\* by goto_line that have left nothing to read.
SearchEnds ==
  \/ alive
  \/ \A i \in Newlines(Current) : i > LineSize
  \/ reader.size <= 1

\* A line count that is right stays right when lines are erased or joined,
\* in a text that ends in a newline and with nothing left in temp.
CountKept ==
  [][last = Lines(Current) /\ last' # last /\ ~reader'.block /\ Whole(Current)
       /\ Terminated(Current) /\ temp = <<>> => last' = Lines(Current')]_vars

=============================================================================
