------------------------------ MODULE ExCommand -------------------------------
(***************************************************************************)
(* The ex command line of ui/textctrl-imp.cpp: a text control in which a   *)
(* command, a find, a calculation or the lines of an input mode are typed. *)
(* The command is kept twice: m_command has it behind its prefix, and with *)
(* ^R and a name where a register was inserted; the control shows it.      *)
(* Each key is applied to both, from the caret and the selection that the  *)
(* control has when the handler runs.                                      *)
(*                                                                         *)
(* A key is one step: of KEY_DOWN, of CHAR, of what the control does, and  *)
(* of the TEXT that follows.  Posted register texts, the timer and focus   *)
(* events come at any moment.  Cut() leaves the control alone: TEXT_CUT is *)
(* handled so as to prevent it.                                            *)
(***************************************************************************)
EXTENDS Integers, FiniteSets, SequencesExt

CONSTANTS
  Char,       \* the characters that are typed, "." is one of them
  Regs,       \* the contents of each register, by its name in Char
  Clips,      \* what the clipboard may have
  Opens,      \* the prefixes the line is opened with
  Histories,  \* the commands of the last time, from the config
  Inputs,     \* the commands that ask for lines: a, c and i
  Places,     \* where the caret of the document may be
  MaxText,    \* bound: the characters in the control
  MaxKeys     \* bound: the events

ASSUME ExCommandAssumption ==
  /\ "." \in Char /\ Char \cap {"^R", "cr"} = {}
  /\ DOMAIN Regs = Char /\ \A c \in Char : Regs[c] \in Seq(Char)
  /\ Clips \cup Inputs \subseteq Seq(Char) \ {<<>>}
  /\ Opens \subseteq {<<":">>, <<":", "!">>, <<"/">>, <<"!">>, <<"^R", "=">>}
  /\ \A h \in Histories : h \in Seq(Seq(Char \cup {"'"}))
  /\ "none" \notin Places
  /\ MaxText \in Nat /\ MaxKeys \in Nat

VARIABLES
  exMode,       \* is_ex_mode()
  open,         \* whether the bar is shown with this line
  m,            \* m_command
  tc,           \* the control: its value, the caret ip, and what is selected
  input,        \* m_input: whether lines are asked for
  userInput,    \* m_user_input
  controlR,     \* m_control_r
  allSelected,  \* m_all_selected
  timer,        \* whether m_timer runs
  posted,       \* the register texts posted to the control
  caret,        \* of the document: its place, and what was searched from there
  saved,        \* m_saved_pos
  savedSel,     \* m_saved_selection_start
  findString,   \* of find_replace_data
  history,      \* of each type: m_values and m_iterator
  done,         \* how the last event ended
  origin,       \* where the caret, or what was selected in visual mode, started
                \* when the bar was opened
  astray,       \* what has happened that parts the two texts, or loses a place
  n             \* the events

document == <<caret, saved, savedSel, findString>>
vars == <<exMode, open, m, tc, input, userInput, controlR, allSelected, timer,
          posted, document, history, done, origin, astray, n>>

-----------------------------------------------------------------------------
None == "none"

\* ex_command::type: the types this model opens, and what an emptied line becomes.
Type(c) ==
  CASE c = <<>> -> None
    [] c # <<>> /\ c[1] = "^R" -> IF Len(c) > 1 /\ c[2] = "=" THEN "calc" ELSE None
    [] c # <<>> /\ c[1] = ":" -> "command"
    [] c # <<>> /\ c[1] = "!" -> "escape"
    [] c # <<>> /\ c[1] = "/" -> "find"
    [] OTHER -> "vi"

\* str().size().
Prefixed(c) == CASE Type(c) = None -> 0 [] Type(c) = "calc" -> 2 [] OTHER -> 1

Rest(c) == SubSeq(c, Prefixed(c) + 1, Len(c))

Reset(c, text) == SubSeq(c, 1, Prefixed(c)) \o text

\* std::out_of_range: the program ends, and no step follows.
Thrown == <<"thrown">>
Beyond(c, pos) == c = Thrown \/ (pos < Len(c) /\ Prefixed(c) + pos > Len(c))

\* A position of the control is compared with the length of the text and prefix.
Insert(c, pos, s) ==
  IF Beyond(c, pos) THEN Thrown
  ELSE IF pos < Len(c)
  THEN SubSeq(c, 1, Prefixed(c) + pos) \o s \o SubSeq(c, Prefixed(c) + pos + 1, Len(c))
  ELSE c \o s

Erase(c, pos, len) ==
  IF Beyond(c, pos) THEN Thrown
  ELSE IF pos >= Len(c) THEN c
  ELSE SubSeq(c, 1, Prefixed(c) + pos)
         \o (IF pos + len >= Len(c) THEN <<>>
             ELSE SubSeq(c, Prefixed(c) + pos + len + 1, Len(c)))

Selected == tc.from # tc.to
AtEnd == tc.ip = Len(tc.value)

\* handle of wxID_CUT.
Cut(c) == IF Selected THEN Erase(c, tc.from, tc.to - tc.from) ELSE c

\* Not so: without a look at the caret.
HandleAppends(c, s) == c \o s

\* handle of a character.
Handle(c, s) ==
  IF AtEnd /\ c # Thrown THEN c \o s ELSE Insert(c, tc.ip, s)

\* handle of WXK_BACK.
HandleBack(c) ==
  CASE c = <<>> -> c
    [] c # <<>> /\ AtEnd -> Front(c)
    [] c # <<>> /\ ~AtEnd /\ tc.ip = 0 -> c
    [] OTHER -> Erase(c, tc.ip - 1, IF Selected THEN tc.to - tc.from ELSE 1)

-----------------------------------------------------------------------------
\* The control, as it does for itself.
Plain(value, ip) == [value |-> value, ip |-> ip, from |-> ip, to |-> ip]
AllOf(value) ==
  {[value |-> value, ip |-> i, from |-> 0, to |-> Len(value)] : i \in {0, Len(value)}}

\* s in the place of the selection, or at the caret.
Written(s) ==
  LET at == IF Selected THEN tc.from ELSE tc.ip
      behind == IF Selected THEN tc.to ELSE tc.ip
  IN Plain(SubSeq(tc.value, 1, at) \o s \o SubSeq(tc.value, behind + 1, Len(tc.value)),
           at + Len(s))

Backed ==
  IF Selected THEN Written(<<>>)
  ELSE IF tc.ip = 0 THEN tc
  ELSE Plain(RemoveAt(tc.value, tc.ip), tc.ip - 1)

\* SelectAll: not at once if there is a quote.
SelectsAll(text) ==
  IF \E i \in DOMAIN text : text[i] \in {"'", "'<,'>"}
  THEN /\ tc' = Plain(text, 0) /\ timer' = TRUE /\ UNCHANGED allSelected
  ELSE /\ tc' \in AllOf(text) /\ allSelected' = TRUE /\ UNCHANGED timer

\* set_text, followed by SelectAll.
TextSet(c, text) == m' = Reset(c, text) /\ SelectsAll(text)

\* The same for a line that is opened, but one for a shell command is not selected.
ShellOpen == <<":", "!">>

OpenedWith(c, text) ==
  IF c = ShellOpen
  THEN m' = Reset(c, text) /\ tc' = Plain(text, Len(text)) /\ UNCHANGED <<allSelected, timer>>
  ELSE TextSet(c, text)

-----------------------------------------------------------------------------
\* position_restore: the start of a selection that was ever saved comes first.
Restored == IF savedSel # None THEN savedSel ELSE saved

\* Not so: the caret stays where the text was found.
EscapedHere == caret

EscapedTo == [place |-> Restored, text |-> <<>>]

At(c) == IF c.text = <<>> THEN c.place ELSE "match"

\* get_register: a name that was not used yet has nothing.
Contents(c) == IF c \in Char THEN Regs[c] ELSE <<>>

\* What a register in the command stands for.
Named(r, c) ==
  IF r # <<>> /\ Last(r) = "^R" /\ c \in Char THEN Front(r) \o Regs[c] ELSE Append(r, c)

Expansion(s) ==
  LET e[i \in 0 .. Len(s)] == IF i = 0 THEN <<>> ELSE Named(e[i - 1], s[i])
  IN  e

Expand(s) == Expansion(s)[Len(s)]

\* A text that was given with a register, and is shown as it was given.
Literal(text) == IF \E i \in DOMAIN text : text[i] = "^R" THEN {"literal"} ELSE {}

HasRegister == \E i \in DOMAIN m : i > 1 /\ m[i] = "^R"

\* get_text: in ex mode a command of another type is lost.
Coerced(c) == IF exMode /\ c # <<>> /\ c[1] # ":" THEN <<":">> ELSE c

\* Not so: it goes on from where it was found.
FindsOn(c, u) ==
  IF u /\ Type(c) = "find" THEN [place |-> At(caret), text |-> Rest(c)] ELSE caret

\* EVT_TEXT after an edit: a find that is being typed starts again.
Finds(c, u) ==
  IF u /\ Type(c) = "find" THEN [place |-> Restored, text |-> Rest(c)] ELSE caret

\* The command is c and the control t, after an edit.
Edited(c, u, t, causes) ==
  /\ c # Thrown
  /\ tc' = t
  /\ IF t # tc
     THEN /\ m' = LET d == Coerced(c) IN IF Rest(d) = <<>> /\ ~input THEN Reset(d, <<>>) ELSE d
          /\ caret' = Finds(m', u)
          /\ astray' = (astray \ {"unsearched"}) \cup causes
     ELSE m' = c /\ astray' = astray \cup causes /\ UNCHANGED caret
  /\ UNCHANGED <<allSelected, timer, saved, savedSel, findString>>

Event == n < MaxKeys /\ n' = n + 1 /\ UNCHANGED exMode
Key == open /\ Event /\ UNCHANGED origin
NotDone == done' = [what |-> None, given |-> <<>>, shown |-> <<>>]

\* Causes of going astray: keys before a posted text arrives, an edit that is
\* not at the end when a register makes positions differ, or one by position at
\* the end of a text that is shorter than the command, a selection that ends
\* before the text with the caret at its end.
Overtakes == IF posted # <<>> THEN {"overtaken"} ELSE {}
Shifts == IF HasRegister /\ ~AtEnd THEN {"spliced"} ELSE {}
Splices == IF HasRegister /\ (~AtEnd \/ Selected) THEN {"spliced"} ELSE {}
Lands == IF HasRegister /\ tc.ip < Len(Rest(m)) THEN {"spliced"} ELSE {}
Overwrites == IF Selected /\ tc.ip = tc.to /\ ~AtEnd THEN {"overwritten"} ELSE {}

-----------------------------------------------------------------------------
\* textctrl_input: get, set of a value and set of a key.
Get(h) == IF h.at <= Len(h.values) THEN h.values[h.at] ELSE <<>>

Spared(l, v, text) == IF v = text THEN l ELSE Append(l, v)

Without(values, text) ==
  LET w[i \in 0 .. Len(values)] == IF i = 0 THEN <<>> ELSE Spared(w[i - 1], values[i], text)
  IN  w

Recent(h, text) ==
  [values |-> <<text>> \o Without(h.values, text)[Len(h.values)], at |-> 1]

Browsed(h, k) ==
  [h EXCEPT !.at = CASE k = "down" -> IF @ > 1 THEN @ - 1 ELSE @
                     [] k = "up" -> IF @ <= Len(h.values) THEN @ + 1 ELSE @
                     [] k = "end" -> Len(h.values)
                     [] k = "home" -> 1]

\* The list that tci() returns.
ListOf(c) == IF Type(c) \in {"calc", "escape"} THEN Type(c) ELSE "command"

-----------------------------------------------------------------------------
Init ==
  /\ exMode \in BOOLEAN
  /\ open = FALSE
  /\ m = <<>> /\ tc = Plain(<<>>, 0)
  /\ input = FALSE /\ userInput = FALSE /\ controlR = FALSE
  /\ allSelected = FALSE /\ timer = FALSE /\ posted = <<>>
  /\ caret \in [place : Places, text : {<<>>}]
  /\ saved = None /\ savedSel = None
  /\ findString = <<>>
  /\ \E h \in Histories :
       history = [t \in {"command", "calc", "escape", "find"} |->
                    [values |-> IF t = "find" THEN <<>> ELSE h, at |-> 1]]
  /\ done = [what |-> None, given |-> <<>>, shown |-> <<>>]
  /\ origin = None /\ astray = {} /\ n = 0

\* What the line shows when it is opened: what was given before.
OpenText(c, visual) ==
  LET given == Get(history[ListOf(c)])
      range == IF visual THEN <<"'<,'>">> ELSE <<>>
  IN  IF c = ShellOpen THEN <<"!">>
      ELSE IF Type(c) = "find" THEN (IF visual THEN <<>> ELSE findString)
      ELSE IF Type(c) # "command" THEN given
      ELSE IF given = <<>> THEN range
      ELSE IF visual /\ given[1] # "'<,'>" THEN range \o given
      ELSE given

\* handle of a string.  The focus follows: where the caret is, is saved, and in
\* visual mode the start of the selection, which may be elsewhere.
Open ==
  /\ ~open /\ Event
  /\ \E c \in {o \in Opens : exMode => o[1] = ":"}, visual \in BOOLEAN,
        start \in Places \cup {At(caret)} :
       LET text == OpenText(c, visual)
       IN /\ visual => ~exMode /\ c \in {<<":">>, <<"/">>}
          /\ ~visual => start = At(caret)
          /\ OpenedWith(c, text)
          /\ origin' = start
          /\ savedSel' = IF visual THEN start ELSE savedSel
          /\ astray' = Overtakes \cup Literal(text)
                         \cup (IF savedSel' \in {None, start} THEN {} ELSE {"stale"})
  /\ open' = TRUE /\ input' = FALSE /\ userInput' = FALSE /\ controlR' = FALSE
  /\ saved' = At(caret)
  /\ NotDone
  /\ UNCHANGED <<posted, caret, findString, history>>

\* A character is typed: the name of a register after ^R, else text.
Char_(c) ==
  /\ Key /\ Len(tc.value) < MaxText
  /\ Cut(m) # Thrown
  /\ userInput' = TRUE /\ controlR' = FALSE
  /\ IF controlR
     THEN IF Regs[c] # <<>>
          THEN /\ m' = Insert(Insert(Cut(m), tc.ip, <<"^R">>), tc.ip + 1, <<c>>)
               /\ m' # Thrown
               /\ posted' = Append(posted, Regs[c])
               /\ astray' = astray \cup Overtakes \cup Overwrites \cup Splices \cup Lands
                              \cup (IF Type(m) = "find" THEN {"register"} ELSE {})
               /\ UNCHANGED <<tc, caret, allSelected, timer, saved, savedSel, findString>>
          ELSE /\ m' = Cut(m)
               /\ astray' = astray \cup (IF Selected THEN {"cut"} ELSE {})
               /\ UNCHANGED <<tc, posted, allSelected, timer, document>>
     ELSE /\ Edited(Handle(Cut(m), <<c>>), TRUE, Written(<<c>>),
                    Overtakes \cup Overwrites \cup Splices)
          /\ UNCHANGED posted
  /\ NotDone
  /\ UNCHANGED <<open, input, history>>

\* ^R: what is selected goes from the command, not from the control.
ControlR ==
  /\ Key
  /\ m' = Cut(m) /\ m' # Thrown
  /\ userInput' = TRUE /\ controlR' = TRUE
  /\ astray' = astray \cup (IF Selected THEN {"cut"} ELSE {})
                 \cup (IF userInput THEN {} ELSE {"unsearched"})
  /\ NotDone
  /\ UNCHANGED <<open, tc, input, allSelected, timer, posted, document, history>>

\* The posted text is written, whatever has happened since.
Register ==
  /\ posted # <<>> /\ UNCHANGED <<exMode, n, origin>>
  /\ Edited(m, userInput, Written(Head(posted)), {})
  /\ posted' = Tail(posted)
  /\ NotDone
  /\ UNCHANGED <<open, input, userInput, controlR, history>>

Back ==
  /\ Key
  /\ Edited(HandleBack(m), userInput, Backed,
            Overtakes \cup (IF Selected THEN {"erased"} ELSE {})
              \cup (IF Rest(m) = <<>> THEN {"popped"} ELSE {})
              \cup (IF HasRegister THEN {"spliced"} ELSE {}))
  /\ NotDone
  /\ UNCHANGED <<open, input, userInput, controlR, posted, history>>

\* EVT_TEXT_PASTE, and what the control pastes.
Paste ==
  /\ Key
  /\ \E s \in Clips :
       /\ Len(tc.value \o s) <= MaxText
       /\ Edited(Insert(Cut(m), tc.ip, s), userInput, Written(s),
                 Overtakes \cup Overwrites \cup Splices \cup Lands)
  /\ NotDone
  /\ UNCHANGED <<open, input, userInput, controlR, posted, history>>

Left ==
  /\ Key
  /\ LET i == IF allSelected THEN 0 ELSE IF tc.ip > 0 THEN tc.ip - 1 ELSE tc.ip
     IN tc' = Plain(tc.value, i)
  /\ allSelected' = FALSE
  /\ astray' = astray \cup Overtakes
  /\ NotDone
  /\ UNCHANGED <<open, m, input, userInput, controlR, timer, posted, document, history>>

Right ==
  /\ Key
  /\ LET e == Len(tc.value)
         i == IF allSelected THEN e ELSE IF tc.ip < e THEN tc.ip + 1 ELSE tc.ip
     IN tc' = Plain(tc.value, i)
  /\ allSelected' = FALSE
  /\ astray' = astray \cup Overtakes
  /\ NotDone
  /\ UNCHANGED <<open, m, input, userInput, controlR, timer, posted, document, history>>

\* A part of the text is selected with the mouse; m_all_selected stays.
Select ==
  /\ Key
  /\ \E from \in 0 .. Len(tc.value), to \in 0 .. Len(tc.value) :
       /\ from < to
       /\ \E i \in {from, to} :
            tc' = [value |-> tc.value, ip |-> i, from |-> from, to |-> to]
  /\ astray' = astray \cup Overtakes
  /\ NotDone
  /\ UNCHANGED <<open, m, input, userInput, controlR, allSelected, timer, posted,
                 document, history>>

\* Up, down, home and end: what was given before, or a move of the caret.
Browse(k) ==
  /\ Key
  /\ LET t == IF Type(m) = "find" THEN "find" ELSE ListOf(m)
         h == Browsed(history[t], k)
     IN IF Type(m) # "find" /\ input
        THEN /\ \E i \in 0 .. Len(tc.value) : tc' = Plain(tc.value, i)
             /\ UNCHANGED <<m, allSelected, timer, history>>
        ELSE IF Type(m) # "find" /\ Get(history[t]) # <<>> /\ tc.value = <<>>
        THEN TextSet(m, Get(history[t])) /\ UNCHANGED history
        ELSE IF history[t].values # <<>>
        THEN TextSet(m, Get(h)) /\ history' = [history EXCEPT ![t] = h]
        ELSE UNCHANGED <<m, tc, allSelected, timer, history>>
  /\ astray' = astray \cup Overtakes \cup {"unsearched"} \cup Literal(tc'.value)
  /\ NotDone
  /\ UNCHANGED <<open, input, userInput, controlR, posted, document>>

\* m_timer: all is selected, whatever was typed since.
TimerExpires ==
  /\ timer /\ timer' = FALSE /\ allSelected' = TRUE
  /\ tc' \in AllOf(tc.value)
  /\ astray' = astray \cup Overtakes
  /\ NotDone
  /\ UNCHANGED <<exMode, open, m, input, userInput, controlR, posted, document,
                 history, origin, n>>

\* The focus goes to another window, where the caret of the document may move,
\* and comes back; in visual mode the start of the selection is saved again.
Refocus ==
  /\ Key
  /\ caret' \in {caret} \cup [place : Places, text : {<<>>}]
  /\ saved' = At(caret')
  /\ savedSel' \in IF savedSel = None THEN {None} ELSE {savedSel, At(caret')}
  /\ astray' = astray \cup {"refocused"}
  /\ NotDone
  /\ UNCHANGED <<open, m, tc, input, userInput, controlR, allSelected, timer, posted,
                 findString, history>>

-----------------------------------------------------------------------------
Ended(what, given) == done' = [what |-> what, given |-> given, shown |-> tc.value]

\* The line with a newline at the caret, which it is not to show any more.
Newlined == InsertAt(tc.value, tc.ip + 1, "cr")

\* A register's name that is taken for the "." that ends the lines.
Misreads(c) == IF Len(c) > 2 /\ c[Len(c) - 2] = "^R" THEN {"named"} ELSE {}

\* The line of ex mode stays, and is empty; any other goes.
Emptied == m' = <<":">> /\ tc' = Plain(<<>>, 0)
Away == open' = FALSE /\ UNCHANGED <<m, tc>>

\* Unless hiding is forced, the bar stays where no status bar is shown: as it
\* is, but for the focus.
Stays == open' \in BOOLEAN /\ UNCHANGED <<m, tc>>

Escape ==
  /\ Key
  /\ IF exMode THEN Emptied /\ UNCHANGED <<open, caret>>
     ELSE Away /\ caret' = EscapedTo
  /\ userInput' = FALSE /\ controlR' = FALSE
  /\ Ended("escape", <<>>)
  /\ astray' = astray \cup Overtakes
  /\ UNCHANGED <<input, allSelected, timer, posted, saved, savedSel, findString, history>>

\* With no text: the next line of ex mode, else the line goes.
EnterNothing ==
  /\ Key /\ Rest(Coerced(m)) = <<>> /\ ~input
  /\ IF exMode THEN m' = Reset(Coerced(m), <<>>) /\ UNCHANGED <<open, tc>>
     ELSE Away
  /\ Ended("nothing", <<>>)
  /\ astray' = astray \cup Overtakes
  /\ UNCHANGED <<input, userInput, controlR, allSelected, timer, posted, document, history>>

\* Return in input mode: a newline, or the end if the line ends with a ".".
Entered == Handle(m, <<"cr">>)

\* Not so: the last newline goes with the ".".
LinesUnended(c) == SubSeq(c, 2, Len(c) - 3)

\* The lines without prefix and ".".
Lines(c) == SubSeq(c, 2, Len(c) - 2)

\* What is inserted has an end of line more, if it is anything.
Inserted(c) ==
  IF Lines(c) = <<>> THEN <<>> ELSE Append(Expand(Lines(c)), "cr")

EnterLine ==
  /\ Key /\ input /\ Len(tc.value) < MaxText /\ Entered # Thrown
  /\ LET c == Coerced(Entered)
         finished == Len(c) >= 2 /\ c[Len(c)] = "cr" /\ c[Len(c) - 1] = "."
     IN IF Rest(c) = <<>>  \* without its prefix the newline is taken for one
        THEN /\ m' = Reset(c, <<>>) /\ open' = exMode
             /\ Ended("nothing", <<>>)
             /\ UNCHANGED <<tc, caret, allSelected, timer, saved, savedSel, findString, astray>>
        ELSE IF finished
        THEN /\ m' = c /\ open' \in BOOLEAN
             /\ done' = [what |-> "input", given |-> Inserted(c), shown |-> Newlined]
             /\ astray' = astray \cup Overtakes \cup Shifts \cup Misreads(c)
                            \cup (IF open' THEN {"kept"} ELSE {})
             /\ UNCHANGED <<tc, caret, allSelected, timer, saved, savedSel, findString>>
        ELSE /\ Edited(c, userInput, Written(<<"cr">>), Overtakes \cup Splices \cup Overwrites
                         \cup (IF Selected THEN {"entered"} ELSE {}))
             /\ NotDone /\ UNCHANGED open
  /\ UNCHANGED <<input, userInput, controlR, posted, history>>

\* Return with a text that is not to be searched again, or is executed now.
Found ==
  LET r == Rest(m) IN IF r[1] = "^R" /\ Len(r) > 1 THEN Contents(r[2]) ELSE r

\* The find that was typed is accepted; it has been searched already.
EnterFind ==
  /\ Key /\ Rest(m) # <<>> /\ Type(m) = "find" /\ userInput /\ open' = FALSE
  /\ findString' = Rest(m)
  /\ history' = [history EXCEPT !["find"] = Recent(@, Rest(m))]
  /\ Ended("find", Rest(m))
  /\ astray' = astray \cup Overtakes
  /\ UNCHANGED <<m, tc, input, userInput, controlR, allSelected, timer, posted, caret,
                 saved, savedSel>>

\* The find string is searched as vi command.
ExecFind ==
  /\ Key /\ Rest(m) # <<>> /\ Type(m) = "find" /\ ~userInput
  /\ \/ /\ open' = FALSE
        /\ caret' = [place |-> At(caret), text |-> Found]
        /\ findString' = Rest(m)
        /\ history' = [history EXCEPT !["find"] = Recent(@, Rest(m))]
        /\ Ended("exec", Found)
     \/ NotDone /\ UNCHANGED <<open, caret, findString, history>>
  /\ astray' = astray \cup Overtakes
  /\ UNCHANGED <<m, tc, input, userInput, controlR, allSelected, timer, posted, saved,
                 savedSel>>

\* exec of a command; one of Inputs comes back with handle of a character.
Exec ==
  /\ Key /\ ~input /\ Rest(Coerced(m)) # <<>> /\ Type(m) # "find"
  /\ \/ /\ Type(m) = "command" /\ Rest(m) \in Inputs
        /\ input' = TRUE /\ controlR' = FALSE
        /\ m' = Reset(m, <<>>) /\ tc' = Plain(<<>>, 0)
        /\ Ended("exec", Expand(Rest(m)))
        /\ UNCHANGED <<open, history>>
     \/ /\ ~(Type(m) = "command" /\ Rest(m) \in Inputs)
        /\ history' = [history EXCEPT ![ListOf(m)] = Recent(@, Rest(m))]
        /\ IF exMode THEN Emptied /\ UNCHANGED open ELSE Stays
        /\ Ended("exec", Expand(Rest(m)))
        /\ UNCHANGED <<input, controlR>>
     \/ /\ NotDone
        /\ UNCHANGED <<open, m, tc, input, controlR, history>>
  /\ astray' = astray \cup Overtakes
  /\ UNCHANGED <<userInput, allSelected, timer, posted, document>>

\* The caret of the document moves while the bar is not shown.
Move ==
  /\ ~open /\ Event
  /\ caret' \in [place : Places, text : {<<>>}] \ {caret}
  /\ NotDone
  /\ UNCHANGED <<open, m, tc, input, userInput, controlR, allSelected, timer, posted, saved,
                 savedSel, findString, history, origin, astray>>

Next ==
  \/ Open \/ Move \/ ControlR \/ Back \/ Paste \/ Left \/ Right \/ Select
  \/ \E c \in Char : Char_(c)
  \/ \E k \in {"up", "down", "home", "end"} : Browse(k)
  \/ Escape \/ EnterNothing \/ EnterLine \/ EnterFind \/ ExecFind \/ Exec
  \/ Register \/ TimerExpires \/ Refocus

Spec == Init /\ [][Next]_vars

-----------------------------------------------------------------------------
Symbol == Char \cup {"'", "'<,'>", "^R", "=", ":", "/", "!", "cr"}
Text == Seq(Symbol)
Place == Places \cup {"match", None}
Kinds == {"command", "calc", "escape", "find"}

TypeOK ==
  /\ exMode \in BOOLEAN /\ open \in BOOLEAN
  /\ m \in Text
  /\ tc \in [value : Text, ip : Nat, from : Nat, to : Nat]
  /\ tc.from <= tc.to /\ tc.to <= Len(tc.value) /\ tc.ip \in {tc.from, tc.to}
  /\ input \in BOOLEAN /\ userInput \in BOOLEAN /\ controlR \in BOOLEAN
  /\ allSelected \in BOOLEAN /\ timer \in BOOLEAN
  /\ posted \in Seq(Seq(Char) \ {<<>>})
  /\ caret \in [place : Place, text : Text]
  /\ saved \in Place /\ savedSel \in Place /\ origin \in Place
  /\ findString \in Text
  /\ history \in [Kinds -> [values : Seq(Text), at : Nat \ {0}]]
  /\ done \in [what : {None, "escape", "nothing", "input", "find", "exec"},
               given : Text, shown : Text]
  /\ n \in Nat

Parted == {"overtaken", "spliced", "overwritten", "cut", "erased", "popped", "entered",
           "literal", "named", "kept"}

\* What the line shows is the command that Return gives, with the contents of
\* its registers: each key changed the two in the same way, wherever the caret
\* was, and whatever was selected, recalled or pasted.
ShownIsCommand ==
  open /\ posted = <<>> /\ astray \cap Parted = {} => tc.value = Expand(Rest(m))

\* What is executed is what the line showed when Return was given; what is inserted
\* are the lines it showed before the "." and the newline that end an input mode,
\* with that newline where the caret was, and one end of line behind them.
GivenIsShown ==
  astray \cap Parted = {} =>
    /\ done.what = "exec" => done.given = done.shown
    /\ done.what = "input" =>
         LET lines == SubSeq(done.shown, 1, Len(done.shown) - 2)
         IN  \/ done.given = <<>> /\ lines = <<>>
             \/ done.given = Append(lines, "cr")

\* A find that is accepted without being executed has put the caret at the text
\* that was shown, searched from where the bar was opened, or from the start of what
\* was selected; it is also what the next find will look for.
FindIsSearched ==
  /\ done.what = "find"
  /\ astray \cap (Parted \cup {"unsearched", "register", "refocused", "stale"}) = {}
  => /\ caret = [place |-> origin, text |-> done.shown]
     /\ findString = done.shown

\* Escape brings the caret to where it was when the bar was opened, or, of what was
\* selected in visual mode, to the start.
EscapeReturns ==
  done.what = "escape" /\ ~exMode /\ astray \cap {"refocused", "stale"} = {} =>
    caret = [place |-> origin, text |-> <<>>]
===============================================================================
