-------------------------------- MODULE ViMode --------------------------------
(***************************************************************************)
(* The vi modes and the keyboard: the statechart vi_fsm, the parser that   *)
(* vi::command runs over what was typed, insertions, and the repeat        *)
(* command, as one editor sees them; and auto_complete, which listens to   *)
(* the keys of an insertion and adds to it.                                *)
(*                                                                         *)
(* Each key is added to what was typed before and was not a command yet,   *)
(* and the whole of it is tried as a command.  The repeat command runs     *)
(* vi::command from within vi::command, so calls nest on the C++ stack.    *)
(***************************************************************************)
EXTENDS Naturals, Sequences, SequencesExt

CONSTANTS
  Users,      \* who types: the keys, those that are typed as text, whether
              \* text may also be selected with the mouse, whether an insertion
              \* is edited with backspace, arrows and completions, and, as
              \* bounds, the keys typed, other than escapes, in one session,
              \* and the text of one insertion
  MaxPrefix,  \* bound: keys kept as the command that started an insertion
  MaxLost,    \* bound: undo groups never closed
  MaxDepth    \* the number of nested calls the C++ stack has room for

\* i enters insert mode, c, d and y take a motion, w is a motion, v and K
\* select (a block), x and ~ edit, 2 is a count, t is no command.
Key == {"i", "c", "d", "y", "w", "v", "K", "x", "~", ".", "2", "t", "esc"}

Keys == Seq(Key)

Many == 2  \* every count larger than one

ASSUME KeysAssumption ==
  /\ Users \subseteq [keys : SUBSET Key, texts : SUBSET (Key \ {"esc"}),
                     selects : BOOLEAN, edits : BOOLEAN,
                     session : Nat, text : Nat]
  /\ MaxDepth \in Nat \ {0}

VARIABLES
  user,      \* one of Users
  vi,        \* the members of class vi that the parser reads and writes
  buffer,    \* m_command: the keys typed that are no command yet
  readonly,  \* the document is readonly
  ac,        \* auto_complete: the length of m_insert, the word it has heard,
             \* and whether a list of completions is shown
  calls,     \* the calls in progress, outermost first
  alive,     \* the program has not run out of stack
  \* history
  session,   \* the keys typed since command mode with an empty buffer, as
             \* long as they are, or can become, an insertion or a repeat
  typed,     \* the number of them, other than escapes
  fresh,     \* no insert command was left over when the session began
  escapes    \* the escapes typed in a row that vi has seen, at most 3

vars == <<user, vi, buffer, readonly, ac, calls, alive,
          session, typed, fresh, escapes>>

Mode == {"COMMAND", "INSERT", "INSERT_BLOCK", "VISUAL", "VISUAL_BLOCK"}

Vi == [mode  : Mode,     \* vi_fsm::m_state; visual line behaves as visual
       undo  : Nat,      \* undo groups that are open in the document
       dot   : BOOLEAN,  \* m_dot: a repeat is in progress
       count : 1..Many,  \* m_count
       icmd  : Keys,     \* m_insert_command
       text  : Keys,     \* m_insert_text
       reg   : Keys,     \* the register of inserted text
       last  : Keys,     \* m_last_command
       rec   : Keys,     \* history: handed to macros::record this session
       shown : Keys,     \* history, where insertions are edited: what
                         \* this one has put into the text
       astray : {"no", "rest", "list", "word", "moved", "outside",
                 "readonly"},
                         \* history: why m_insert_text first differed from it
       lost  : Nat]      \* history: undo groups never closed

\* A call of vi::command, or of the repeat command; for vi::command, full is
\* its argument (of the outermost one that is the buffer itself, by reference)
\* and rest what it still has to parse; a repeat has been round n times.
Call == [op : {"command", "repeat"}, full : Keys, rest : Keys, n : Nat]

TypeOK ==
  /\ user \in Users
  /\ vi \in Vi
  /\ buffer \in Keys
  /\ readonly \in BOOLEAN
  /\ ac \in [word : Nat, list : BOOLEAN]
  /\ calls \in Seq(Call)
  /\ alive \in BOOLEAN
  /\ session \in Keys
  /\ typed \in Nat
  /\ fresh \in BOOLEAN
  /\ escapes \in 0..3

Init ==
  /\ user \in Users
  /\ vi = [mode |-> "COMMAND", undo |-> 0, dot |-> FALSE, count |-> 1,
           icmd |-> <<>>, text |-> <<>>, reg |-> <<>>, last |-> <<>>,
           rec |-> <<>>, shown |-> <<>>, astray |-> "no", lost |-> 0]
  /\ buffer = <<>>
  /\ readonly = FALSE
  /\ ac = [word |-> 0, list |-> FALSE]
  /\ calls = <<>>
  /\ alive = TRUE
  /\ session = <<>>
  /\ typed = 0
  /\ fresh = TRUE
  /\ escapes = 0

Insert(m) == m \in {"INSERT", "INSERT_BLOCK"}

Visual(m) == m \in {"VISUAL", "VISUAL_BLOCK"}

-----------------------------------------------------------------------------
(* What was typed: a count and the rest.                                   *)

Digits(r) ==
  CHOOSE n \in 0..Len(r) : /\ \A i \in 1..n : r[i] = "2"
                           /\ n < Len(r) => r[n + 1] # "2"

Count(r) == SubSeq(r, 1, Digits(r))

Uncounted(r) == SubSeq(r, Digits(r) + 1, Len(r))

\* filter_count: a count multiplies, and becomes part of the insert command.
Filtered(v, r) ==
  IF Count(r) = <<>> THEN v
  ELSE [v EXCEPT !.count = Many, !.icmd = @ \o Count(r)]

Repeatable(r) ==
  /\ Uncounted(r) # <<>>
  /\ Head(Uncounted(r)) \in {"i", "c", "d", "y", "x", "~"}

\* set_last_command
Lasting(v, r) == IF Repeatable(r) THEN [v EXCEPT !.last = r] ELSE v

-----------------------------------------------------------------------------
(* vi_mode::transition.                                                    *)

Ends(r) == r # <<>> /\ Last(r) = "esc"

\* The two callbacks of vi: into insert mode, and back to command mode.
Opened(v) ==
  LET w == IF v.dot THEN v
           ELSE [v EXCEPT !.text = <<>>, !.shown = <<>>, !.astray = "no"]
  IN  [w EXCEPT !.undo = @ + 1]

ClosedEarly(v) ==
  [v EXCEPT !.mode = "COMMAND", !.undo = IF v.reg = <<>> THEN @ ELSE @ - 1]
ClosedWithoutEscape(v) ==
  LET c == v.icmd \o v.reg
  IN  [Lasting(v, c) EXCEPT !.mode = "COMMAND", !.icmd = <<>>, !.undo = @ - 1]
Closed(v) ==
  LET c == v.icmd \o v.reg \o <<"esc">>
      w == IF v.dot THEN v ELSE [Lasting(v, c) EXCEPT !.rec = @ \o c]
  IN  [w EXCEPT !.mode = "COMMAND", !.icmd = <<>>, !.undo = @ - 1]

\* Escape from a block insert leads back to the block, without the callback.
Escaped(v) ==
  CASE v.mode = "INSERT"       -> Closed(v)
    [] v.mode = "INSERT_BLOCK" -> [v EXCEPT !.mode = "VISUAL_BLOCK",
                                            !.lost = @ + 1]
    [] OTHER                   -> [v EXCEPT !.mode = "COMMAND"]

\* The callback clears m_command too.
EscapedBuffer(v) == IF v.mode = "INSERT" THEN <<>> ELSE buffer

\* An insert key is ignored in a readonly document, and in visual mode.
Entered(v, k) ==
  CASE v.mode = "COMMAND" /\ ~readonly ->
         [Opened(v) EXCEPT !.mode = "INSERT", !.icmd = Append(@, k)]
    [] v.mode = "VISUAL_BLOCK" -> [Opened(v) EXCEPT !.mode = "INSERT_BLOCK"]
    [] OTHER -> v

Transitions == {"i", "v", "K", "esc"}

Transited(v, k) ==
  CASE k = "i"   -> Entered(v, k)
    [] k = "v"   -> [v EXCEPT !.mode = "VISUAL"]
    [] k = "K"   -> [v EXCEPT !.mode = "VISUAL_BLOCK"]
    [] k = "esc" -> Escaped(v)

-----------------------------------------------------------------------------
(* Calls and returns.                                                      *)

Ready == calls = <<>> /\ alive

Top == calls[Len(calls)]

Below == SubSeq(calls, 1, Len(calls) - 1)

\* The argument of the call on top.
Full == IF Len(calls) = 1 THEN buffer ELSE Top.full

Rest(r) == Append(Below, [Top EXCEPT !.rest = r])

Command(r) == [op |-> "command", full |-> r, rest |-> r, n |-> 0]

\* vi::command has returned v and ok; when it was typed, the buffer is cleared
\* after a success, and after an escape to another mode the insert command is.
Return(v, b, ok) ==
  /\ calls' = Below
  /\ buffer' = IF Below = <<>> /\ ok THEN <<>> ELSE b
  /\ vi' = IF Below = <<>> /\ ok /\ Ends(b) /\ ~Insert(v.mode)
           THEN [v EXCEPT !.icmd = <<>>] ELSE v

Go(v, r) == vi' = v /\ calls' = Rest(r) /\ UNCHANGED buffer

history == <<session, typed, fresh, escapes>>

quiet == <<readonly, ac, alive, history>>

-----------------------------------------------------------------------------
(* vi::insert_mode.                                                        *)

\* append_insert_text: the register follows m_insert_text.
Appended(v, r) ==
  IF v.dot THEN v
  ELSE [v EXCEPT !.text = @ \o r, !.reg = v.text \o r]

\* The history of the insertion, until it goes astray.
Shown(v, t) ==
  IF user.edits /\ ~v.dot /\ v.astray = "no" THEN t ELSE v.shown

Astray(v, cause) == IF user.edits /\ v.astray = "no" THEN cause ELSE v.astray

Inserted(v, r) ==
  IF Ends(r)
  THEN Escaped([v EXCEPT
         !.reg = IF v.text # <<>> THEN v.text ELSE @,
         !.shown = Shown(v, @ \o Front(r)),
         !.astray = IF Len(r) > 1 /\ ~v.dot THEN Astray(v, "rest") ELSE @])
  ELSE [Appended(v, r) EXCEPT !.shown = Shown(v, @ \o r)]

InsertedBuffer(v, r) == IF Ends(r) THEN EscapedBuffer(v) ELSE buffer

-----------------------------------------------------------------------------
(* vi::command and vi::parse_command, a command at a time.                 *)

Running == alive /\ calls # <<>> /\ Top.op = "command" /\ Top.rest # <<>>

Entry == Top.rest = Full

CancelsLate == /\ ~vi.dot /\ Len(Full) > 3
               /\ Full[Len(Full)] = "esc" /\ Full[Len(Full) - 1] = "esc"
Cancels == /\ ~vi.dot /\ Len(Full) > 2
           /\ Full[Len(Full)] = "esc" /\ Full[Len(Full) - 1] = "esc"

\* In insert mode the command, or the rest of it, is text.
CommandInserts ==
  /\ Running /\ Insert(vi.mode)
  /\ LET v == Inserted(vi, Top.rest)
         b == InsertedBuffer(vi, Top.rest)
     IN  IF Entry
         THEN Return(v, b, TRUE)
         ELSE vi' = v /\ buffer' = b /\ calls' = Rest(<<>>)
  /\ UNCHANGED quiet

\* Two escapes give up whatever was typed.
CommandCancels ==
  /\ Running /\ Entry /\ ~Insert(vi.mode) /\ Cancels
  /\ LET v == Escaped(vi)
     IN  Return(IF Below = <<>> THEN [v EXCEPT !.icmd = <<>>] ELSE v, <<>>, TRUE)
  /\ UNCHANGED quiet

Parsing == Running /\ ~Insert(vi.mode) /\ ~(Entry /\ Cancels)

Counted == Filtered([vi EXCEPT !.count = 1], Top.rest)
Typing == Uncounted(Top.rest)
K1 == Head(Typing)
Single == Len(Typing) = 1

Cleared == [Counted EXCEPT !.icmd = <<>>]

\* A count and nothing else is no command yet.
OnlyCount ==
  /\ Parsing /\ Typing = <<>>
  /\ Return(Counted, buffer, FALSE)
  /\ UNCHANGED quiet

\* c, d or y in visual mode works on the selection, and fails without one.
OperatorOnSelection ==
  /\ Parsing /\ Typing # <<>> /\ Single
  /\ K1 \in {"c", "d", "y"} /\ Visual(vi.mode)
  /\ LET v == IF K1 = "c" THEN Entered(Escaped(Counted), "i") ELSE Escaped(Counted)
     IN  Go(v, <<>>) \/ Return(v, buffer, FALSE)
  /\ UNCHANGED quiet

\* A key that changes the mode.
ChangeMode ==
  /\ Parsing /\ Typing # <<>> /\ K1 \in Transitions
  /\ LET v == Transited(Counted, K1)
     IN  Go(v, Tail(Typing))
  /\ UNCHANGED quiet

\* A motion succeeds, or finds nothing, and then clears m_command.
Motion ==
  /\ Parsing /\ Typing # <<>> /\ K1 = "w"
  /\ \/ Go([Cleared EXCEPT !.count = 1], Tail(Typing))
     \/ Return(Cleared, <<>>, FALSE)
  /\ UNCHANGED quiet

\* No command, or a command that needs more keys.
NoCommand ==
  /\ Parsing /\ Typing # <<>>
  /\ \/ K1 = "t"
     \/ Single /\ K1 \in {"c", "d", "y"} /\ ~Visual(vi.mode)
  /\ Return(Cleared, buffer, FALSE)
  /\ UNCHANGED quiet

-----------------------------------------------------------------------------
(* Operators that take a motion: c, d and y followed by more.              *)

Operator == /\ Parsing /\ Typing # <<>> /\ ~Single
            /\ K1 \in {"c", "d", "y"}

\* dd and yy, with whatever follows, are commands.
Doubled(r) == Len(r) > 1 /\ r[1] = r[2] /\ r[1] \in {"d", "y"}

\* Before the motion: c has entered insert mode.
Operand == Tail(Typing)
Before == IF K1 = "c" THEN Entered(Counted, "c") ELSE Counted

\* The motion can have a count of its own.
Moving == Filtered(Before, Operand)
Moved(v) ==
  [v EXCEPT !.icmd = IF @ = <<>> THEN @ ELSE Append(@, "w"), !.count = 1]
IsMotion == Uncounted(Operand) # <<>> /\ Head(Uncounted(Operand)) = "w"

Double ==
  /\ Operator /\ Doubled(Typing)
  /\ Go(Counted, <<>>)
  /\ UNCHANGED quiet

\* With a selection the operator works on that, and the motion remains to be
\* parsed, or inserted; but d fails in a readonly document.
OperatorKeepsMotion ==
  /\ Operator /\ ~Doubled(Typing) /\ Len(Operand) = 1
  /\ user.selects \/ Visual(vi.mode)
  /\ IF readonly /\ K1 = "d"
     THEN Head(Operand) \notin {"x", "~", "."} /\ Return(Before, buffer, FALSE)
     ELSE Go(Before, Operand)
  /\ UNCHANGED quiet

\* c with a motion: if that fails, insert mode is left at once.
Change ==
  /\ Operator /\ K1 = "c" /\ IsMotion
  /\ \/ Go(Moved(Moving), Tail(Uncounted(Operand)))
     \/ Return(Escaped(Moving), <<>>, FALSE)
  /\ UNCHANGED quiet

\* d with a motion does nothing in a readonly document.
Delete ==
  /\ Operator /\ K1 = "d" /\ IsMotion
  /\ IF readonly
     THEN Go(Moving, <<>>)
     ELSE \/ Go(Moved(Moving), Tail(Uncounted(Operand)))
          \/ Return(Moving, <<>>, FALSE)
  /\ UNCHANGED quiet

\* y with a motion selects to yank: if the motion fails, visual mode remains.
Yank ==
  /\ Operator /\ K1 = "y" /\ IsMotion
  /\ LET v == IF Visual(vi.mode) THEN Moving ELSE Transited(Moving, "v")
     IN  \/ Go(Moved(Escaped(v)), Tail(Uncounted(Operand)))
         \/ Return(v, <<>>, FALSE)
  /\ UNCHANGED quiet

-----------------------------------------------------------------------------
(* Other commands: x, ~ and the repeat command, on their own or after an   *)
(* operator that was no match for them.                                    *)

\* Where other_command runs: the key, the state it runs in, what is parsed
\* after it, and, for when it fails, how often it is tried and what remains.
Other ==
  IF K1 \in {"x", "~", "."}
  THEN [key |-> K1, v |-> IF Single THEN Cleared ELSE Counted, rest |-> <<>>,
        tries |-> IF Single THEN 1 ELSE 2, failed |-> Cleared]
  ELSE [key |-> Head(Uncounted(Operand)), v |-> Moving,
        rest |-> IF Doubled(Uncounted(Operand)) THEN <<>>
                 ELSE Tail(Uncounted(Operand)),
        tries |-> 1, failed |-> Moving]

IsOther ==
  /\ Parsing /\ Typing # <<>>
  /\ \/ K1 \in {"x", "~", "."}
     \/ /\ Operator /\ ~Doubled(Typing) /\ Uncounted(Operand) # <<>>
        /\ \/ Head(Uncounted(Operand)) \in {"x", "~", "."}
           \/ Doubled(Uncounted(Operand))

\* An operator without a motion or a command after it.
NoOperand ==
  /\ Operator /\ ~Doubled(Typing) /\ ~IsMotion /\ ~IsOther
  /\ Return(Moving, buffer, FALSE)
  /\ UNCHANGED quiet

\* x, dd or yy.
Edit ==
  /\ IsOther /\ Other.key \in {"x", "d", "y"}
  /\ Go(Other.v, Other.rest)
  /\ UNCHANGED quiet

\* ~ changes case within an undo group, which it leaves open when it reaches
\* the end of the document.
Tilde ==
  /\ IsOther /\ Other.key = "~"
  /\ \/ ~readonly /\ Go(Other.v, Other.rest)
     \/ LET left == IF readonly THEN 0 ELSE Other.tries
        IN  Return([Other.failed EXCEPT !.undo = @ + left, !.lost = @ + left],
                   buffer, FALSE)
  /\ UNCHANGED quiet

\* The repeat command: m_dot is set, and an undo group opened.
StartRepeat ==
  /\ IsOther /\ Other.key = "."
  /\ IF vi.last = <<>> THEN Go(Other.v, Other.rest) /\ UNCHANGED alive
     ELSE IF Len(calls) < MaxDepth
     THEN /\ vi' = [Other.v EXCEPT !.dot = TRUE, !.undo = @ + 1]
          /\ calls' = Append(Rest(Other.rest),
                             [op |-> "repeat", full |-> <<>>, rest |-> <<>>, n |-> 0])
          /\ UNCHANGED <<buffer, alive>>
     ELSE alive' = FALSE /\ UNCHANGED <<vi, buffer, calls>>
  /\ UNCHANGED <<readonly, ac, history>>

Repeating == alive /\ calls # <<>> /\ Top.op = "repeat"

\* Once more the last command, as long as m_count, which it changes, says so.
RepeatForever ==
  /\ Repeating /\ Top.n < vi.count
  /\ calls' = Append(calls, Command(vi.last))
  /\ UNCHANGED <<vi, buffer, quiet>>
Repeat ==
  /\ Repeating /\ Top.n < vi.count
  /\ calls' = Append(Append(Below, [Top EXCEPT !.n = @ + 1]), Command(vi.last))
  /\ UNCHANGED <<vi, buffer, quiet>>

EndRepeat ==
  /\ Repeating /\ Top.n >= vi.count
  /\ vi' = [vi EXCEPT !.dot = FALSE, !.undo = @ - 1]
  /\ calls' = Below
  /\ UNCHANGED <<buffer, quiet>>

\* parse_command has succeeded: the command, which a callback may have cleared
\* meanwhile, becomes the last one, and is recorded unless it is an insertion.
Parsed ==
  /\ alive /\ calls # <<>> /\ Top.op = "command" /\ Top.rest = <<>>
  /\ LET v == IF vi.dot THEN vi ELSE Lasting(vi, Full)
     IN  Return(IF Insert(v.mode) THEN v ELSE [v EXCEPT !.rec = @ \o Full],
                buffer, TRUE)
  /\ UNCHANGED quiet

-----------------------------------------------------------------------------
(* The keyboard.                                                           *)

Bounded(k) ==
  k # "esc" => /\ typed < user.session
               /\ Len(vi.icmd) < MaxPrefix
               /\ vi.lost < MaxLost

\* A finished insertion: i and text, or c with its motion and text, and an
\* escape; and, with a count in front, what can become one.
Insertion(s) ==
  /\ Ends(s)
  /\ \/ Len(s) > 2 /\ s[1] = "i"
     \/ Len(s) > 3 /\ s[1] = "c" /\ s[2] = "w"

Tracked(s) ==
  LET r == Uncounted(s)
  IN  \/ r = <<>> \/ r = <<".">>
      \/ r[1] = "i"
      \/ r[1] = "c" /\ (Len(r) > 1 => r[2] = "w")

NewSession == vi.mode = "COMMAND" /\ buffer = <<>>

Noticed(k) ==
  /\ LET s == IF NewSession THEN <<k>> ELSE Append(session, k)
     IN  session' = IF Tracked(s) THEN s ELSE <<"esc">>
  /\ typed' = (IF NewSession THEN 0 ELSE typed) + (IF k = "esc" THEN 0 ELSE 1)
  /\ fresh' = IF NewSession THEN vi.icmd = <<>> ELSE fresh
  /\ escapes' = IF k = "esc" THEN (IF escapes = 3 THEN 3 ELSE escapes + 1) ELSE 0

\* auto_complete::on_char, before k is inserted: the word goes on if there is
\* a part of a word in front of the caret.  The . is no part of one; it leaves
\* the word as it is, unless members of that are to be shown.
Heard(k) ==
  LET known == vi.shown # <<>> /\ vi.astray = "no"
      goeson == IF known THEN {Last(vi.shown) # "."} ELSE BOOLEAN
      words == IF k = "." THEN {0, ac.word}
               ELSE {IF on THEN ac.word + 1 ELSE 1 : on \in goeson}
  IN  IF user.edits
      THEN ac' \in [word : words, list : BOOLEAN] /\ ac'.word <= user.text
      ELSE UNCHANGED ac

\* on_char in insert mode: the text is inserted, after what was left in the
\* buffer.  With a rectangular selection it is left to the document.
TypeText(k) ==
  /\ Ready /\ Insert(vi.mode) /\ Bounded(k)
  /\ Len(vi.text) < user.text
  /\ \/ vi' = Inserted(vi, Append(buffer, k)) /\ buffer' = <<>> /\ Heard(k)
     \/ vi.mode = "INSERT_BLOCK" /\ UNCHANGED <<vi, buffer, ac>>
  /\ Noticed(k)
  /\ UNCHANGED <<readonly, calls, alive>>

\* An insertion that is edited is not what was typed.
Unnoticed ==
  /\ session' = <<"esc">>
  /\ UNCHANGED <<typed, fresh>>

Shorter(t) == IF t = <<>> THEN t ELSE Front(t)

\* Backspace, in whatever mode: vi takes the key for its own, unless there is
\* a list, and the document deletes a character; auto_complete may show a list
\* for what remains of its word.
Backspace ==
  /\ Ready /\ user.edits
  /\ vi' = [vi EXCEPT
              !.text = IF ac.list THEN @ ELSE Shorter(@),
              !.shown = IF Insert(vi.mode) THEN Shown(vi, Shorter(@)) ELSE @,
              !.astray = IF ~Insert(vi.mode) THEN Astray(vi, "outside")
                         ELSE IF ac.list THEN Astray(vi, "list") ELSE @]
  /\ \E again \in {FALSE, ac.word > 1} :
       ac' = [word |-> IF ac.word = 0 THEN 0 ELSE ac.word - 1, list |-> again]
  /\ Unnoticed /\ escapes' = 0
  /\ UNCHANGED <<buffer, readonly, calls, alive>>

\* An arrow moves the caret, which neither vi nor auto_complete hears.
MoveCaret ==
  /\ Ready /\ user.edits /\ vi.mode = "INSERT"
  /\ vi' = [vi EXCEPT !.astray = Astray(vi, "moved")]
  /\ ac' = [ac EXCEPT !.list = FALSE]
  /\ Unnoticed /\ escapes' = 0
  /\ UNCHANGED <<buffer, readonly, calls, alive>>

\* The characters of the last word of the insertion.
LastWord(t) == Len(t) - Max({0} \cup {i \in DOMAIN t : t[i] = "."})

\* auto_complete::complete: rest is what the completion has more than the word
\* that was heard, for which the document puts it.
CompletedWhole(rest) ==
  LET heard == [i \in 1..ac.word |-> "t"]
  IN  [Appended(vi, heard \o rest) EXCEPT !.shown = Shown(vi, @ \o rest)]
Completed(rest) ==
  [Appended(vi, rest) EXCEPT
     !.shown = Shown(vi, @ \o rest),
     !.astray = IF ac.word > LastWord(vi.shown) THEN Astray(vi, "word") ELSE @]

\* A completion is chosen from the list.
Complete ==
  /\ Ready /\ ac.list /\ Len(vi.text) < user.text
  /\ \E rest \in {<<>>, <<"t">>} : vi' = Completed(rest)
  /\ ac' = [word |-> 0, list |-> FALSE]
  /\ Unnoticed /\ escapes' = 0
  /\ UNCHANGED <<buffer, readonly, calls, alive>>

\* An escape closes the list, and vi does not see it.
CloseList ==
  /\ Ready /\ ac.list
  /\ ac' = [ac EXCEPT !.list = FALSE]
  /\ Unnoticed
  /\ UNCHANGED <<vi, buffer, readonly, calls, alive, escapes>>

\* on_char and on_key_down otherwise: try what is in the buffer as a command.
TypeKey(k) ==
  /\ Ready /\ (Insert(vi.mode) => k = "esc") /\ Bounded(k)
  /\ k = "esc" => ~ac.list
  /\ buffer' = Append(buffer, k)
  /\ calls' = <<Command(buffer')>>
  /\ vi' = IF NewSession THEN [vi EXCEPT !.rec = <<>>] ELSE vi
  /\ Noticed(k)
  /\ UNCHANGED <<readonly, ac, alive>>

\* The document is made readonly, or writable, between two keys.
ToggleReadonly ==
  /\ Ready
  /\ readonly' = ~readonly
  /\ vi' = [vi EXCEPT !.astray = IF Insert(vi.mode) THEN Astray(vi, "readonly")
                                  ELSE @]
  /\ UNCHANGED <<buffer, ac, calls, alive, history>>

\* Out of stack: the program is gone.
Crashed == ~alive /\ UNCHANGED vars

Execute ==
  /\ alive /\ calls # <<>>
  /\ \/ CommandInserts \/ CommandCancels
     \/ OnlyCount \/ OperatorOnSelection \/ ChangeMode \/ Motion \/ NoCommand
     \/ Double \/ OperatorKeepsMotion \/ Change \/ Delete \/ Yank \/ NoOperand
     \/ Edit \/ Tilde \/ StartRepeat \/ Repeat \/ EndRepeat \/ Parsed

Next ==
  /\ \/ Execute
     \/ \E k \in user.texts : TypeText(k)
     \/ \E k \in user.keys : TypeKey(k)
     \/ ToggleReadonly
     \/ Backspace \/ MoveCaret \/ Complete \/ CloseList
     \/ Crashed
  /\ UNCHANGED user

\* The program executes what was typed; nobody needs to type.
Spec == Init /\ [][Next]_vars /\ WF_vars(Execute /\ UNCHANGED user)

-----------------------------------------------------------------------------
(* Properties.                                                             *)

Repeats == {i \in DOMAIN calls : calls[i].op = "repeat"}

\* Undo groups: whatever the nesting of insertions and repeats, each group that
\* was opened is still in use or is closed, but for those that an escape from a
\* block insert and a ~ that met the end of the document leave open for good.
UndoBalanced ==
  alive => vi.undo = vi.lost + Cardinality(Repeats) + (IF Insert(vi.mode) THEN 1 ELSE 0)

\* Wherever the parser got stuck, two escapes in a row, besides one that only
\* closes a list, leave nothing in the buffer that a next key would be added to,
\* and lead to command mode, or to the block when the first one has entered an
\* insertion in it (after an operator, which takes any key for its motion); a
\* third leads to command mode from there.
EscapesLead ==
  Ready => /\ escapes > 1 => buffer = <<>> /\ vi.mode \in {"COMMAND", "VISUAL_BLOCK"}
           /\ escapes > 2 => vi.mode = "COMMAND"

Finished == Ready /\ NewSession /\ session # <<>>

\* After an insertion, typed key by key, the last command is what was typed,
\* and so is what was recorded, no more and no less, unless something was left
\* over of a command before.
RepeatsInsertion ==
  Finished /\ fresh /\ Insertion(session) => vi.last = session /\ vi.rec = session

\* What vi keeps of an insertion, and then has in the register to repeat it, is
\* what the insertion has put into the text, whatever mix of keys, backspaces
\* and completions that was.  Known causes: text after the command that entered
\* insert mode (rest), a backspace while a list is shown (list), a completion of
\* a word that auto_complete has heard elsewhere (word), a caret that was moved
\* (moved), a backspace outside insert mode (outside), a document that was made
\* readonly meanwhile (readonly), and an insertion of which nothing is left.
InsertedIsKept ==
  Ready /\ user.edits /\ vi.astray = "no" =>
    /\ vi.mode = "INSERT" => vi.text = vi.shown
    /\ NewSession /\ vi.shown # <<>> => vi.reg = vi.shown

\* A command that was typed ends, however often it makes the repeat command
\* read m_count again, or the stack is exhausted.
CommandEnds == (calls # <<>>) ~> (Ready \/ ~alive)
=============================================================================
