-------------------------------- MODULE Shell ---------------------------------
(***************************************************************************)
(* The shell of stc/shell.cpp: an editor component whose text ends with    *)
(* the command that is typed, of which m_command has a copy.  The keys     *)
(* change both, the component the text and the shell its copy; output of   *)
(* a process is appended at any moment, and the command starts behind it.  *)
(*                                                                         *)
(* A key is one step: of KEY_DOWN, of CHAR if that comes, and of what the  *)
(* component does then.  Paste, undo, redo and delete may also be commands *)
(* of a menu or an accelerator, which KEY_DOWN does not see.  There is no  *)
(* selection.  Where the component joins the steps of its undo history is  *)
(* left open.                                                              *)
(***************************************************************************)
EXTENDS Integers, SequencesExt

CONSTANTS
  Char,       \* the characters that are typed; "h" is the command history
  Files,      \* the names to expand to
  Clips,      \* what the clipboard may have
  Histories,  \* the commands of the last time, from the config
  Setups,     \* how it is used: the command end, whether vi mode is on,
              \* whether the parent answers a command, whether there is a process
  MaxKeys,    \* bound: the keys that change the text
  MaxOutput   \* bound: the lines of output

ASSUME ShellAssumption ==
  /\ Files \cup Clips \subseteq Seq(Char)
  /\ \A h \in Histories : h \in Seq(Seq(Char))
  /\ Setups \subseteq [end : {"eol"} \cup Char, vi : BOOLEAN, parent : BOOLEAN,
                       process : BOOLEAN]
  /\ MaxKeys \in Nat /\ MaxOutput \in Nat

VARIABLES
  setup,     \* one of Setups
  text,      \* the text, of characters, newlines, output and prompts
  caret,     \* the current position
  start,     \* m_command_start_pos
  past,      \* the texts of the undo history
  future,    \* the texts that redo shows again
  command,   \* m_command
  commands,  \* m_commands
  browsed,   \* m_commands_iterator
  enabled,   \* m_enabled
  listed,    \* whether the list of names is shown
  running,   \* whether the process runs
  n,         \* the keys and the lines of output
  astray     \* what has happened that leaves text and command apart

vars == <<setup, text, caret, start, past, future, command, commands, browsed,
          enabled, listed, running, n, astray>>

buffer == <<text, caret, start, past, future>>

-----------------------------------------------------------------------------
Input == SubSeq(text, start + 1, Len(text))

\* The iterator behind the last command.
End(cs) == Len(cs) + 1

\* The text t is changed by an edit, which can be undone.
Edited(t, pos) ==
  /\ text' = t
  /\ caret' = pos
  /\ past' = Append(past, text)
  /\ future' = <<>>

\* EmptyUndoBuffer.
Forgotten == past' = <<>> /\ future' = <<>>

InsertedAt(t, pos, s) == SubSeq(t, 1, pos) \o s \o SubSeq(t, pos + 1, Len(t))

\* AppendText: the command starts behind it, and nothing can be undone.
Appended(s) ==
  /\ text' = text \o s
  /\ start' = Len(text')
  /\ Forgotten
  /\ caret' = IF caret >= Len(text) THEN Len(text') ELSE caret

\* prompt, after a text.
Prompted(s) ==
  /\ text' = text \o s \o <<"nl", ">">>
  /\ start' = Len(text') /\ caret' = Len(text')
  /\ Forgotten

\* The causes for which what is in front of the command may change as well:
\* an edit by vi, and one at a caret that is there.
Disturbed == astray \cap {"vi", "front"}

InFront == IF caret < start THEN {"front"} ELSE {}

\* The command is gone from the text and from m_command.
Cleared ==
  /\ command' = <<>>
  /\ astray' = IF start' = Len(text') THEN {} ELSE Disturbed \cup {"unprompted"}

Key == n.keys < MaxKeys /\ n' = [n EXCEPT !.keys = @ + 1]

\* A key comes to the shell, and not to vi.
Ready == enabled /\ ~(setup.vi /\ caret < start)

-----------------------------------------------------------------------------
Init ==
  /\ setup \in Setups
  /\ text = <<">">> /\ caret = 1 /\ start = 1 /\ past = <<>> /\ future = <<>>
  /\ command = <<>>
  /\ commands \in Histories
  /\ browsed = End(commands)
  /\ enabled = TRUE
  /\ listed = FALSE
  /\ running = setup.process
  /\ n = [keys |-> 0, output |-> 0]
  /\ astray = {}

\* process_char_default: a key of the command, at the caret or at the end.
\* Not so: always at the end.
WithAtEnd(key, pos) == Append(command, key)

With(key, pos) ==
  LET index == pos - start
  IN  IF pos < Len(text) /\ index \in 0..(Len(command) - 1)
      THEN InsertedAt(command, index, <<key>>) ELSE Append(command, key)

\* A character that is typed in the output goes to the end, as what is pasted
\* does; one with a modifier, as a capital has, does not.
\* Not so: it stays there.
AtCaret == caret

AtInput == IF caret < start THEN Len(text) ELSE caret

Inside(pos) == pos < Len(text) /\ astray # {}

Type(c, shift) ==
  LET pos == IF shift THEN caret ELSE AtInput
  IN
  /\ Ready /\ Key
  /\ Edited(InsertedAt(text, pos, <<c>>), pos + 1)
  /\ command' = With(c, pos)
  /\ browsed' = End(commands)
  /\ astray' = astray \cup (IF Inside(pos) THEN {"edited"} ELSE {})
                      \cup (IF shift THEN InFront ELSE {})
  /\ UNCHANGED <<setup, start, commands, enabled, listed, running>>

\* Backspace and delete; both are ignored at the start of the command.
Erase(back) ==
  LET at    == IF back THEN caret ELSE caret + 1
      index == at - start
  IN  /\ Ready /\ Key /\ caret > start
      /\ IF at <= Len(text) THEN Edited(RemoveAt(text, at), at - 1)
         ELSE UNCHANGED <<text, caret, past, future>>
      /\ command' = IF index \in DOMAIN command THEN RemoveAt(command, index)
                    ELSE command
      /\ astray' = IF astray # {} THEN astray \cup {"edited"} ELSE astray
      /\ UNCHANGED <<setup, start, commands, browsed, enabled, listed, running>>

\* The delete command, where an accelerator comes before KEY_DOWN: the
\* component erases behind the caret, wherever that is, and m_command stays.
Delete ==
  /\ enabled /\ Key /\ caret < Len(text)
  /\ Edited(RemoveAt(text, caret + 1), caret)
  /\ astray' = astray \cup {"deleted"} \cup InFront
  /\ UNCHANGED <<setup, start, command, commands, browsed, enabled, listed, running>>

\* Paste, for which m_command is longer at its end.
Paste(s) ==
  /\ Key
  /\ Edited(InsertedAt(text, AtInput, s), AtInput + Len(s))
  /\ command' = command \o s
  /\ browsed' \in {browsed, End(commands)}
  /\ astray' = IF AtInput < Len(text) THEN astray \cup {"inside"} ELSE astray
  /\ UNCHANGED <<setup, start, commands, enabled, listed, running>>

-----------------------------------------------------------------------------
(* Return.                                                                 *)

IsEnd(c) == setup.end = "eol" \/ (c # <<>> /\ Last(c) = setup.end)

EndText == IF setup.end = "eol" THEN <<>> ELSE <<setup.end>>

\* keep_command: trimmed if a command can have lines.
Trimmed(c) ==
  LET solid == {i \in DOMAIN c : c[i] # "cr"}
  IN  IF setup.end = "eol" \/ solid = {} THEN c
      ELSE SubSeq(c, Min(solid), Max(solid))

Kept(c) ==
  /\ commands' = Append(commands, Trimmed(c))
  /\ browsed' = End(commands')

\* send_command, with what was appended before: to the process, or to the
\* parent, which prompts if it answers.
Sent(s) ==
  IF running THEN Appended(s \o <<"nl">>)
  ELSE IF setup.parent THEN Prompted(s \o <<"nl", "o">>)
  ELSE IF s # <<>> THEN Appended(s)
  ELSE Forgotten /\ UNCHANGED <<text, caret, start>>

Entered ==
  Ready /\ Key /\ ~listed /\ UNCHANGED <<setup, enabled, listed, running>>

SendEmpty ==
  /\ Entered /\ command = <<>>
  /\ IF running \/ setup.parent THEN Sent(<<>>) /\ astray' = {}
     ELSE UNCHANGED <<buffer, astray>>
  /\ UNCHANGED <<command, commands>>
  /\ browsed' = End(commands)

IsHistory == command = <<"h">> \o EndText

Send ==
  /\ Entered /\ command # <<>> /\ IsEnd(command)
  /\ ~IsHistory /\ Head(command) # "!"
  /\ Kept(command)
  /\ Sent(<<>>)
  /\ Cleared

\* So many lines of output.
Lines(k) == [i \in 1..(2 * k) |-> IF i % 2 = 1 THEN "nl" ELSE "o"]

\* show_history, a line for each command, with the command history itself.
ShowHistory ==
  /\ Entered /\ IsHistory
  /\ Kept(command)
  /\ Prompted(Lines(Len(commands')))
  /\ Cleared

\* set_command_from_history: by a number, or the last that starts with what
\* follows the mark.
Asked ==
  LET short == SubSeq(command, 2, Len(command))
      from  == SubSeq(short, 1, Len(short) - Len(EndText))
      those == IF short # <<>> /\ Head(short) = "1" THEN {1} \cap DOMAIN commands
               ELSE {i \in DOMAIN commands : IsPrefix(from, commands[i])}
  IN  IF those = {} THEN <<>> ELSE commands[Max(those)]

SendFromHistory ==
  /\ Entered /\ command # <<>> /\ IsEnd(command) /\ Head(command) = "!"
  /\ IF Asked # <<>> THEN Kept(Asked) /\ Sent(<<"nl">> \o Asked)
     ELSE /\ Prompted(<<"nl", "o">>)
          /\ browsed' = End(commands)
          /\ UNCHANGED commands
  /\ Cleared

\* A command that has no end gets another line, but the component has the
\* newline at the caret, which may be in the output.
NewLine ==
  /\ Entered /\ command # <<>> /\ ~IsEnd(command)
  /\ Edited(InsertedAt(text, caret, <<"nl">>), caret + 1)
  /\ command' = With("cr", caret)
  /\ browsed' = End(commands)
  /\ astray' = astray \cup (IF Inside(caret) THEN {"edited"} ELSE {}) \cup InFront
  /\ UNCHANGED <<start, commands>>

-----------------------------------------------------------------------------
(* The history, the names of files, undo.                                  *)

\* The component shows another text of its history, with this command.
Shown ==
  astray' = Disturbed
            \cup (IF command' = <<>> /\ start = Len(text') THEN {} ELSE {"undo"})

\* Undo: to one of the texts before, and without a command.
Undone ==
  /\ command' = <<>>
  /\ IF past = <<>> THEN UNCHANGED <<text, past, future>>
     ELSE \E k \in DOMAIN past :
            /\ text' = past[k]
            /\ past' = SubSeq(past, 1, k - 1)
            /\ future' = SubSeq(past, k + 1, Len(past)) \o <<text>> \o future
  /\ Shown

Undo ==
  /\ Key
  /\ Undone
  /\ caret' \in 0..Len(text')
  /\ UNCHANGED <<setup, start, commands, browsed, enabled, listed, running>>

\* Redo, which leaves m_command as undo has left it.
Redo ==
  /\ Key
  /\ \E k \in DOMAIN future :
       /\ text' = future[k]
       /\ past' = past \o <<text>> \o SubSeq(future, 1, k - 1)
       /\ future' = SubSeq(future, k + 1, Len(future))
  /\ caret' \in 0..Len(text')
  /\ UNCHANGED <<setup, start, command, commands, browsed, enabled, listed, running>>
  /\ Shown

\* show_command, of the up and the down key.
Show(c) ==
  /\ command' = c
  /\ IF start <= Len(text)
     THEN Edited(SubSeq(text, 1, start) \o c, start + Len(c))
          /\ astray' = Disturbed
     ELSE UNCHANGED <<text, caret, past, future, astray>>

ShowCommand(up) ==
  /\ Ready /\ Key /\ ~listed /\ caret = Len(text)
  /\ browsed' = IF up THEN Max({1, browsed - 1}) ELSE Min({End(commands), browsed + 1})
  /\ IF browsed' < End(commands) THEN Show(commands[browsed'])
     ELSE Undone /\ caret' = Len(text')
  /\ UNCHANGED <<setup, start, commands, enabled, listed, running>>

\* expand, of the tab and of return while the names are shown: the rest of a
\* name is appended to both.
Matches == {f \in Files : IsPrefix(command, f)}

Expanded(f) ==
  LET rest == SubSeq(f, Len(command) + 1, Len(f))
  IN  IF rest = <<>> THEN UNCHANGED <<text, caret, past, future, command, astray>>
      ELSE /\ Edited(text \o rest, Len(text) + Len(rest))
           /\ command' = command \o rest
           /\ UNCHANGED astray

Expand ==
  /\ Ready /\ Key
  /\ IF listed THEN listed' = FALSE ELSE listed' = (Cardinality(Matches) > 1)
  /\ IF Matches # {} /\ ~listed' THEN \E f \in Matches : Expanded(f)
     ELSE UNCHANGED <<text, caret, past, future, command, astray>>
  /\ UNCHANGED <<setup, start, commands, browsed, enabled, running>>

\* Escape, or the component by itself.
Unlist ==
  /\ listed
  /\ listed' = FALSE
  /\ UNCHANGED <<setup, buffer, command, commands, browsed, enabled, running, n, astray>>

-----------------------------------------------------------------------------
(* The mouse, vi, the process.                                             *)

Move(pos) ==
  /\ n.keys < MaxKeys
  /\ pos \in 0..Len(text) /\ caret' = pos
  /\ UNCHANGED <<setup, text, start, past, future, command, commands, browsed,
                 enabled, listed, running, n, astray>>

\* KEY_DOWN in the output turns the shell into an editor with vi, and one in
\* the command turns it back, unless there is a process that has ended.
Enabled(on) ==
  /\ enabled = ~on
  /\ IF on THEN caret >= start /\ (running \/ ~setup.process)
     ELSE setup.vi /\ caret < start
  /\ enabled' = on
  /\ UNCHANGED <<setup, buffer, command, commands, browsed, listed, running, n, astray>>

\* vi deletes a character anywhere.
ViErase ==
  /\ ~enabled /\ Key
  /\ caret < Len(text)
  /\ Edited(RemoveAt(text, caret + 1), caret)
  /\ astray' = astray \cup {"vi"}
  /\ UNCHANGED <<setup, start, command, commands, browsed, enabled, listed, running>>

\* ID_SHELL_APPEND, which may come after the process has ended.
Output ==
  /\ setup.process /\ n.output < MaxOutput
  /\ n' = [n EXCEPT !.output = @ + 1]
  /\ Appended(<<"o", "nl">>)
  /\ astray' = IF command = <<>> THEN {} ELSE {"output"}
  /\ UNCHANGED <<setup, command, commands, browsed, enabled, listed, running>>

Exit ==
  /\ running
  /\ running' = FALSE
  /\ UNCHANGED <<setup, buffer, command, commands, browsed, enabled, listed, n, astray>>

\* set_process, for the next process.
SetProcess ==
  /\ setup.process /\ ~running
  /\ running' = TRUE
  /\ enabled' = TRUE
  /\ UNCHANGED <<setup, buffer, command, commands, browsed, listed, n, astray>>

Next ==
  \/ \E c \in Char, shift \in BOOLEAN : Type(c, shift)
  \/ Delete
  \/ \E back \in BOOLEAN : Erase(back)
  \/ \E s \in Clips : Paste(s)
  \/ SendEmpty \/ Send \/ ShowHistory \/ SendFromHistory \/ NewLine
  \/ Undo \/ Redo \/ Expand \/ Unlist
  \/ \E up \in BOOLEAN : ShowCommand(up)
  \/ \E pos \in 0..Len(text) : Move(pos)
  \/ \E on \in BOOLEAN : Enabled(on)
  \/ ViErase \/ Output \/ Exit \/ SetProcess

Spec == Init /\ [][Next]_vars

-----------------------------------------------------------------------------
(* Properties.                                                             *)

Symbol == Char \cup {"nl", "cr", "o", ">"}

TypeOK ==
  /\ setup \in Setups
  /\ text \in Seq(Symbol) /\ caret \in 0..Len(text) /\ start \in Nat
  /\ past \in Seq(Seq(Symbol)) /\ future \in Seq(Seq(Symbol))
  /\ command \in Seq(Symbol) /\ commands \in Seq(Seq(Symbol))
  /\ browsed \in Nat \ {0}
  /\ enabled \in BOOLEAN /\ listed \in BOOLEAN /\ running \in BOOLEAN
  /\ n \in [keys : Nat, output : Nat]
  /\ astray \subseteq {"deleted", "edited", "front", "inside", "output", "undo",
                       "unprompted", "vi"}

\* A return that is typed is a newline in the text.
Plain(s) == [i \in DOMAIN s |-> IF s[i] = "cr" THEN "nl" ELSE s[i]]

(* What return sends is what is shown behind the prompt, whatever keys,    *)
(* history and names it was made with; with output that came meanwhile, it *)
(* is what is shown and what was typed before that.  What leaves the two   *)
(* apart is said by astray.                                                *)
CommandIsShown ==
  /\ astray = {} => Plain(Input) = Plain(command)
  /\ astray = {"output"} => IsSuffix(Plain(Input), Plain(command))

(* The shell leaves the text in front of the command as it is, wherever    *)
(* the caret is when a key or a paste comes: KEY_DOWN, AppendText,         *)
(* show_command, and the undo and redo of these.  Only vi changes it, and  *)
(* a return, a character with a modifier or the delete command with the    *)
(* caret there; then undo and redo may too, until something is appended.   *)
OutputKept ==
  [][enabled /\ Disturbed = {} /\ "front" \notin astray'
       => IsPrefix(SubSeq(text, 1, start), text')]_text
===============================================================================
