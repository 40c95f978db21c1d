------------------------------- MODULE MacroMode -------------------------------
(***************************************************************************)
(* Recording and playing back vi macros: the statechart macro_fsm, the     *)
(* q and @ commands of macro_mode::transition, and the collection macros   *)
(* that both share with the registers.                                     *)
(*                                                                         *)
(* A playback runs the commands of a macro through vi::command, and a      *)
(* command may itself be a playback, so playbacks nest on the C++ stack;   *)
(* the variable stack holds one frame per playback in progress.            *)
(***************************************************************************)
EXTENDS Naturals, Sequences

CONSTANTS
  Name,       \* macro and register names
  Appends,    \* names q appends to: upper case letters and digits
  Long,       \* names of more than one character (never a register)
  Fold,       \* tolower: the name the recording of a name ends up in
  Variables,  \* names of builtin, template, ... variables
  Typed,      \* the commands a user types
  Texts,      \* the texts a register can be given
  NoName,     \* the empty name
  Absent,     \* a name that has no entry in the collection
  MaxRepeat,  \* bound: the largest count in front of a command
  MaxDepth    \* the number of nested playbacks the C++ stack has room for

\* A command: its kind, the name it is about, and its count.
Cmd == [op  : {"edit", "yank", "q", "play", "again"},
        arg : Name \cup {NoName},
        cnt : 1..MaxRepeat]

Frame == [name : Name, cmds : Seq(Cmd), pc : Nat \ {0}, left : Nat \ {0},
          text : Cmd \cup {Absent}]

ASSUME NamesAssumption ==
  /\ NoName \notin Name
  /\ Absent \notin Seq(Cmd) \cup Cmd
  /\ Appends \subseteq Name
  /\ Long \subseteq Name
  /\ Variables \subseteq Long
  /\ Fold \in [Name -> Name]
  /\ \A n \in Name : n \notin Appends => Fold[n] = n

ASSUME CommandsAssumption ==
  /\ MaxRepeat \in Nat \ {0}
  /\ MaxDepth \in Nat
  /\ Typed \subseteq Cmd
  /\ Texts \subseteq Cmd

VARIABLES
  state,     \* macro_fsm::m_state
  macro,     \* macro_fsm::m_macro
  playback,  \* macro_fsm::m_playback
  macros,    \* macros::m_macros, Absent for a name that has no entry
  unsaved,   \* names whose node in the xml document differs from macros
  stack,     \* the playbacks in progress, outermost first
  alive,     \* the program has not run out of stack
  \* history: what the user did since the recording started
  base,      \* the contents the recording started with
  typed,     \* the commands the user completed at the keyboard since then
  clean,     \* no nested playback and no register write disturbed it
  nested,    \* a nested playback has finished, its outer one has not
  stray      \* names whose recording was stopped under another name

program == <<state, macro, playback, macros, unsaved, stack, alive>>
history == <<base, typed, clean, nested, stray>>
vars == <<state, macro, playback, macros, unsaved, stack, alive,
          base, typed, clean, nested, stray>>

Contents(e) == IF e = Absent THEN <<>> ELSE e

TypeOK ==
  /\ state \in {"IDLE", "RECORDING"}
  /\ macro \in Name \cup {NoName}
  /\ playback \in BOOLEAN
  /\ macros \in [Name -> Seq(Cmd) \cup {Absent}]
  /\ unsaved \subseteq Name
  /\ stack \in Seq(Frame)
  /\ alive \in BOOLEAN
  /\ base \in Seq(Cmd)
  /\ typed \in Seq(Cmd)
  /\ clean \in BOOLEAN
  /\ nested \in BOOLEAN
  /\ stray \subseteq Name

Init ==
  /\ state = "IDLE"
  /\ macro = NoName
  /\ playback = FALSE
  /\ macros = [n \in Name |-> Absent]
  /\ unsaved = {}
  /\ stack = <<>>
  /\ alive = TRUE
  /\ base = <<>>
  /\ typed = <<>>
  /\ clean = TRUE
  /\ nested = FALSE
  /\ stray = {}

-----------------------------------------------------------------------------
(* What the frame on top of the stack executes, and how it goes on.        *)

AtKeyboard == stack = <<>>

Top == stack[Len(stack)]

Below == SubSeq(stack, 1, Len(stack) - 1)

\* A playback is done when it has run every repeat.
Done == Top.pc > Len(Top.cmds) /\ Top.left = 1

\* The command Top is about to execute, if it has one left.
Upcoming == IF Top.pc <= Len(Top.cmds) THEN {Top.cmds[Top.pc]} ELSE {}

Advanced == Append(Below, [Top EXCEPT !.pc = @ + 1])

\* A failing command ends the playback, whatever commands and repeats are left.
FailedUnreset == Below
Failed == Append(Below, [Top EXCEPT !.pc = Len(Top.cmds) + 1, !.left = 1])

\* A command comes from the user or from the playback on top of the stack.
Issued == IF AtKeyboard THEN Typed ELSE Upcoming

Continue == stack' = IF AtKeyboard THEN stack ELSE Advanced

-----------------------------------------------------------------------------
(* macros::record: append a command to the macro that is being recorded.   *)

Recording == state = "RECORDING" /\ macro # NoName

\* Commands that a playback executes are not recorded.
RecordsPlayback(pb) == Recording
Records(pb) == Recording /\ ~pb

Recorded(ms, pb, c) ==
  IF Records(pb)
  THEN [ms EXCEPT ![macro] = Append(Contents(@), c)]
  ELSE ms

\* macros::save_macro: the document has the macro as it is in memory.
NotSaved(m) == unsaved
Saved(m) == unsaved \ {m}

RecordedUnsaved(us, pb) == IF Records(pb) THEN us \cup {macro} ELSE us

TypedNow(c) ==
  typed' = IF AtKeyboard /\ state = "RECORDING" /\ clean
           THEN Append(typed, c) ELSE typed

-----------------------------------------------------------------------------
(* Commands.                                                               *)

\* A vi or ex command that neither touches macros nor registers, and succeeds.
Edit(c) ==
  /\ alive /\ c.op = "edit"
  /\ macros' = Recorded(macros, playback, c)
  /\ unsaved' = RecordedUnsaved(unsaved, playback)
  /\ Continue
  /\ TypedNow(c)
  /\ UNCHANGED <<state, macro, playback, alive, base, clean, nested, stray>>

\* The command fails: the playback it belongs to stops, and the command that
\* started that playback counts as done all the same.
EditFails(c) ==
  /\ alive /\ c.op = "edit" /\ ~AtKeyboard
  /\ stack' = Failed
  /\ UNCHANGED <<state, macro, playback, macros, unsaved, alive, history>>

\* A command that writes text t to register c.arg: macros::set_register, which
\* replaces the entry, or adds to it when the name is upper case, and saves it.
Yank(c, t) ==
  /\ alive /\ c.op = "yank" /\ c.arg \notin Long
  /\ LET reg  == Fold[c.arg]
         kept == [macros EXCEPT ![reg] = <<t>>]
     IN  /\ macros' = Recorded(kept, playback, c)
         /\ unsaved' = RecordedUnsaved(Saved(reg), playback)
         /\ clean' = (clean /\ ~(state = "RECORDING" /\ macro = reg))
         /\ stray' = stray \ {reg}
  /\ Continue
  /\ TypedNow(c)
  /\ UNCHANGED <<state, macro, playback, alive, base, nested>>

\* q<name> while idle: macro_fsm::record and the entry into RECORDING.
StartRecording(c) ==
  /\ alive /\ c.op = "q" /\ c.arg # NoName /\ state = "IDLE"
  /\ state' = "RECORDING"
  /\ macro' = Fold[c.arg]
  /\ macros' = IF c.arg \in Appends THEN macros ELSE [macros EXCEPT ![c.arg] = <<>>]
  /\ unsaved' = IF c.arg \in Appends THEN unsaved ELSE unsaved \cup {c.arg}
  /\ Continue
  /\ base' = Contents(macros'[macro'])
  /\ typed' = <<>>
  /\ clean' = ~nested
  /\ UNCHANGED <<playback, alive, nested, stray>>

\* q while idle is refused, which stops a playback it belongs to.
NothingToRecord(c) ==
  /\ alive /\ c.op = "q" /\ c.arg = NoName /\ state = "IDLE" /\ ~AtKeyboard
  /\ stack' = Failed
  /\ UNCHANGED <<state, macro, playback, macros, unsaved, alive, history>>

\* The current macro when the recording stops: the name given, if any.
Stopped(c) == IF c.arg = NoName THEN macro ELSE c.arg

\* macros::find on it returns something.
Found(m) ==
  /\ m # NoName
  /\ \/ Contents(macros[m]) # <<>>
     \/ macros[m] = Absent /\ m \in Variables

\* q or q<name> while recording: macro_fsm::recorded saves the current macro,
\* or erases it when it holds nothing.
StopRecording(c) ==
  /\ alive /\ c.op = "q" /\ state = "RECORDING"
  /\ LET m == Stopped(c)
     IN  /\ IF Found(m)
            THEN /\ macros' = [macros EXCEPT ![m] = Contents(@)]
                 /\ unsaved' = Saved(m)
                 /\ macro' = m
            ELSE /\ macros' = IF m = NoName THEN macros
                              ELSE [macros EXCEPT ![m] = Absent]
                 /\ UNCHANGED unsaved
                 /\ macro' = NoName
         /\ stray' = (IF Found(m) THEN stray \ {m} ELSE stray)
                       \cup (IF m # macro /\ macro # NoName THEN {macro} ELSE {})
  /\ state' = "IDLE"
  /\ Continue
  /\ base' = <<>>
  /\ typed' = <<>>
  /\ clean' = TRUE
  /\ UNCHANGED <<playback, alive, nested>>

-----------------------------------------------------------------------------
(* Playback.                                                               *)

\* The macro a command plays back: @@ is the current one.
Target(c) == IF c.op = "again" THEN macro ELSE c.arg

Playable(c) ==
  LET n == Target(c)
  IN  /\ n # NoName
      /\ macros[n] # Absent
      /\ c.op = "again" \/ n \in Long \/ macros[n] # <<>>

\* The check at the start of macro_fsm::playback.
Refused(n) == (playback \/ state = "RECORDING") /\ n = macro

\* A playback starts, with m_playback set, and while idle it becomes the
\* current macro.
PushUnflagged(n, c, text, below) ==
  /\ Len(stack) < MaxDepth
  /\ stack' = Append(below, [name |-> n, cmds |-> macros[n], pc |-> 1,
                             left |-> c.cnt, text |-> text])
  /\ macro' = IF state = "IDLE" THEN n ELSE macro
  /\ UNCHANGED <<alive, playback>>
Push(n, c, text, below) ==
  IF Len(stack) < MaxDepth
  THEN /\ stack' = Append(below, [name |-> n, cmds |-> macros[n], pc |-> 1,
                                  left |-> c.cnt, text |-> text])
       /\ playback' = TRUE
       /\ macro' = IF state = "IDLE" THEN n ELSE macro
       /\ UNCHANGED alive
  ELSE alive' = FALSE /\ UNCHANGED <<stack, playback, macro>>

\* @<name> or @@ that starts a playback.
Play(c) ==
  /\ alive /\ c.op \in {"play", "again"}
  /\ Playable(c) /\ ~Refused(Target(c))
  /\ Push(Target(c), c, c, IF AtKeyboard THEN stack ELSE Advanced)
  /\ UNCHANGED <<state, macros, unsaved, history>>

\* A macro chosen from the dialog of the status bar: it is not a command.
PlayFromDialog(n) ==
  /\ alive /\ AtKeyboard /\ n \in Long /\ macros[n] # Absent /\ ~Refused(n)
  /\ Push(n, [op |-> "play", arg |-> n, cnt |-> 1], Absent, stack)
  /\ UNCHANGED <<state, macros, unsaved, history>>

\* @<name> or @@ that plays nothing, or is refused: a command all the same.
PlayNothing(c) ==
  /\ alive /\ c.op \in {"play", "again"}
  /\ Playable(c) => Refused(Target(c))
  /\ macros' = Recorded(macros, playback, c)
  /\ unsaved' = RecordedUnsaved(unsaved, playback)
  /\ Continue
  /\ TypedNow(c)
  /\ UNCHANGED <<state, macro, playback, alive, base, clean, nested, stray>>

\* The next repeat of the playback on top.
PlayAgain ==
  /\ alive /\ stack # <<>> /\ Top.pc > Len(Top.cmds) /\ Top.left > 1
  /\ stack' = Append(Below, [Top EXCEPT !.pc = 1, !.left = @ - 1])
  /\ UNCHANGED <<state, macro, playback, macros, unsaved, alive, history>>

\* The playback on top ends: m_playback is reset, also when it is an inner
\* one, and then vi::command records the command that started it.
PlayedBack ==
  /\ alive /\ stack # <<>> /\ Done
  /\ stack' = Below
  /\ playback' = FALSE
  /\ nested' = (Below # <<>>)
  /\ clean' = (clean /\ (Below # <<>> => state # "RECORDING"))
  /\ IF Top.text = Absent
     THEN UNCHANGED <<macros, unsaved, typed>>
     ELSE /\ macros' = Recorded(macros, FALSE, Top.text)
          /\ unsaved' = RecordedUnsaved(unsaved, FALSE)
          /\ typed' = IF Below = <<>> /\ state = "RECORDING" /\ clean
                      THEN Append(typed, Top.text) ELSE typed
  /\ UNCHANGED <<state, macro, alive, base, stray>>

\* Out of stack: the program is gone.
Crashed == ~alive /\ UNCHANGED vars

Next ==
  \/ \E c \in Issued : \/ Edit(c)
                       \/ EditFails(c)
                       \/ \E t \in Texts : Yank(c, t)
                       \/ StartRecording(c)
                       \/ NothingToRecord(c)
                       \/ StopRecording(c)
                       \/ Play(c)
                       \/ PlayNothing(c)
  \/ \E n \in Long : PlayFromDialog(n)
  \/ PlayAgain
  \/ PlayedBack
  \/ Crashed

Spec == Init /\ [][Next]_vars

-----------------------------------------------------------------------------
(* Properties.                                                             *)

\* What is recorded is what the user typed: as long as no nested playback and
\* no write to the register of the same name came in between, the macro holds
\* its old contents followed by the commands completed at the keyboard, in
\* order, and not the commands that a playback executed for one of them.
RecordedIsTyped ==
  Recording /\ clean => Contents(macros[macro]) = base \o typed

\* The flag that suppresses recording never outlives the playback it is for:
\* with nothing being played back recording is possible again.
FlagEnds == playback => stack # <<>>

\* With the flag reset early by a nested playback the outer one goes on
\* unprotected; that is the only way to play back without the flag.
FlagHolds == stack # <<>> /\ ~nested => playback

\* Every macro and register is in the document as it is in memory, unless it
\* is being recorded right now, its recording was stopped under another name,
\* or it was erased because nothing was recorded.
Documented ==
  \A n \in unsaved : \/ state = "RECORDING" /\ macro = n
                     \/ n \in stray
                     \/ macros[n] = Absent
=============================================================================
