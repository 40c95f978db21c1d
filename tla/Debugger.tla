------------------------------- MODULE Debugger -------------------------------
(***************************************************************************)
(* The breakpoints of stc/debug.cpp: a table of those of the debugger, by  *)
(* their numbers, and markers in the open files.  Commands are written to  *)
(* the debugger, a process; what it answers comes back as events, and so   *)
(* does the text of each command, from the thread that wrote it.  Either   *)
(* may come first.                                                         *)
(*                                                                         *)
(* The debugger is external: it numbers its breakpoints, may put them on   *)
(* another line, and refuses what it does not know.  What each debugger    *)
(* has as commands is said by data/wex-menus.xml.                          *)
(***************************************************************************)
EXTENDS Integers, SequencesExt

CONSTANTS
  File,         \* the source files
  Line,         \* their lines, from 1
  Code,         \* the line the debugger takes for a line: one with code
  Kind,         \* the debuggers: "gdb", "lldb"
  MaxCommands,  \* bound: what the user does, and a debugger that exits
  MaxNumber     \* bound: the number of a breakpoint

ASSUME DebuggerAssumption ==
  /\ Line \subseteq Nat \ {0}
  /\ Code \in [Line -> Line]
  /\ \A l \in Line : Code[Code[l]] = Code[l]
  /\ Kind \subseteq {"gdb", "lldb"}
  /\ MaxCommands \in Nat /\ MaxNumber \in Nat

VARIABLES
  kind,     \* the debugger that is used
  table,    \* m_breakpoints: the entry of a number
  open,     \* whether a file is open
  markers,  \* the markers in the open files
  handles,  \* the number of handles a file gave since it was opened
  path,     \* m_path: whether it is the executable or a source
  alive,    \* whether the debugger runs
  has,      \* the breakpoints of the debugger, by number
  last,     \* its last number
  sent,     \* what is written to it, and not yet read
  answers,  \* ID_DEBUG_STDOUT: what it answered, and is not yet handled
  echoes,   \* ID_DEBUG_STDIN: what was written, and is not yet handled
  n,        \* the commands
  astray    \* what has happened that leaves the three apart

vars == <<kind, table, open, markers, handles, path, alive, has, last, sent,
          answers, echoes, n, astray>>

editor == <<table, open, markers, handles, path>>
debugger == <<has, last, answers>>

-----------------------------------------------------------------------------
Empty == <<>>

Without(f, i) == [j \in DOMAIN f \ {i} |-> f[j]]

With(f, i, e) == [j \in DOMAIN f \cup {i} |-> IF j = i THEN e ELSE f[j]]

\* The entries at a line; the code takes the first it meets.
At(f, l) == {i \in DOMAIN table : table[i].file = f /\ table[i].line = l}

\* MarkerDeleteHandle, of an entry.
Unmarked(i) ==
  {m \in markers : m.file # table[i].file \/ m.handle # table[i].handle}

\* The commands that a debugger knows; others are refused.
Set(f, l) == [op |-> "set", file |-> f, line |-> l]
Delete(i) == [op |-> "delete", number |-> i]
Other(op) == [op |-> op]

\* break_del, which gdb has none of.
BreakDel(i) == IF kind = "gdb" THEN Other("refused") ELSE Delete(i)

\* write, to a debugger that runs.
Write(cs) ==
  IF alive THEN sent' = sent \o cs ELSE UNCHANGED sent

Command == n < MaxCommands /\ n' = n + 1

-----------------------------------------------------------------------------
Init ==
  /\ kind \in Kind
  /\ table = Empty
  /\ open = [f \in File |-> TRUE]
  /\ markers = {}
  /\ handles = [f \in File |-> 0]
  /\ path = "source"
  /\ alive = FALSE
  /\ has = Empty /\ last = 0
  /\ sent = <<>> /\ answers = <<>> /\ echoes = <<>>
  /\ n = 0
  /\ astray = {}

\* What a removal leaves apart: a line that has two, and the numbers of a
\* debugger that was restarted.
Apart(f, l) ==
  (IF Cardinality(At(f, l)) > 1 THEN {"twice"} ELSE {})
    \cup (IF astray \cap {"restarted", "late"} # {} THEN {"stale"} ELSE {})

\* toggle_breakpoint, of a line that has one.  The number is read after the
\* entry was erased, so that it may be any text then.
Unset(f, l) ==
  /\ At(f, l) # {}
  /\ LET i == Min(At(f, l))
     IN  /\ markers' = Unmarked(i)
         /\ table' = Without(table, i)
         /\ \/ Write(<<BreakDel(i)>>)
               /\ astray' = astray \cup Apart(f, l)
                    \cup (IF kind = "gdb" THEN {"refused"} ELSE {})
            \/ Write(<<Other("refused")>>) /\ astray' = astray \cup {"freed"}
  /\ UNCHANGED path

\* toggle_breakpoint, of another line.
SetAt(f, l) ==
  /\ At(f, l) = {}
  /\ path' = "source"
  /\ Write(<<Set(f, l)>>)
  /\ UNCHANGED <<table, markers, astray>>

\* A click in the margin, while the debugger runs.
Toggle(f, l) ==
  /\ alive /\ open[f] /\ Command
  /\ Unset(f, l) \/ SetAt(f, l)
  /\ UNCHANGED <<kind, open, handles, alive, has, last, answers, echoes>>

\* execute starts a debugger that does not run; the table stays.
Started ==
  /\ alive' = TRUE
  /\ IF alive THEN UNCHANGED <<debugger, echoes>>
     ELSE has' = Empty /\ last' = 0 /\ UNCHANGED <<answers, echoes>>

Executed(cs) ==
  /\ Started
  /\ sent' = sent \o cs

\* The file that is debugged: its name is m_path before the debugger says so.
FileCommand ==
  /\ Command
  /\ Executed(<<Other("file")>>)
  /\ path' = "exe"
  /\ astray' = IF alive THEN astray
               ELSE (astray \ {"refused"})
                 \cup (IF answers # <<>> THEN {"late"} ELSE {})
                 \cup (IF table # Empty THEN {"restarted"} ELSE {})
  /\ UNCHANGED <<kind, table, open, markers, handles>>

\* del breakpoint, from the menu: it has a number if there is one on the line,
\* and without one the debugger deletes them all.  That of lldb is taken for
\* a command that sets one, and refused.
DeleteCommand(f, l) ==
  /\ Command /\ alive /\ open[f]
  /\ IF kind = "lldb"
     THEN /\ sent' = Append(sent, Other("refused"))
          /\ path' = "source"
          /\ UNCHANGED <<table, markers, astray>>
     ELSE IF At(f, l) = {}
     THEN /\ sent' = Append(sent, Other("clear"))
          /\ astray' = IF table = Empty /\ sent = <<>> /\ answers = <<>>
                       THEN astray ELSE astray \cup {"cleared"}
          /\ UNCHANGED <<table, markers, path>>
     ELSE LET i == Min(At(f, l))
          IN  /\ sent' = Append(sent, Delete(i))
              /\ markers' = Unmarked(i)
              /\ table' = Without(table, i)
              /\ path' = "source"
              /\ astray' = astray \cup Apart(f, l)
  /\ UNCHANGED <<kind, open, handles, alive, debugger, echoes>>

\* A delete that is typed in the shell.
TypedDelete(i) ==
  /\ Command /\ alive
  /\ sent' = Append(sent, [op |-> "typed", number |-> i])
  /\ astray' = astray \cup {"typed"}
  /\ UNCHANGED <<kind, editor, alive, debugger, echoes>>

-----------------------------------------------------------------------------
(* The debugger, external; its answers, and the text of what was written.  *)

Read ==
  /\ alive /\ sent # <<>>
  /\ LET c == Head(sent)
     IN  /\ CASE c.op = "set" /\ last < MaxNumber ->
                   LET e == [file |-> c.file, line |-> Code[c.line]]
                   IN  /\ last' = last + 1
                       /\ has' = With(has, last', e)
                       /\ answers' = Append(answers,
                            [op |-> "set", number |-> last', at |-> e])
              [] c.op \in {"delete", "typed"} ->
                   has' = Without(has, c.number) /\ UNCHANGED <<last, answers>>
              [] c.op = "clear" ->
                   has' = Empty /\ UNCHANGED <<last, answers>>
              [] c.op = "file" ->
                   answers' = Append(answers, c) /\ UNCHANGED <<has, last>>
              [] OTHER -> UNCHANGED debugger
         /\ c.op = "set" => last < MaxNumber
         /\ echoes' = IF c.op = "typed" THEN Append(echoes, c) ELSE echoes
  /\ sent' = Tail(sent)
  /\ UNCHANGED <<kind, editor, alive, n, astray>>

\* The debugger ends; what is not read is lost.
Exit ==
  /\ alive /\ Command
  /\ alive' = FALSE
  /\ sent' = <<>>
  /\ astray' = IF \E k \in DOMAIN sent : sent[k].op # "set" THEN astray \cup {"refused"}
               ELSE astray
  /\ UNCHANGED <<kind, editor, debugger, echoes>>

\* process_stdout, of a breakpoint: the file is opened and gets a marker.
\* Not so: the line that was asked for, which is the one before.
EntryBefore(a) ==
  [file |-> a.at.file, line |-> a.at.line - 1, handle |-> handles[a.at.file] + 1]

Entry(a) ==
  [file |-> a.at.file, line |-> a.at.line, handle |-> handles[a.at.file] + 1]

HandleSet ==
  /\ answers # <<>> /\ Head(answers).op = "set"
  /\ LET a == Head(answers)
         e == Entry(a)
     IN  /\ table' = With(table, a.number, e)
         /\ markers' = markers \cup {e}
         /\ handles' = [handles EXCEPT ![e.file] = @ + 1]
         /\ open' = [open EXCEPT ![e.file] = TRUE]
  /\ answers' = Tail(answers)
  /\ UNCHANGED <<kind, path, alive, has, last, sent, echoes, n, astray>>

\* Not so: the loop ends after the first.
AgainFirst ==
  IF table = Empty THEN <<>>
  ELSE LET i == Min(DOMAIN table)
       IN  <<Set(table[i].file, table[i].line)>>

\* process_stdout, of the executable: if it is the same as before, all the
\* breakpoints are set again.
Again ==
  SetToSeq({Set(table[i].file, table[i].line) : i \in DOMAIN table})

HandlePath ==
  /\ answers # <<>> /\ Head(answers).op = "file"
  /\ IF path = "exe" THEN Write(Again) ELSE UNCHANGED sent
  /\ path' = "exe"
  /\ answers' = Tail(answers)
  /\ astray' = IF path = "exe" /\ alive THEN astray
               ELSE IF "restarted" \in astray THEN astray \cup {"forgotten"}
               ELSE astray
  /\ UNCHANGED <<kind, table, open, markers, handles, alive, has, last, echoes, n>>

\* process_stdin, of a delete that was typed: the marker goes, the entry stays.
HandleEcho ==
  /\ echoes # <<>>
  /\ LET i == Head(echoes).number
     IN  markers' = IF i \in DOMAIN table /\ open[table[i].file] THEN Unmarked(i)
                    ELSE markers
  /\ echoes' = Tail(echoes)
  /\ UNCHANGED <<kind, table, open, handles, path, alive, debugger, sent, n, astray>>

\* A line is added in front of the text: the markers move with it.
EditFile(f) ==
  /\ open[f] /\ Command
  /\ markers' = {IF m.file = f THEN [m EXCEPT !.line = @ + 1] ELSE m : m \in markers}
  /\ astray' = astray \cup {"edited"}
  /\ UNCHANGED <<kind, table, open, handles, path, alive, debugger, sent, echoes>>

\* The markers of a file that is closed are gone; apply_breakpoints, which
\* would show them again, is not called.
CloseFile(f) ==
  /\ open[f] /\ Command
  /\ open' = [open EXCEPT ![f] = FALSE]
  /\ markers' = {m \in markers : m.file # f}
  /\ handles' = [handles EXCEPT ![f] = 0]
  /\ astray' = astray \cup {"closed"}
  /\ UNCHANGED <<kind, table, path, alive, debugger, sent, echoes>>

Next ==
  \/ \E f \in File, l \in Line : Toggle(f, l) \/ DeleteCommand(f, l)
  \/ \E i \in 1..MaxNumber : TypedDelete(i)
  \/ FileCommand \/ Read \/ Exit
  \/ HandleSet \/ HandlePath \/ HandleEcho
  \/ \E f \in File : EditFile(f) \/ CloseFile(f)

Spec == Init /\ [][Next]_vars

-----------------------------------------------------------------------------
(* Properties, of the moments at which nothing is under way.               *)

Numbers == 1..MaxNumber

\* A breakpoint is on a line with code; a marker has a handle as well.
Place == [file : File, line : {Code[l] : l \in Line}]

Marked == [file : File, line : {Code[l] : l \in Line}, handle : Nat]

\* What is written to the debugger, and what it answers.
Sendable ==
  [op : {"set"}, file : File, line : Line]
    \cup [op : {"delete", "typed"}, number : Numbers]
    \cup [op : {"refused", "file", "clear"}]

Answer == [op : {"set"}, number : Numbers, at : Place] \cup [op : {"file"}]

Cause == {"twice", "stale", "refused", "freed", "late", "restarted", "cleared",
          "typed", "forgotten", "edited", "closed"}

(* The variables keep their types: a breakpoint is asked for on any line,  *)
(* but is set, answered and kept in the table on a line with code.         *)
TypeOK ==
  /\ kind \in Kind
  /\ table \in [DOMAIN table -> Marked] /\ DOMAIN table \subseteq Numbers
  /\ open \in [File -> BOOLEAN] /\ handles \in [File -> Nat]
  /\ markers \subseteq [file : File, line : Nat, handle : Nat]
  /\ path \in {"source", "exe"} /\ alive \in BOOLEAN
  /\ has \in [DOMAIN has -> Place] /\ DOMAIN has \subseteq Numbers
  /\ last \in 0..MaxNumber
  /\ sent \in Seq(Sendable) /\ answers \in Seq(Answer)
  /\ echoes \in Seq([op : {"typed"}, number : Numbers])
  /\ n \in 0..MaxCommands
  /\ astray \subseteq Cause

Quiet == sent = <<>> /\ answers = <<>> /\ echoes = <<>>

Places(f) == {[file |-> f[i].file, line |-> f[i].line] : i \in DOMAIN f}

(* The table has the breakpoints of the debugger with their numbers, and   *)
(* each has its marker, in whatever order commands, answers and clicks     *)
(* followed each other; closing or editing a file only matters for the     *)
(* markers.                                                                *)
InStep ==
  Quiet /\ alive /\ astray \subseteq {"edited", "closed"} =>
    /\ DOMAIN table = DOMAIN has /\ Places(table) = Places(has)
    /\ \A i \in DOMAIN has : table[i].line = has[i].line
    /\ astray = {} => markers = {table[i] : i \in DOMAIN table}

(* A debugger that is started again, for the same executable, gets the     *)
(* breakpoints of the table, although they have other numbers then.        *)
SetAgain ==
  Quiet /\ alive /\ astray \ {"edited", "closed"} = {"restarted"}
    => Places(table) = Places(has)
===============================================================================
