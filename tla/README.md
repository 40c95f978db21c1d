# A TLA+ verification project for wxExtension

wxExtension is a C++ library on top of wxWidgets: a text component with a `vi`
and an `ex` mode, macros, an ex mode that edits files without loading them,
processes that run next to the program, a debugger and a shell built on those,
a hex mode, a command line, file traversal in threads, and dialogs and lists
around all that. This project models the parts that have a protocol of their
own: modes and histories, threads, data that is kept twice and must stay in
step. What only draws, or only wraps a component of wxWidgets, is left out.
Paths below are relative to the root of the repository (`src/vi/vi.cpp` is the
file of that name in its `src`).

## 1. Inventory

| Component | State | Operations | Interacts with | Hard behaviour | What makes it correct |
|---|---|---|---|---|---|
| vi macros (`src/vi/macro-fsm, macro-mode, macros`) | recording state, current macro, playback flag, macros and registers, the xml document | record, append, stop, play back, yank to a register, save | `vi::command` records every command and runs the commands of a playback | playbacks nest, fail half way, start recordings; memory and document change at different moments | what is recorded is what was typed; the flag lives as long as the playback; nothing recorded is lost |
| vi (`src/vi/vi, mode`) | mode, `m_command`, `m_count`, `m_insert_command`, `m_insert_text`, `m_last_command`, undo groups | a key, text, a command, repeat | statechart callbacks, the text component, macros | callbacks change what their caller reads, commands recurse through `.`, commands fail half way | undo groups balance, escapes lead out, `.` repeats what was done |
| ex stream (`src/vi/ex-stream, ex-stream-line`) | three files, a stream in one of them, line numbers and counts | find, goto, erase, join, insert, substitute, yank, write | ex commands; the files | each command is a pass over one file into another; the end of the text with or without newline; the stream fails at its end; lines are read backward in pieces | what is shown is what the commands say, a search ends |
| addresses and ranges (`src/vi/address, addressrange`) | the range, marks, register 0, the last substitution, the loop of a global command | delete, yank, write, change, escape, copy, move, join, sort, indent, read, substitute, global | ex, the selection and the target of the text component, the commands a global one runs | a range of lines becomes positions in a text the command changes | each command is a function on lines; global visits each match once and ends |
| file, stat (`src/core/file, stat`, `src/stc/file.cpp`) | path, two stats, modified and readonly, posted events | open, load, save, save as, check_sync, visual | changes on disk, failing reads and writes, the user who types on | stat, load and stat again are three steps; the event that ends a save comes later | no edit is lost, no change on disk is overlooked, unmodified means equal |
| hex mode (`src/stc/hexmode*`) | a buffer and its dump, in the text component | set, append, insert, replace, delete, replace a target, undo, moves | the text component and its undo history | position arithmetic in a dump of two fields | dump and buffer agree |
| shell (`src/stc/shell.cpp`) | text, `m_command`, its start, the history | keys, paste, history, completion, undo, output, prompt | the process behind it, the text component | output arrives while one types | return sends what is shown |
| debugger (`src/stc/debug.cpp`) | table of breakpoints, markers, the path | toggle, commands, answers, restart | a debugger process, the open editors | commands and answers cross | table, markers and debugger agree |
| ex command line (`src/ui/textctrl*`, `src/factory/ex-command.cpp`) | `m_command`, the control, flags, history, a timer | keys, paste, cut, registers, history, return, escape | the control, the editor (find, caret), posted events | the command is kept twice | what is shown is what is given |
| queue thread (`include/wex/queue-thread.h`) | running, the queue, the threads and their events | emplace, start, stop | any thread, an event handler | late and spurious wake ups, stop while busy | each event is processed once and in time, stop returns |
| process (`src/factory/process.cpp`) | `m_is_running`, an io_context, a process group, a queue of texts, pipes | async_system, write, stop | three threads per start, the child, the debugger and the shell | everything is shared without a lock; end, stop and restart overlap | texts arrive, once and in order; the end is noticed |
| interruptible, dir, stream, tool (`src/core, src/common`) | two static flags, static statistics | start, cancel, stop, traverse | a thread per traversal, the escape key | cancel and restart while the old thread runs | one traversal at a time, one end for each |
| ex, text component, vcs, lexers, dialogs, frames, lists, config, odbc | dispatch, user interface and styling | - | wxWidgets | - | - |

`PROJECT.json` lists each of them with its sources and its status, and the
hazards: what can go wrong in this code that a test would hardly reach, each
with the line where it bites and the properties that would catch it.

## 2. Modules

| Module | Models | Checked by | Proved in |
|---|---|---|---|
| `MacroMode` | `macro_fsm`, `macro_mode::transition`, `macros::record`, `set_register`, `save_macro` | `MCMacroMode` | `QueueThread_MacroMode_proofs` |
| `ViMode` | `vi_fsm`, `vi::on_char`, `on_key_down`, `command`, `parse_command`, `insert_mode`, `set_last_command`; the word, list and completions of `auto_complete` | `MCViMode` | `ViMode_proofs` |
| `ExStream` | `ex_stream`, `ex_stream_line` | `MCExStream` | `ExStream_proofs` |
| `TextLines` | lines and positions of the text component (external) | within the two that extend it | - |
| `AddressRange` | `address`, `addressrange`, `global_env`, what `ex` and `data::substitute` keep for them | `MCAddressRange` | - |
| `FileSync` | `file`, `file_stat`, `stc_file`, what the frame does to save, open and sync | `MCFileSync` | `Dir_FileSync_proofs` |
| `HexMode` | `hexmode`, `hexmode_line` | `MCHexMode` | `HexMode_proofs` |
| `Shell` | `shell` | `MCShell` | `Shell_proofs` |
| `Debugger` | the breakpoints of `debug` | `MCDebugger` | `Debugger_proofs` |
| `ExCommand` | `textctrl_imp`, `textctrl_input`, `ex_command` | `MCExCommand` | `ExCommand_proofs` |
| `EventPool` | what `queue_thread` promises (abstract) | as `PoolSpec` of `QueueThread` | - |
| `QueueThread` | `queue_thread` | `MCQueueThread` | `QueueThread_MacroMode_proofs` |
| `Process` | `factory::process`, `process_imp` | `MCProcess` | - |
| `Dir` | `interruptible`, `dir`, what `del::file` does around a traversal | `MCDir` | `Dir_FileSync_proofs` |

The names of actions and variables are those of the source where TLA+ allows
it, and a comment gives the member a variable stands for. The `map` of
`PROJECT.json` gives the lines of each definition. Definitions next to another
one whose name they extend, with a comment that begins "Not so", are mutants: a
version with a plausible bug, which is not used by the specification and which
shows, put in the place of the other one, that the property can fail.

**Known causes.** Much of this code keeps the same thing twice, and there are
sequences of calls after which the two differ. Where that is so, a history
variable (`astray`, or `clean`, `stray`, `nested`, `overlap`) names the cause
at the step that brings it in, and the property says that the two agree unless
one of the named causes has come in. A cause goes away when a step makes the two
anew. So a property that passes says that there is no cause but these; each of
them is a finding, or a limit the code states.

### MacroMode

A command is a record: its kind (an edit, a yank to a register, `q`, `@`, or
`@@`), a name and a count. `stack` has a frame for each playback in progress,
which is what `macro_fsm::playback` has on the C++ stack: the macro, a position
in its commands, and how often it is still to be repeated. A step takes the
next command from the keyboard or, within a playback, from the top frame
(`Issued`); `Edit` and `EditFails` are commands that do nothing to the macros
but are recorded or end the playback; `Yank` is `set_register`; the `q` actions
are the reactions of the statechart; `Play`, `PlayFromDialog`, `PlayAgain` and
`PlayedBack` start, repeat and end a playback; `Crashed` is the end of the C++
stack. `unsaved` has the names whose node of the xml document differs from
memory. Maps, abbreviations and the templates of macro variables are not
modelled.

The known causes: `nested` (a playback within a playback has reset the flag),
`clean` (neither that nor a yank into the recorded register has disturbed the
recording) and `stray` (a recording stopped under another name).

### ViMode

One editor, typed at key by key. `buffer` is `m_command`; each key is appended
and `vi::command` tries the whole. `calls` is the C++ stack of `vi::command`
and of the repeat command, which call each other: the head of `calls` holds the
argument of the call and what it still has to parse. The keys stand for what
they do in the parser: `i` for all commands that enter insert mode without a
motion, `c`, `d`, `y` for the operators, `w` for all motions, which may find
nothing, `x` and `~` for edits, `2` for all counts, `v` and `K` for the visual
modes (visual line behaves as visual) and `t` for a key that starts no
command. The text itself is left out: a motion or an edit succeeds or fails
by choice. `m_last_command` is a static member shared by all editors; the
model has one editor. In a readonly document a `d` with a selection, or in a
visual mode, fails and leaves the keys in the buffer; a `c` there is modelled as in a
document that can be written. The register prefix, ex commands, key maps, control-R
in insert mode, and hex mode are left out; of `macros::record`
only what it is given is kept, as `rec`.

A user who `edits` also presses backspace and arrows and takes completions.
`Backspace`, `MoveCaret`, `Complete` and `CloseList` are the keys that go to
`vi::on_key_down`, to the document and to `auto_complete` (`ac`), each of which
keeps something of the insertion: `vi.text` is `m_insert_text`, `ac.word` the
length of `m_insert`, and `vi.shown` what the text has got. A list of completions
may be shown after any key that the code can show one for; what is proposed is
left out, a completion has one character more than the word or none. Which cause
first made `vi.text` differ from `vi.shown` is kept in `vi.astray`.

### ExStream

A text is a sequence of characters and newlines. `file`, `work` and `temp` are
the three files, `at` the one that is read. `reader` is the stream and what it
is read with: its position, its failure bits, `m_line_no`,
`m_current_line_size` and `m_block_mode`. `NextLine` is `get_next_line` with
what `getline` does to a line that is too long or to a stream that has failed;
`PreviousLine` and `FilterLine` read back; `Goto` and `Find` (`Searched`) are the
loops (`Loop`) over them. A loop that comes no further is `alive = FALSE`: the
program hangs, and no step follows. A pass (`STREAM_LINE_ON_CHAR`) reads
character by character and hands all lines, or pieces of them (`Handled`), to
`ex_stream_line::handle`, of which `Kept`, `In` and the operators of the
substitutions are the cases, and `Passed` and `Ended` what `copy` and the end of
the macro do, given the lines the pass acts on (`acts`), those it cannot write
(`breaks`) and those it does not make what the command says (`wrong`). The history variable `doc` is what the commands say the
text should be; `clean` is false from the first command that meets one of the
cases listed under findings. `LineSize`, `Near` and `Far` are 1000, 100 and
1000 in the code. The markers, the contents of the register a yank fills, what is
put into the editor and failing files are left out.

### TextLines and AddressRange

`TextLines` says how the text component counts: positions from 0, lines between
newlines, the one after the last newline included. It is external, and defined
once for the two modules that do arithmetic with it.

`ed` is the editor as the commands use it: the text, the selection, the target
of a search, the marks and register 0. Each ex command is one action that takes
the two lines its addresses evaluate to (`Target`), among them searches
(`Searched`), checks them as the code does,
and changes `ed` by the calls the code makes: `SetSelection`, `Cut`, `add_text`,
a loop of `SearchInTarget` and `ReplaceTarget`. `subst` is the static
`m_substitute`. A global command is a loop of steps (`Global`, `GlobalMatch`,
`GlobalRest`), and what it runs are the same operators again. The properties say
what each command does to the lines of the text, in terms of sequences of lines,
without positions: `Erases`, `LinesKept`, `Substitutes`, `GlobalErases`; and
`GlobalEnds` that the loop ends. They speak of commands that begin with nothing
selected (`Unselected` is not the state a `:y` or `:w` leaves, see findings).
`Sort` and `Indent` also select and cut, and `Read` puts a text in by an address.
`Order` is the order of the words, `Tab` what indenting sends, `Amp` the `&` of a
replacement. The limits: the blank a join inserts, undo groups, print, the columns
of a sort, the case escapes of a replacement and confirmation are left out.

### FileSync

One editor and the files it may open. `disk` is what the files are, with their
times in seconds; `path_stat` and `stat` are `m_path.m_stat` and `m_stat`; `step`
is the point the main thread has come to within a save, a load or a sync. The
other program writes, removes or protects the file between any two of these
(`WrittenOutside`, `Removed`, `Chmod`). `posted` are the events that end a load
or a save. `Save`, `SaveNow` and `Saved` are the write and the stats after it;
`Open`, `Visual` and `FileLoad` the load; `CheckSync`, `Reload` and `Restat` the
three steps of `check_sync`. `owed` is the history of what the user typed and has
neither saved nor given up. The known causes (`Why`): a change within the second
of the last stat (`same second`) or between two steps (`raced`), a write that
failed, a load that was refused, a readonly file that could not be opened for
the sync, a file that is gone or was never there, a size that is not the file's
(`stale size`), a text put over another one (`overlaid`), an edit before the
event of a load (`undo emptied`), and four about logs that are appended to.

### HexMode

`text` is the dump, `buffer` and `original` are `m_buffer` and
`m_buffer_original`, `undo` the history of the component with where undo groups
begin. `ReplaceAscii` and `ReplaceDigit` are a key over a cell in either field,
with what that does to the other one; `ReplaceByte`, `InsertByte`, `InsertAscii`,
`Erase` and `AppendText` the operations with a value; `ReplaceTarget` the loop of
`replace_target`, with or without a new dump after each byte. `Activate`,
`Deactivate` and `Undo` go in and out of the mode, `Move` and `Arrow` move the
caret. Known causes: a change of the buffer since it was set that undo takes
back (`set`, harmless alone), a character typed behind the last byte (`end`),
one that is not printed (`control`), the first digit of a byte (`digit`), text
appended to a dump that is there (`append`), an undo (`undo`) of anything but the
group that the activation opened. An undo of that group, in a buffer that was not
set since, goes back to the dump of `original`, as `undo` does for the buffer; after
another one, or in a group that an earlier undo left open, it may go elsewhere,
which takes six edits to see and was found when the invariant was to be proved.

### Shell

`text` ends with the command, from `start` (`m_command_start_pos`); `command` is
`m_command`. A key is one step: what `KEY_DOWN` and `CHAR` do to `command` and
what the component then does to `text`. `Output` is `AppendText` from the process
at any moment, `Exit` the end of the process. The history (`ShowCommand`,
`ShowHistory`, `SendFromHistory`), the list of names (`Expand`), paste, undo and
vi mode (`ViErase`) are actions. The setups are the three kinds of shell the code
makes: with a parent that answers, with a process, and with a character that
ends a command. `ShowHistory` puts the lines of a history (`Lines`) behind what is
there. Paste, `Undo`, `Redo` and `Delete` may also come from a menu or an
accelerator, which `KEY_DOWN` does not see; `past` and `future` are the texts of
the undo history, and where the component joins its steps is left open. The caret
may be anywhere: `AtInput` is where a character is put when `KEY_DOWN` sends the
caret to the end first, which it does for those without a modifier (`shift` of
`Type`), and not for a return. Known causes: output while a command is typed
(`output`, after which the command must still end with what is shown), a key inside
what is left then (`edited`), a paste inside the command (`inside`), an answer
without a prompt (`unprompted`), an edit by vi (`vi`), an undo or redo to a text
with a command (`undo`), the delete command, which leaves `m_command` as it is
(`deleted`), and a return, a character with shift or a delete command with the caret
in front of the command (`front`). The text in front of the command may change only
by the last of these, or by vi, and by an undo or a redo after either of them. Left
out: a selection, and the cut that takes it, and the dialog for control characters.

### Debugger

`table` is `m_breakpoints`, `markers` what the open editors show, `has` what the
debugger has. Commands go through `sent`, answers come back through `answers`
and, from the thread that wrote it, each command as an echo; all three are
queues, so that clicks, answers and ends of the debugger may come in any order.
`Read` is the debugger, which answers what `data/wex-menus.xml` and the regular
expressions of `debug.cpp` let it: breakpoints get new numbers, and may be put on another line.
Known causes: a line with two breakpoints (`twice`), numbers of a debugger that
was restarted (`restarted`, `late`, `stale`, `forgotten`), a delete that was
typed (`typed`), a command gdb refuses (`refused`), a number read after it was
freed (`freed`), and, for the markers only, files that were edited or closed.

### ExCommand

`m` is `m_command`, prefix first, with `^R` and a name where a register was
inserted; `tc` the control: its value, the caret and the selection, which is at
either end. A key is one step of `KEY_DOWN`, `CHAR`, the control and the `TEXT`
event that follows (`Edited`), which for a find searches the document (`Finds`).
What a register has comes later (`posted`), and so does the selection of all by
the timer. `Open` is `handle`, `Enter...` and `Escape` what ends a line, `Browse`
the history, `Refocus` a focus event; `done` is the history of what was given and
shown when the last line ended. `position_save` saves the caret, and in visual mode
the start of the selection, which `Open` chooses anywhere: where the caret is, as
after a selection to the left, or elsewhere; `position_restore` prefers it
(`Restored`), so `origin`, the place that Escape is to go back to and a find to
start from, is that start. `Away` is a bar that is hidden, `Stays` one that is not
when no status bar is shown (`del/frame.cpp:810`). The lines of an input mode are
inserted with an end of line (`Inserted`). A position outside the string throws
`std::out_of_range`, which ends the program: no step follows. External, as the
code uses it: `Cut()` leaves the control alone, since the handler of `TEXT_CUT`
prevents it; a backspace gives no `CHAR` after its `KEY_DOWN`. Left out: control
keys that reach `CHAR`, tabs, replace and margins, a line without an editor, and what
an executed command does to the editor and, as `:!` may, to the bar it was given
in: `Move` and `Open` follow it, when the bar is hidden; page
up and down are end and home, for lists shorter than a page. Known causes: keys
before a posted register or the timer (`overtaken`), positions behind a register
(`spliced`), keys over a selection (`overwritten`, `cut`, `erased`), a backspace
in an empty line (`popped`), a line of an input mode ended over a selection
(`entered`), a text with a register that is recalled as it was given (`literal`),
a register "." that is taken for the end of the lines (`named`), a bar that stays
after these (`kept`); for finds a line
recalled from the history (`unsearched`), a register in it (`register`), a focus
that went and came (`refocused`), a selection saved by an earlier line (`stale`).
Two of these were found when the proof asked for them: `named`, and a paste
behind a register that has fewer characters than the two that stand for it in the
command, which is one of `spliced`. One of the two registers of the run is empty,
so that it meets both.

### EventPool and QueueThread

`EventPool` is the promise: events wait in order, are taken, and are finished
once. `QueueThread` has the threads: what a thread does under `m_queue_mutex` is
one step (`Lock`, `Wake`), the test of `m_running` is one, the handler is one.
The wait on the condition variable may end at any time, by a notification, the
timeout or spuriously, so the notifications need no variable. `PoolSpec`
is `EventPool` under the refinement mapping `waiting <- queue` and `working <-`
the events some thread has and no handler has seen. `Kept` are the events the
handler does not take over: the code processes those again, and the abstract
specification says so.

### Process

`running`, `stopped`, `work`, `group`, `queue` and `good` are what the main
thread and the writer threads share, without a lock; each of them is read or
written in a step of its own. `Launch` and `Launched` are the two halves of
`async_system` (the exit handler may run in between), `Write` and `Stop` the
members of that name, `Exit` the end of a child. A writer thread goes round
`Loop`, `RunNothing` or `Reap`, `Handler`, `Finish`, `Look`, `Front`,
`WriteText`, `Pop`. External, modelled as the code uses them: the io_context
stops itself when its work has run out; a group that has lost its processes
cannot be joined, and `terminate` throws; writing to a pipe nobody reads kills
the program or makes the stream bad. What a second writer does to a text that
the first has popped is undefined: the program may write the old text or crash.
The main thread starts a process only when none is running, as
`src/stc/debug.cpp:213` does (`sample/app.cpp:381` does not test it). The two
threads that read the output, the races within `std::queue` itself, and the
destruction of the object under its threads are not modelled.

### Dir

`running` and `cancelled` are the static flags of `interruptible`, `files` the
"Files" of the static statistics. `walks` has the traversals in the order they
started: files added to the project list (`add`), a find tool (`find`), both in
a detached thread, and a traversal in the main thread (`sync`, as
`get_all_files` does). The flags have no lock, so that each test and each
assignment is a step: `FindFiles` is the test and the first flag of `start`,
`Started` the second, and clears the statistics; `Cancel` and `Cancelled` are
`cancel` by the main thread, `ToolCancels` and `ToolCancelled` by a traversal
whose tool fails; `Stop`, `Stopped` and `End` the end of `run`. `Match`, `Skip`
and `ToolFails` are `traverse` for an entry, `Check` its look at the flag. The
number of entries is chosen when a traversal starts, which is also where a limit
of matches or an exception of the file system would end it. `add_items` unbinds
`on_idle` (`AddItems`, `AddNothing`), `Finish` is the handler that binds it
again. The history says which walks were cancelled (`cut`), what each has found
(`own`) and visited after it was cancelled (`late`), and whether one has started
before another one ended (`overlap`). What matches, the folders, and the items
of the list are left out.

## 3. Runs

| Run | Question | Bounds | Distinct states |
|---|---|---|---|
| `macro_mode` | recording and playback | register `a`, its appending name `A`, one long macro; contents up to 2 commands, counts up to 2, nesting 2 | 134,000 |
| `vi` | insertions, selections, repeats, completions | six users with their own keys: `i d w ~ . 2 esc` (2 keys in a session), `c y w K esc` and the mouse (2), `i x K t esc` and the mouse (3), `c w esc` and the mouse (3), `i . esc` and edits (3, insertions of 2), `c w esc` and edits (2, of 1); undo leaks 1, nesting 5 | 300,000 |
| `ex_stream` | the text through passes | texts of two lines with and without newline at the end, 2 passes or writes, any searches, moves and counts, lines of 3 characters, 2 near lines, more than 1 line up is far, lines 1 to 4, 5 pieces | 95,000 |
| `address_range` | ranges, global commands | two texts of 3 lines, words `x y`, 2 commands, 4 addresses, 9 pieces, 10 rounds of a global command, 3 for 50 hits | 74,000 |
| `file_sync` | the editor and the disk | a file and a log, texts of up to 2 chunks, 2 seconds, 2 acts of the user and 2 of the other program, 2 posted events | 388,000 |
| `hex_mode` | the dump | 3 bytes, 2 on a line, up to 4 (5 for a text that is there), 3 edits | 24,000 |
| `shell` | the command line of the shell | 4 keys, 1 line of output, 3 setups, 2 histories, 3 names | 3,360,000 |
| `debugger` | breakpoints | 1 file of 3 lines, 2 debuggers, 5 commands, 4 numbers | 248,000 |
| `ex_command` | the ex command line | 4 characters in the line, 6 keys or events, 4 prefixes, 2 histories, 2 registers, 2 places of the document, which are alike (symmetry) | 2,710,000 |
| `queue_thread` | the pool | 2 threads, 3 events (1 kept) | 3,100 |
| `process` | child and writer threads | 2 starts, 2 texts | 59,000 |
| `dir` | traversals, their flags and the project list | 2 traversals of up to 2 entries | 303,000 |

Why these bounds are enough. *macro_mode*: the interesting cases need one
recording, one append and one playback within another; contents of two commands
let a playback be disturbed in its middle, a count of two lets it fail in the
second repetition. A `CONSTRAINT` on the length of the contents cuts what would
grow for ever, and the theorems have no such bound. *vi*: a session is what is
typed between two moments at which vi is idle; the state that survives a session
is small, and all orders of two keys with any escapes in between,
repeated without end, are visited. *ex_stream*: two lines tell the first, a
middle and the phantom last line apart, and two passes are what the
defect that needs the most takes (a pass without actions, then one with); a line
that is joined or inserted is longer than what is read at once, and the whole
text is longer than that too, so that reading back takes several reads. The run
has `CHECK_DEADLOCK FALSE`, since a search may hang the program.
*address_range*: three lines have a first, a middle and a last one, and a line
with two matches; what a command leaves for the next one (selection, marks,
register, last substitution) is seen by the second. *file_sync*: each cause needs
one act of the other program and one of the user, and the second of each is what
comes after it; two seconds tell a change in the same second from a later one.
*hex_mode*: two bytes on a line put the third on the next; three edits are a
set, a change and its undo. *shell*: a command of two characters has an inside,
and four keys type it, move and change it, or change it, undo and redo; one output
may come between any two.
*debugger*: five commands are two clicks, an end, a start and a click; two lines
that the debugger takes for the same one make a line with two breakpoints.
*ex_command*: four characters have a middle with a selection in it, and six keys
open, insert a register, overtake it, edit, give and open again. Its two places
(where the caret is, and where a selection starts) are only compared, and all its
properties are invariants, so that symmetry is sound.
*queue_thread*: two threads race for one event, a third event can be the one
left over. *process*: the second start is where the io_context stays stopped;
more starts repeat that. *dir*: two traversals are what it takes for one to meet
the flags and the statistics of another one, two entries let a match come before
and after a cancel.

Deadlock is checked for `macro_mode`, `vi` and `queue_thread`. The
others end where a search hangs, where a bound on the acts of a user is reached, after the last start
or traversal, or where the program was killed.

Fairness. `ViMode`: the commands that were started go on (`Execute`); nobody
needs to type. `QueueThread`: each thread is scheduled, its handler returns, and
`stop` goes on once the threads are joined; nobody needs to emplace, start or
stop. `Process`: the threads are scheduled, and `async_system` goes on. Strong
fairness of `Reap` says that a `run_one_for` that is called over and over finds
out, once, that the child has ended: it waits 10 ms each time, and a handler
that is ready is run first. `Dir`: the threads are scheduled, the main thread
goes on with a start or a cancel it is in the middle of, and handles the events
it gets; nobody needs to find or cancel. `FileSync`: the main thread goes on with
a save, a load or a sync it is in the middle of, handles what is posted, and is
idle now and then (`CheckSync` is `on_idle`); the user and the other program need
not act. The other modules have safety properties only: nothing happens in them
that nobody did.

### What the runs show

* `RecordedIsTyped`, `FlagEnds`, `FlagHolds`, `Documented`: recording and
  playback are sound but for nested playbacks, yanks into the recorded register
  and a stop under another name.
* `UndoBalanced`, `EscapesLead`, `RepeatsInsertion`, `InsertedIsKept`,
  `CommandEnds`: undo groups leak in exactly two places (the escape from a block
  insert, `~` at the end of the document); two escapes in a row leave nothing in
  the buffer and lead to command mode, or to a block, and a third to command mode
  (the block is reached by longer sessions than those of this run; the theorem
  has them);
  insertions without a count are repeated and recorded as typed, if no insert
  command was left over; what vi keeps of an edited insertion is what is in the
  text, but for the cases named at the property; every command ends.
* `ShownAsEdited`, `CountKept`, `SearchEnds`: outside the cases of the findings
  the text is what the commands say, also after it was saved, and counts stay
  right; a search ends but for a text that begins with a long piece without a
  newline, and after moves up that have left nothing to read.
* `Erases`, `LinesKept`, `Substitutes`, `GlobalErases`, `GlobalEnds`: begun with
  nothing selected, the commands do to the lines what they say, at both ends of
  the text, and `:g/p/d` leaves the lines without a match; a global command that
  does not copy matches to the end comes to its end.
* `UnmodifiedIsOnDisk`, `EditsKept`, `ChangeShown`: what is shown as unmodified is
  what is on disk, what was typed is kept or written, and a change on disk is
  shown in the end, unless one of the causes came in between.
* `DumpIsBuffer`, `TargetReplaced`: edits in both fields keep dump and buffer
  together but for the causes; a target is replaced without touching its
  neighbours, if its end is of the kind the replacement needs.
* `CommandIsShown`, `OutputKept`: return sends what is shown whatever mix of
  keys, history, names and output made it, but for the causes; what is in front of
  the command stays wherever the caret is, but for vi, the three causes with the
  caret there, and undo and redo after these.
* `InStep`, `SetAgain`: when nothing is under way, and no cause came in, table,
  markers and debugger have the same breakpoints; a debugger that is started
  again for the same executable gets them again.
* `ShownIsCommand`, `GivenIsShown`, `FindIsSearched`, `EscapeReturns`: the ex
  command line shows what it will give, gives what it showed, a find is
  where its text was found, and escape goes back to where the line was opened, or to
  the start of what was selected in visual mode, each but for the causes.
* `PoolSpec`, `StoppedIsQuiet`, `AllProcessed`, `StopReturns`: the pool keeps
  its promises, but for events the handler leaves with the thread.
* `ExitNoticed`, `DeliveredFirst`: the first process is served well; a second
  one is not (see findings).
* `Exclusive`, `CancelStops`, `ReturnsMatches`, `FollowsAgain`: before the first
  cancel traversals exclude each other, a traversal that does not overlap with
  another one stops when it is cancelled and counts its own files, and the
  project list follows the disk again if adding was not refused.

Each module has a type invariant, or its assumptions say what its values are.
`TypeOK` of the ten modules with proofs is a theorem, that of the others
holds on the bounds above; it is not one of the runs' properties, which are kept
for what could go wrong.

### Findings

`PROJECT.json` has them with the quoted lines. They were met while modelling,
and each is a case the properties above have to name. In short:

* *macros*: the playback flag after a nested playback; macros that play back
  each other.
* *vi*: the count of an insertion is added to the last command more than once;
  a key that is no motion behind `c`, which leaves vi in insert mode;
  a backspace that is not taken from the text to repeat, or taken from it in
  command mode; a completion of which characters are lacking; the register of an
  insertion that was emptied.
* *ex stream*: saving an unmodified stream empties the file; lines that come
  back; inverted matches of a regular expression; a stream that stays failed after
  its end; searches back that miss lines, or do not end; a line size that is not
  reset; markers that stay.
* *ranges*: a selection that is there wins over the range, and `:y` and `:w`
  leave one; a substitution that leaves out its last line; global commands that
  append what they search, invert over no lines, or change the pattern; moves
  downwards; options of the last substitution; undo and columns of a sort; a tab in place of a
  last line.
* *files*: saves and syncs that fail silently (readonly files above all), logs
  that are appended to, a reload with a stale size, a file that is overwritten in
  part when edits are saved on the way to another one.
* *hex mode*: the first digit of a byte, the end of a target, undo, text that is
  appended, a character behind the last byte.
* *shell*: keys after output, the down key, pastes, double entries in the
  history, a command for a process that has ended, a return and shifted characters
  in the output, the delete command, redo.
* *debugger*: a number read after it was freed, removals gdb refuses, breakpoints
  that are set again under other numbers, deletes that are typed.
* *ex command line*: backspace over a selection and in an empty line, paste over
  a selection or behind a short register, registers, one of them taken for the end
  of the lines, a find with a register, the saved selection, in visual mode its start
  in the place of the caret, a bar that stays, the flag for all selected.
* *queue thread, process, dir*: events a handler does not release; a restarted
  process that gets no input; a traversal that starts while another one runs, or
  goes on though it was cancelled; files that a find tool counts twice; the
  project list that stops following the disk.

## 4. Proofs

Components with short proofs share a module, `MacroMode` with `QueueThread` and
`FileSync` with `Dir`; the others have one of their own. Where two share one, the
names that both would have (`Init`, `IInv`) are prefixed in one of them.

`QueueThread_MacroMode_proofs` proves of `MacroMode`, for all names, commands, texts
and depths:

| Theorem | States |
|---|---|
| `TypeCorrect` | `Spec => []TypeOK` |
| `InductiveInvariant` | `Spec => []IInv` |
| `FlagEndsAlways`, `FlagHoldsAlways` | the playback flag |
| `RecordedIsTypedAlways` | the contents of a recording |
| `DocumentedAlways` | memory and document |

They assume what the module assumes of its constants (`NamesAssumption`,
`CommandsAssumption`): the empty name and the absent entry are no names or
macros, and folding a name leaves all names alone but the appending ones.

`RecordedIsTyped` is not inductive: to see that a command that is recorded came
from the keyboard one needs that any playback in progress has the flag set, or
that a nested one has spoiled the recording. `IInv` adds just that:
`NamedWhileRecording` (a recording has a name), `FlagEnds`, `FlagHolds` and
`NestedSpoils` (a nested playback makes the recording not clean). The lemma
`OnlyKeyboard` draws the conclusion, and the step lemmas treat one action each.
`Documented` needs only the types, and is proved on its own.

and of `QueueThread`, for all sets of threads and events:

| Theorem | States |
|---|---|
| `QueueTypeCorrect` | `QueueSpec => []QueueTypeOK`: among others, a thread at its handler has an event |
| `InductivePool` | `QueueSpec => []PoolInv` |
| `Quiet` | `QueueSpec => StoppedIsQuiet`: no handler runs after `stop` has returned |
| `Implements` | `QueueSpec => PoolSpec`: the pool implements `EventPool` |

An event that is emplaced once is processed once only if it is in one place:
`OncePlace` says that one in the queue is there once, was not processed and is
with no thread; `OneThread` that a thread shares its event with nobody and only
a kept one stays with it; `Processed` that what a thread has outside the handler
it has processed, so that to overwrite it in `Take` loses nothing; `NoThreads`
that between the end of `stop` and the next `start` there are no threads. With
that each step of a thread is `Take`, `Finish` or `Again` of `EventPool`, or a
stutter. `EventPool` has no fairness, so that the refinement is one of safety.

`Dir_FileSync_proofs` proves of `Dir`, for all bounds on the traversals and their
entries:

| Theorem | States |
|---|---|
| `DirTypeCorrect`, `InductiveWalks` | `DirSpec => []DirTypeOK`, `DirSpec => []WalksInv` |
| `ExclusiveAlways` | before a cancel there is one traversal at a time |
| `CancelStopsAlways` | a cancelled traversal visits at most one more entry |
| `ReturnsMatchesAlways` | a traversal in the main thread returns its own files |

The flags are tested and set in different steps of different threads, so that
each property needs to know what is between them: `Uncut` (until something is
cancelled `running` says whether a traversal is active), `Single` (until
traversals overlap, one is not done), `Heeded` (a cancelled traversal that will
look at the flag finds it), `OwnFiles` (the statistics are those of the one that
is not done). `Counted`, `SyncLast` and `Room` are what these need of entries, of
the traversal of the main thread, and of the bound.

and of `FileSync`, for all files, logs, texts and bounds:

| Theorem | States |
|---|---|
| `TypeCorrect`, `InductiveInvariant` | `Spec => []TypeOK`, `Spec => []IInv` and what the user typed |
| `UnmodifiedIsOnDiskAlways` | an unmodified text is the one on disk |
| `EditsKeptAlways` | `Spec => []EditsKept`: edits stay until they are written or given up |

Between a load or a save and the stat that ends it neither the times nor the
sizes say anything: `Settled` says that the text is the one on disk then unless
the other program raced. `LogShown` says the same of a log as far as it was read.
`SyncAssumption` says that texts are sequences of chunks, and that the padding of
a text that is read past its end (`Nul`) is no chunk.

`ViMode_proofs` proves, for all users, keys and depths of the stack:

| Theorem | States |
|---|---|
| `TypeCorrect`, `InductiveInvariant` | `Spec => []TypeOK`, `Spec => []IInv` |
| `UndoBalancedAlways` | undo groups are in use, closed, or known to be lost |
| `InsertedIsKeptAlways` | what vi keeps of an insertion is what was inserted |
| `RepeatsInsertionAlways` | an insertion typed key by key is the last command and what was recorded |
| `EscapesLeadAlways` | escapes lead out of whatever the parser was stuck in |

`UndoBalanced` is inductive with the types. The parser is a set of actions on the
head of `calls`, and each has one step lemma (`InsertsStep`, `ModeStep`,
`OperatorStep`, ...) about `Sound(v, n)`: `v` is of its type, and its open groups,
but for that of an insertion and the lost ones, are `n`, the repeats in progress.
For `InsertedIsKept` two parts are added: `Kept` says of all states, and not only
of those at which vi is idle, that the kept text and the shown one agree and that
an insertion which has ended is in the register; `Dotted` that the flag of the
repeat is set only while one is in progress, so that what a repeat inserts is not
taken for what was typed.

`RepeatsInsertion` speaks of a whole insertion and `EscapesLead` of a few keys in a
row, so that both need to say where such a sequence stands at any moment, within a
command as well as between two. `Staged` names the stages of an insertion: `c` that
`Waits` for its motion, an opening that `IsTried`, that `KeepsMotion` with a
selection, or `WasTried`; an insertion that `TakesText`, whose escape is tried
(`IsLeft`), or that `HasEnded`. The argument of `vi::command` is then the whole
session (`Trial`), which has no count and no two escapes in it (`TrialParses`), so
that `Tries` leaves few commands to consider; `Lasts` says that the keys of the
session are the insert command and the text, in this order, and that the register
is the text. `Led` has the stages of escapes: the first finds the buffer empty, or
is added to what was stuck there (`Stuck`), after which the second gives it all up
(`GivesUp`); on its own an escape `Leaves` the mode that vi is in, which for an
insertion in a block is not yet command mode. Two escapes do not always lead to
command mode, as the property once had it: a user with `d ~ K c esc` and four keys
in a session showed TLC that after a `d~` that was stuck the next escape may enter
an insertion in a block. The exception is in the property, and in the findings.

`Shell_proofs` proves, for all characters, histories, names and setups:

| Theorem | States |
|---|---|
| `TypeCorrect`, `InductiveInvariant` | `Spec => []TypeOK`, `Spec => []IInv` |
| `CommandIsShownAlways` | return sends what is shown |
| `OutputKeptAlways` | `[][...]_text`: nothing in front of the command changes, but for vi and three causes |

An undo or a redo shows a text that was there before, so that `FrontKept` says of
every text in the undo history, in both directions, that it begins with what is in
front of the command, as long as vi and a caret in front have not changed that.
`Agree` says how the command and the text belong together at any moment, with
output in between as well; the property speaks of the return only. `Calm` is that
neither vi nor an edit at a caret in front has come, `ViOnly` says which shells vi
can have edited.

`Debugger_proofs` proves, for all files, lines and numbers of commands:

| Theorem | States |
|---|---|
| `TypeCorrect`, `InductiveInvariant` | `Spec => []TypeOK`, `Spec => []IInv` |
| `InStepAlways` | when all has arrived, table, markers and debugger agree |
| `SetAgainAlways` | a debugger that is started again gets the breakpoints |

The two properties say something only when nothing is under way. `Agreed` and
`Kept` say what holds before: a breakpoint of the debugger is in the table, or
in an answer that comes, or is to be deleted by a command that is sent, and the
other way round; `Reset` the same of a debugger that was started again; `Shown`
has the markers, `Counted` and `Fresh` the numbers, which no two breakpoints of
one debugger share, `Dead` and `Typed` what a dead debugger and a typed delete
leave. `DebuggerAssumption` says of the debugger, which is external, that the
line it puts a breakpoint on is one it leaves a breakpoint on.

`ExCommand_proofs` proves, for all characters, registers, prefixes, clipboards,
histories and inputs:

| Theorem | States |
|---|---|
| `TypeCorrect`, `InductiveInvariant` | `Spec => []TypeOK`, `Spec => []IInv` |
| `ShownIsCommandAlways` | the line shows what Return gives |
| `GivenIsShownAlways` | Return gives what was shown |
| `FindIsSearchedAlways` | an accepted find is where its text was found |
| `EscapeReturnsAlways` | Escape goes back to where the line was opened, or to the start of the selection |

What is shown is `Expand` of the command, a recursive function that takes a name
behind `^R` for the contents of the register. The command is edited by position,
so the proof first says what the operations of `ex_command` do to its text without
the prefix (`InsertShape`, `EraseShape`, `CutShape`, `OverShape`: each is
`Replaced`, a part of the text by another one), and then that `Expand` goes through
an edit: anywhere in a text without registers, and at its end in one with
(`ExpandBehind`, `ExpandRegister`, `OverExpand`). For that every `^R` must have a
name behind it, which `Agree` adds to `ShownIsCommand`, with what is shown once
the posted contents have arrived. `Headed` says that the prefix is there, and which;
`Registered` that a register in a find is noted and came with a key, so that the find
is not one that is executed; `Pending` that a name is asked for by a key; `Searched`
and `Placed` what a find has searched, and from which of the saved places. With
`Expand(u \o v)` the lines of an input mode are those of the command without its last
two characters only if these are not the name of a register: that is how `named` was
found. `ExCommandAssumption` says that `^R` and the newline are not characters that
are typed: the one is a key of its own, the other ends a line.

`ExStream_proofs` proves, for all texts, substitutions, line sizes and bounds:

| Theorem | States |
|---|---|
| `TypeCorrect`, `InductiveInvariant` | `Spec => []TypeOK`, `Spec => []IInv` |
| `ShowsEdited` | what is shown is what the commands say |
| `SearchesEnd` | a search ends, but for two causes |
| `CountStays` | `[][...]_vars`: a line count that is right stays right |

A text is read character by character, a line is looked for turn by turn, and
pieces of lines are put together again: three recursive functions over the length
of a text, so that most of the proof says what these give, by induction over a set
of numbers (`Induction`). `FlattenSeq` of the library is a choice of a function;
`Flattens` shows that there is one and `FlattenIs` that it is the one.

`Chunked` says of the lines that `Handled` has cut, after each character, that put
together they are what was read, that none but the last is empty, and that the only
newline of a line is its last character (`HandledIs`). From that follows what each
kind of pass gives: an erased range is the text without its lines (`EraseEnds`); a
join that takes the last character of a line takes its newline, and nothing else
(`JoinEnds`); an insertion adds to the one line it names (`InsertEnds`); of a
substitution that says what is left of each line when no line of the range is one of
those the code gets wrong (`PlainEnds`, `RegexEnds`). `Does` is what these have in
common: a pass is copied and gives what the command says, or fails, or acts on
nothing and the text was what the command says. `ShownAsEdited` alone is not
inductive: what a pass copies comes behind what temp has from an earlier one.
`Followed` adds that as long as the commands are obeyed temp is empty, or can no
longer be copied, and that a modified text is the work file, which a write needs.

`Turns` says that a loop is a sequence of turns, so that an invariant of `NextLine`
and `PreviousLine` is one of the loop (`TurnsWithin`): the reader stays in the text,
and reading on does not change what is read at once. A search forward is ahead by a
character with each turn (`SearchForward`). One back has to be told from a search
that goes on for ever: `Left` is the larger of the position and of what is read at
once, cut to the text, and each turn makes it smaller unless the text begins with
more characters without a newline than are read at once (`PreviousLineIs`). So
`SearchEnds`, with its two causes, is shown for every line size, where the run has
3 for the 1000 of the code.

For `CountStays` a text without a long line that ends in a newline has as many lines
as `Handled` has lines but the last, empty one (`WholeIs`), and of lines that are each
whole or bare, put together, the newlines are counted by the whole ones (`NewlinesOf`,
`LinesLess`).

`HexMode_proofs` proves, for all bytes and their codes, line sizes, texts and bounds:

| Theorem | States |
|---|---|
| `TypeCorrect`, `InductiveInvariant` | `Spec => []TypeOK`, `Spec => []IInv` |
| `DumpAlwaysBuffer` | in hex mode the text is the dump of the buffer, but for six causes |
| `TargetAlwaysReplaced` | `Spec => TargetReplaced`: a target is replaced as a whole |

A dump is lines of the same width, and each line is fields of the same width, so
that a cell is at a sum of products: `Top(l) + c` is column `c` of line `l`. The
products stay behind names (`Row`, `Top`), and what is needed of them are a few
lemmas. `Dumped` and `IsLine` say what is in each cell, `SpotIs` and `ReplacedIs`
which four cells a byte has (`Spot`), that no other byte has one of them, and
that a dump with these cells replaced is the dump with that byte. What the code
does starts from the caret, so that it has first to be shown that counting the
newlines in front of it gives its line and column (`AtStands`), and these the
index that `buffer_index` computes.

`DumpIsBuffer` needs more than itself. A dump that went astray still must not
take an edit out of the text, and an undo must find out what it has brought back:
`hexmode::undo` looks for a hex field at the begin of the text. `Typed` therefore
says that in hex mode the text *looks like* a dump (`Looks`): each line begins with
a hex field of digits and blanks, and has a sign for each byte in that; outside hex
mode, it is of bytes. The same goes for each text that undo has. `Grouped` says
what is undone together: as long as the buffer was not set, the group of an
activation goes back to the dump of `original`, or to what was shown in front of
it. In the proof of that it turned out that a dump may also be opened in a group
that an earlier undo has left open, which is why the cause `undo` is as wide as
it is. `HexAssumption` says that two bytes have different codes, and that the cells of a hex
field are not bytes: a byte is a token here, also one whose character is a digit. That
leaves out a file whose own text begins like a dump, which `undo` takes for one.

`TargetReplaced` follows from an invariant of the loop of `replace_target`. After
`k` bytes the buffer is what it was, with these `k` instead of the first `k` of the
target, or of all of it once the target is used up (`Partly`, `Spliced`). The dump
may be an older one, but of as many bytes, so that the index that is read off it is
still the one of the next byte (`TargetPlace`): a digit behind the last byte has none,
and behind the hex field the model leaves the replacement out. What is left of the
target in the end are `size - Len(with)` bytes, and as many are erased
(`TargetEnds`). The two kinds of ends of a target are needed: the blank of the last
byte decides whether the next byte replaces it or comes behind it.

Each inductive invariant was checked by TLC, on the bounds of the run, before it
was proved. Where the proof of a step asked for something that was false in the
model, the model or the list of causes was wrong, and is corrected.

Only model-checked, and why:

* liveness (`CommandEnds`, `AllProcessed`, `StopReturns`, `ExitNoticed`,
  `DeliveredFirst`, `ChangeShown`, `FollowsAgain`) is out of the prover's reach;
* `AddressRange`: `GlobalEnds` says that the bound on the rounds of a global
  command is not reached, which the constants must be chosen for, so that it is no
  theorem for all of them. `Erases`, `LinesKept`, `Substitutes` and `GlobalErases`
  compare whole texts after loops that search from where the last round left off.

Where a recursion has been proved about (`Expand`, `Without`, `FlattenSeq`,
`Handled`, `Loop`, the `run` of `ReplaceTarget`), it is a recursive function and the
induction is one over a set of
numbers.

## 5. Plan

Done: the modules above. To come, in this order:

1. The reader threads of `Process` and a pipe with a bound; maps and
   abbreviations of `macros`.
2. References in replacements of `AddressRange`; the exit
   of the editor (`:q`, `:wq`) on top of `FileSync`.

## 6. Not modelled, and why

The repository has 51,000 lines of implementation, and most of them are user
interface: `src/ui` (lists, item dialogs, notebooks, toolbars), `src/del`,
`src/factory` and most of `src/stc` bind events of wxWidgets to calls of its
components. Where they keep state (the keys of a notebook, the panes of a status
bar), one function changes it from one event
to the next, without anything in between; the parts above are where several do.
Lexers and the odbc layer are third party code; configuration, data objects and
the command line are plain values; vcs, ctags and ex are dispatch and parsing,
one call after another. What they keep for the modelled parts is modelled there
(the marks of ex, the flags of a substitution, the search and the saved position
of the text component). Each component's entry in `PROJECT.json` says what of it
is missing.

## 7. Running

    tlc -workers 2 -config MCMacroMode.cfg MCMacroMode.tla
    tlapm QueueThread_MacroMode_proofs.tla

and likewise for the other `MC` modules, and for `Dir_FileSync_proofs`,
`ViMode_proofs`, `Shell_proofs`, `Debugger_proofs`, `ExCommand_proofs`,
`ExStream_proofs` and `HexMode_proofs`. All runs finish within three minutes; the
proofs take from a minute to about ten each.
