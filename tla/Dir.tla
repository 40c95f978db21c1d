---------------------------------- MODULE Dir ----------------------------------
(***************************************************************************)
(* Traversing directories: dir::find_files and run, the flags of           *)
(* interruptible that say whether a traversal runs and is cancelled, and   *)
(* the project list, which does not follow changes on disk while files are *)
(* added to it.                                                            *)
(*                                                                         *)
(* A dir with an event handler is traversed by a thread of its own, one    *)
(* without in the main thread.  The flags and the statistics are static,   *)
(* shared without a lock, so that a test of them, and what is done after   *)
(* it, are different steps.                                                *)
(***************************************************************************)
EXTENDS Naturals, Sequences

CONSTANTS
  MaxWalks,   \* bound: the number of traversals
  MaxEntries  \* bound: the number of entries of a directory

ASSUME BoundsAssumption == MaxWalks \in Nat /\ MaxEntries \in Nat

VARIABLES
  running,    \* interruptible::m_running
  cancelled,  \* interruptible::m_cancelled
  files,      \* the number of files in dir::m_statistics
  walks,      \* the traversals, in the order they started
  main,       \* what the main thread is in the middle of
  finished,   \* ID_LIST_MATCH_FINISH events sent to the project list
  bound,      \* how often the project list has on_idle bound
  \* history
  overlap,    \* a traversal was started while another one had not ended
  refused     \* adding files to the project list was refused

flags == <<running, cancelled>>
list == <<finished, bound, refused>>
dirVars == <<running, cancelled, files, walks, main, finished, bound, overlap, refused>>

\* add: files are added to the project list; find: a tool is run on each file;
\* sync: no event handler.
Kind == {"add", "find", "sync"}

At == {"next", "cancel", "cancelling", "check", "stop", "stopping", "end", "done"}

Walk == [kind : Kind,
         at   : At,
         left : 0..MaxEntries,   \* the entries to come
         own  : 0..MaxEntries,   \* history: the files that matched
         cut  : BOOLEAN,         \* history: it was cancelled
         late : 0..MaxEntries]   \* history: the entries visited after that

Active(w) == walks[w].at \notin {"end", "done"}

\* The main thread runs a traversal only if that has no event handler.
MainWalks ==
  main = "walking" <=>
    walks # <<>> /\ walks[Len(walks)].kind = "sync" /\ walks[Len(walks)].at # "done"

DirTypeOK ==
  /\ running \in BOOLEAN /\ cancelled \in BOOLEAN
  /\ overlap \in BOOLEAN /\ refused \in BOOLEAN
  /\ files \in Nat
  /\ walks \in Seq(Walk) /\ Len(walks) <= MaxWalks
  /\ main \in {"idle", "cancelling", "walking"} \cup Kind
  /\ finished \in Nat
  /\ bound \in Nat
  /\ MainWalks

DirInit ==
  /\ running = FALSE
  /\ cancelled = FALSE
  /\ files = 0
  /\ walks = <<>>
  /\ main = "idle"
  /\ finished = 0
  /\ bound = 1
  /\ overlap = FALSE
  /\ refused = FALSE

-----------------------------------------------------------------------------
(* The main thread.                                                        *)

Unended == {w \in DOMAIN walks : walks[w].at # "done"}

\* interruptible::start: the test, and the first flag.
StartUnchecked(kind) ==
  /\ cancelled' = FALSE
  /\ main' = kind
  /\ overlap' = (overlap \/ Unended # {})
  /\ UNCHANGED <<running, files, walks, finished>>
Start(kind) ==
  /\ ~running
  /\ cancelled' = FALSE
  /\ main' = kind
  /\ overlap' = (overlap \/ Unended # {})
  /\ UNCHANGED <<running, files, walks, finished>>

FindFiles(kind) == /\ main = "idle" /\ Len(walks) < MaxWalks
                   /\ Start(kind)

\* find_files for a tool, or without an event handler.  If a traversal is
\* running, or there is no such directory, it returns at once.
Find ==
  /\ FindFiles("find") \/ FindFiles("sync")
  /\ UNCHANGED <<bound, refused>>

Unbound == IF bound > 0 THEN bound - 1 ELSE 0

\* file::add_items unbinds on_idle, which the end of the traversal binds again.
AddItems ==
  /\ FindFiles("add")
  /\ bound' = Unbound
  /\ UNCHANGED refused

\* It does so too if find_files returns at once.
AddNothing ==
  /\ main = "idle"
  /\ bound' = Unbound
  /\ refused' = TRUE
  /\ UNCHANGED <<flags, files, walks, main, finished, overlap>>

\* The second flag; then the statistics are cleared, and the traversal begins.
Started ==
  /\ main \in Kind
  /\ running' = TRUE
  /\ files' = 0
  /\ \E n \in 0..MaxEntries :
       walks' = Append(walks, [kind |-> main, at |-> "next", left |-> n,
                               own |-> 0, cut |-> FALSE, late |-> 0])
  /\ main' = IF main = "sync" THEN "walking" ELSE "idle"
  /\ UNCHANGED <<cancelled, list, overlap>>

\* The escape key in a dialog, and the end of a list: interruptible::cancel.
Cancel ==
  /\ main = "idle" /\ running
  /\ main' = "cancelling"
  /\ UNCHANGED <<flags, files, walks, list, overlap>>

CancelFlags ==
  /\ cancelled' = TRUE
  /\ running' = FALSE

\* The walks, once all that are active are cancelled.
Cut == [w \in DOMAIN walks |-> [walks[w] EXCEPT !.cut = @ \/ Active(w)]]

Cancelled ==
  /\ main = "cancelling"
  /\ CancelFlags
  /\ main' = "idle"
  /\ walks' = Cut
  /\ UNCHANGED <<files, list, overlap>>

\* The event of the end of a traversal: on_idle is bound.
FinishUnbound ==
  /\ main = "idle" /\ finished > 0
  /\ finished' = finished - 1
  /\ UNCHANGED <<flags, files, walks, main, bound, overlap, refused>>
Finish ==
  /\ main = "idle" /\ finished > 0
  /\ finished' = finished - 1
  /\ bound' = bound + 1
  /\ UNCHANGED <<flags, files, walks, main, overlap, refused>>

-----------------------------------------------------------------------------
(* A traversal.                                                            *)

Goes(w, to) == walks' = [walks EXCEPT ![w].at = to]

CountsTwice(kind) == IF kind = "add" THEN 1 ELSE 2

\* What a file that matches adds to the number of files: on_file adds the
\* statistics of the stream of a tool, and traverse one for each file.
Counts(kind) == IF kind = "find" THEN 2 ELSE 1

Visited(w, to, n) ==
  LET walk == walks[w]
  IN  walks' = [walks EXCEPT ![w] =
                  [walk EXCEPT !.at = to, !.left = @ - 1, !.own = @ + n,
                               !.late = IF walk.cut THEN @ + 1 ELSE @]]

\* traverse, for an entry that matches, and the tool succeeds, if any.
Match(w) ==
  /\ walks[w].at = "next" /\ walks[w].left > 0
  /\ files' = files + Counts(walks[w].kind)
  /\ Visited(w, "check", 1)
  /\ UNCHANGED <<flags, main, list, overlap>>

\* An entry that does not match.
Skip(w) ==
  /\ walks[w].at = "next" /\ walks[w].left > 0
  /\ Visited(w, "check", 0)
  /\ UNCHANGED <<flags, files, main, list, overlap>>

\* A tool that fails cancels the traversal.
ToolFails(w) ==
  /\ walks[w].at = "next" /\ walks[w].left > 0 /\ walks[w].kind = "find"
  /\ Visited(w, "cancel", 0)
  /\ UNCHANGED <<flags, files, main, list, overlap>>

ToolCancels(w) ==
  /\ walks[w].at = "cancel"
  /\ Goes(w, IF running THEN "cancelling" ELSE "check")
  /\ UNCHANGED <<flags, files, main, list, overlap>>

ToolCancelled(w) ==
  /\ walks[w].at = "cancelling"
  /\ CancelFlags
  /\ walks' = [Cut EXCEPT ![w].at = "check"]
  /\ UNCHANGED <<files, main, list, overlap>>

CheckNothing(w) ==
  /\ walks[w].at = "check"
  /\ Goes(w, "next")
  /\ UNCHANGED <<flags, files, main, list, overlap>>
Check(w) ==
  /\ walks[w].at = "check"
  /\ Goes(w, IF cancelled THEN "stop" ELSE "next")
  /\ UNCHANGED <<flags, files, main, list, overlap>>

\* The last entry, or the limit of matches.
Exhausted(w) ==
  /\ walks[w].at = "next" /\ walks[w].left = 0
  /\ Goes(w, "stop")
  /\ UNCHANGED <<flags, files, main, list, overlap>>

\* interruptible::stop, flag by flag.
Stop(w) ==
  /\ walks[w].at = "stop"
  /\ cancelled' = FALSE
  /\ Goes(w, "stopping")
  /\ UNCHANGED <<running, files, main, list, overlap>>

Stopped(w) ==
  /\ walks[w].at = "stopping"
  /\ running' = FALSE
  /\ Goes(w, "end")
  /\ UNCHANGED <<cancelled, files, main, list, overlap>>

\* find_files_end; the main thread returns the number of files.
End(w) ==
  /\ walks[w].at = "end"
  /\ Goes(w, "done")
  /\ finished' = finished + (IF walks[w].kind = "add" THEN 1 ELSE 0)
  /\ main' = IF walks[w].kind = "sync" THEN "idle" ELSE main
  /\ UNCHANGED <<flags, files, bound, refused, overlap>>

Run(w) ==
  \/ Match(w) \/ Skip(w) \/ ToolFails(w) \/ ToolCancels(w) \/ ToolCancelled(w)
  \/ Check(w) \/ Exhausted(w) \/ Stop(w) \/ Stopped(w) \/ End(w)

DirNext ==
  \/ Find \/ AddItems \/ AddNothing \/ Started
  \/ Cancel \/ Cancelled \/ Finish
  \/ \E w \in DOMAIN walks : Run(w)

\* The threads are scheduled, and the main thread handles the events it gets;
\* nobody needs to find or cancel.
Fairness ==
  /\ WF_dirVars(Started) /\ WF_dirVars(Cancelled) /\ WF_dirVars(Finish)
  /\ \A w \in 1..MaxWalks : WF_dirVars(w \in DOMAIN walks /\ Run(w))

DirSpec == DirInit /\ [][DirNext]_dirVars /\ Fairness

-----------------------------------------------------------------------------
(* Properties.                                                             *)

Walking == {w \in DOMAIN walks : Active(w)}

\* As long as none has been cancelled at most one traversal is active: start
\* refuses a second one, whatever the flags go through.
Exclusive ==
  (\E w \in DOMAIN walks : walks[w].cut) \/ \A v, w \in Walking : v = w

\* A traversal that was cancelled visits at most one more entry, unless it
\* overlaps with another one.
CancelStops == \A w \in DOMAIN walks : overlap \/ walks[w].late <= 1

\* A traversal without an event handler returns the number of files it found,
\* unless it overlaps with another one.
ReturnsMatches ==
  \A w \in DOMAIN walks :
    walks[w].kind = "sync" /\ walks[w].at = "end" => overlap \/ files = walks[w].own

\* The project list follows changes on disk again some time after files were
\* added to it, unless adding was refused.
FollowsAgain == bound = 0 ~> bound > 0 \/ refused
=============================================================================
