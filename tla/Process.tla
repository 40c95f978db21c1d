------------------------------- MODULE Process --------------------------------
(***************************************************************************)
(* factory::process: a child process that runs next to the program, and    *)
(* can be started again when it has ended.                                 *)
(*                                                                         *)
(* async_system, write and stop run in the main thread.  Each start also   *)
(* starts a writer thread, which runs the handlers of the io_context and   *)
(* passes on queued texts.  The members of process_imp are shared without  *)
(* a lock, so that everything a thread does to one of them is a step of    *)
(* its own.  The threads that read the output of the child are left out.   *)
(***************************************************************************)
EXTENDS Naturals, Sequences

CONSTANTS
  MaxStarts,  \* bound: how often a process is started
  MaxTexts    \* bound: the number of texts written to it

ASSUME BoundsAssumption == MaxStarts \in Nat /\ MaxTexts \in Nat

VARIABLES
  running,  \* m_is_running
  work,     \* the number of handlers m_io still has to run
  stopped,  \* m_io has been stopped; nothing restarts it
  group,    \* the child that leads m_group, 0 if the group is not valid
  queue,    \* m_queue: the texts, as indices into written
  good,     \* m_os is good
  main,     \* where the main thread is: idle, or half way async_system
  kids,     \* the children: alive, dead, or dead and waited for (reaped)
  exits,    \* the children whose exit handler has not run yet
  writers,  \* where the writer thread of each start is
  text,     \* the text the writer has a reference to, 0 if none
  alive,    \* the program itself
  \* history
  written,  \* the child that ran last when write accepted each text
  input     \* what each child has got on its standard input

shared == <<running, work, stopped, group, queue, good>>
world == <<main, kids, exits, alive>>
vars == <<running, work, stopped, group, queue, good, main, kids, exits,
          writers, text, alive, written, input>>

PC == {"loop", "run", "reaped", "exited", "look", "front", "write", "pop", "done"}

\* Every child has a writer, but for one that is just being started.
TypeOK ==
  /\ {running, stopped, good, alive} \subseteq BOOLEAN
  /\ work \in 0..MaxStarts
  /\ group \in 0..Len(kids)
  /\ queue \in Seq(DOMAIN written)
  /\ main \in {"idle", "launched"}
  /\ kids \in Seq({"alive", "dead", "reaped"})
  /\ exits \subseteq DOMAIN kids
  /\ writers \in Seq(PC)
  /\ text \in [DOMAIN writers -> 0..Len(written)]
  /\ Len(kids) = Len(writers) + (IF main = "launched" THEN 1 ELSE 0)
  /\ written \in Seq(DOMAIN kids)
  /\ input \in Seq(Seq(DOMAIN written)) /\ Len(input) = Len(kids)

Init ==
  /\ running = FALSE
  /\ work = 0
  /\ stopped = FALSE
  /\ group = 0
  /\ queue = <<>>
  /\ good = TRUE
  /\ main = "idle"
  /\ kids = <<>>
  /\ exits = {}
  /\ writers = <<>>
  /\ text = <<>>
  /\ alive = TRUE
  /\ written = <<>>
  /\ input = <<>>

-----------------------------------------------------------------------------
(* The main thread.                                                        *)

\* async_system, as debug::execute calls it: the child is started, in the
\* process group if that is free, or fails to start, which the exit handler
\* will be told.  A group that has lost its processes cannot be joined.
Launch ==
  /\ alive /\ main = "idle" /\ ~running
  /\ Len(kids) < MaxStarts
  /\ \E s \in {"alive", "reaped"} :
       /\ kids' = Append(kids, s)
       /\ group' = IF s = "alive" /\ group = 0 THEN Len(kids') ELSE group
  /\ exits' = exits \cup {Len(kids')}
  /\ work' = work + 1
  /\ input' = Append(input, <<>>)
  /\ main' = "launched"
  /\ UNCHANGED <<running, stopped, queue, good, writers, text, alive, written>>

\* The rest of it: m_is_running is set, and the writer thread started.
Launched ==
  /\ alive /\ main = "launched"
  /\ running' = TRUE
  /\ writers' = Append(writers, "loop")
  /\ text' = Append(text, 0)
  /\ main' = "idle"
  /\ UNCHANGED <<work, stopped, group, queue, good, kids, exits, alive,
                 written, input>>

Write ==
  /\ alive /\ main = "idle" /\ running
  /\ Len(written) < MaxTexts
  /\ written' = Append(written, Len(kids))
  /\ queue' = Append(queue, Len(written'))
  /\ UNCHANGED <<running, work, stopped, group, good, world, writers, text, input>>

\* stop kills the group.  If there is no process in it that throws, and stop
\* returns before it does anything else.
Stop ==
  /\ alive /\ main = "idle" /\ running
  /\ group' = 0
  /\ IF group # 0 /\ kids[group] = "reaped"
     THEN UNCHANGED <<running, stopped, kids>>
     ELSE /\ kids' = [k \in DOMAIN kids |->
                        IF k = group /\ kids[k] = "alive" THEN "dead" ELSE kids[k]]
          /\ stopped' = TRUE
          /\ running' = FALSE
  /\ UNCHANGED <<work, queue, good, main, exits, writers, text, alive,
                 written, input>>

\* A child ends.
Exit(k) ==
  /\ alive /\ kids[k] = "alive"
  /\ kids' = [kids EXCEPT ![k] = "dead"]
  /\ UNCHANGED <<shared, main, exits, writers, text, alive, written, input>>

-----------------------------------------------------------------------------
(* The writer thread of a start.                                           *)

At(w, where) == alive /\ writers[w] = where

Goes(w, where) == writers' = [writers EXCEPT ![w] = where]

Loop(w) ==
  /\ At(w, "loop")
  /\ Goes(w, IF good /\ ~stopped THEN "run" ELSE "done")
  /\ UNCHANGED <<shared, world, text, written, input>>

\* run_one_for finds nothing to do within 10 ms; without work it stops m_io.
RunNothing(w) ==
  /\ At(w, "run")
  /\ stopped' = (stopped \/ work = 0)
  /\ Goes(w, "look")
  /\ UNCHANGED <<running, work, group, queue, good, world, text, written, input>>

\* run_one_for finds out that a child has ended, and calls its handler.
Reap(w) ==
  /\ At(w, "run") /\ ~stopped
  /\ \E k \in exits :
       /\ kids[k] # "alive"
       /\ kids' = [kids EXCEPT ![k] = "reaped"]
       /\ exits' = exits \ {k}
  /\ Goes(w, "reaped")
  /\ UNCHANGED <<shared, main, text, alive, written, input>>

\* The handler.
HandlerUnset(w) ==
  /\ At(w, "reaped")
  /\ Goes(w, "exited")
  /\ UNCHANGED <<shared, world, text, written, input>>
Handler(w) ==
  /\ At(w, "reaped")
  /\ running' = FALSE
  /\ Goes(w, "exited")
  /\ UNCHANGED <<work, stopped, group, queue, good, world, text, written, input>>

\* After its last handler m_io is stopped.
Finish(w) ==
  /\ At(w, "exited")
  /\ work' = work - 1
  /\ stopped' = (stopped \/ work' = 0)
  /\ Goes(w, "look")
  /\ UNCHANGED <<running, group, queue, good, world, text, written, input>>

Look(w) ==
  /\ At(w, "look")
  /\ Goes(w, IF queue = <<>> THEN "loop" ELSE "front")
  /\ UNCHANGED <<shared, world, text, written, input>>

\* The text is a reference into the queue.
FrontStopped(w) ==
  /\ At(w, "front")
  /\ text' = [text EXCEPT ![w] = IF queue = <<>> THEN 0 ELSE Head(queue)]
  /\ Goes(w, IF good /\ stopped THEN "write" ELSE "pop")
  /\ UNCHANGED <<shared, world, written, input>>
Front(w) ==
  /\ At(w, "front")
  /\ text' = [text EXCEPT ![w] = IF queue = <<>> THEN 0 ELSE Head(queue)]
  /\ Goes(w, IF good /\ ~stopped THEN "write" ELSE "pop")
  /\ UNCHANGED <<shared, world, written, input>>

\* Another writer has popped the text, or there was none: undefined.
Dangling(w) == queue # <<>> => text[w] # Head(queue)

\* m_os leads to the last child.  Writing to one that has ended sends the
\* program SIGPIPE, or, where that is ignored, makes the stream bad; if it
\* never started, the pipe may have been left open.  A dangling text may still
\* be there.
WriteText(w) ==
  /\ At(w, "write")
  /\ \/ /\ kids[Len(kids)] = "alive" /\ text[w] # 0
        /\ input' = [input EXCEPT ![Len(kids)] = Append(@, text[w])]
        /\ UNCHANGED <<good, alive>>
     \/ /\ kids[Len(kids)] # "alive"
        /\ good' \in BOOLEAN /\ UNCHANGED <<alive, input>>
     \/ /\ kids[Len(kids)] # "alive" \/ Dangling(w)
        /\ alive' = FALSE /\ UNCHANGED <<good, input>>
  /\ Goes(w, "pop")
  /\ UNCHANGED <<running, work, stopped, group, queue, main, kids, exits,
                 text, written>>

\* pop, of an empty queue if another writer was faster: undefined.
Pop(w) ==
  /\ At(w, "pop")
  /\ \/ queue # <<>> /\ queue' = Tail(queue) /\ UNCHANGED alive
     \/ queue = <<>> /\ alive' = FALSE /\ UNCHANGED queue
  /\ text' = [text EXCEPT ![w] = 0]
  /\ Goes(w, "loop")
  /\ UNCHANGED <<running, work, stopped, group, good, main, kids, exits,
                 written, input>>

Writer(w) ==
  \/ Loop(w) \/ RunNothing(w) \/ Reap(w) \/ Handler(w) \/ Finish(w)
  \/ Look(w) \/ Front(w) \/ WriteText(w) \/ Pop(w)

Next ==
  \/ Launch \/ Launched \/ Write \/ Stop
  \/ \E k \in DOMAIN kids : Exit(k)
  \/ \E w \in DOMAIN writers : Writer(w)

\* The threads are scheduled; run_one_for runs a handler that is ready.
Fairness ==
  /\ WF_vars(Launched)
  /\ \A w \in 1..MaxStarts :
       /\ WF_vars(w \in DOMAIN writers /\ Writer(w))
       /\ SF_vars(w \in DOMAIN writers /\ Reap(w))

Spec == Init /\ [][Next]_vars /\ Fairness

-----------------------------------------------------------------------------
(* Properties.                                                             *)

\* Known case: the process was started again.  The io_context stays stopped,
\* and the writer thread of the first start may still be there.
Again == Len(kids) > 1

Lost == ~good \/ ~alive

\* is_running becomes false once the child has ended, unless a text was
\* written to it just then.
ExitNoticed ==
  (kids # <<>> /\ kids[1] # "alive") ~> (~running \/ Lost \/ Again)

\* Text n has reached the child it was written to, unless that has ended.
Settled(n) ==
  \/ Lost
  \/ kids[written[n]] # "alive"
  \/ \E i \in DOMAIN input[written[n]] : input[written[n]][i] = n

\* So it does for the first process.
DeliveredFirst == \A n \in 1..MaxTexts :
  (n \in DOMAIN written /\ written[n] = 1) ~> (n \in DOMAIN written /\ Settled(n))
=============================================================================
