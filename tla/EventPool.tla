------------------------------ MODULE EventPool -------------------------------
(***************************************************************************)
(* What a queue_thread promises of the events put into it: they are taken  *)
(* in the order they came, and each is processed once, by whichever thread *)
(* of the pool, unless the handler leaves it with the thread.              *)
(***************************************************************************)
EXTENDS Naturals, Sequences

CONSTANTS
  Event,  \* the events, each emplaced at most once
  Kept    \* the events the handler does not take over from the thread

VARIABLES
  waiting,  \* the events not taken yet, in order
  working,  \* the events taken and not processed yet
  times     \* how often each event was processed, 2 for more than once

vars == <<waiting, working, times>>

Init ==
  /\ waiting = <<>>
  /\ working = {}
  /\ times = [e \in Event |-> 0]

Put(e) ==
  /\ e \notin working /\ times[e] = 0
  /\ \A i \in DOMAIN waiting : waiting[i] # e
  /\ waiting' = Append(waiting, e)
  /\ UNCHANGED <<working, times>>

Take ==
  /\ waiting # <<>>
  /\ waiting' = Tail(waiting)
  /\ working' = working \cup {Head(waiting)}
  /\ UNCHANGED times

Finish(e) ==
  /\ e \in working
  /\ working' = working \ {e}
  /\ times' = [times EXCEPT ![e] = 1]
  /\ UNCHANGED waiting

Again(e) ==
  /\ e \in Kept /\ times[e] > 0
  /\ times' = [times EXCEPT ![e] = 2]
  /\ UNCHANGED <<waiting, working>>

Next ==
  \/ Take
  \/ \E e \in Event : Put(e) \/ Finish(e) \/ Again(e)

Spec == Init /\ [][Next]_vars
=============================================================================
