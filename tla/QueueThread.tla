----------------------------- MODULE QueueThread ------------------------------
(***************************************************************************)
(* The template queue_thread: a queue anybody puts events in, and a pool   *)
(* of threads that take them out and hand them to the event handler.       *)
(*                                                                         *)
(* What happens under m_queue_mutex is one step.  The wait on the          *)
(* condition has a timeout, and may wake up spuriously, so that a waiting  *)
(* thread can go on at any time; a notification only makes that soon.      *)
(***************************************************************************)
EXTENDS Naturals, Sequences

CONSTANTS
  Thread,  \* the threads of the pool
  Event,   \* the events, each emplaced at most once
  Kept,    \* the events the handler does not take over (event.release())
  None     \* no event: nullptr

ASSUME EventAssumption ==
  /\ Kept \subseteq Event
  /\ None \notin Event

VARIABLES
  running,  \* m_running
  queue,    \* m_event_queue
  pc,       \* where each thread is in thread_main
  event,    \* the event each thread has
  stopping, \* stop waits for the threads to join, holding m_thread_mutex
  times     \* history: how often each event was processed, at most 2

queueVars == <<running, queue, pc, event, stopping, times>>

PC == {"none", "check", "lock", "wait", "process", "done"}

\* A thread calls the handler only with an event.
QueueTypeOK ==
  /\ running \in BOOLEAN
  /\ queue \in Seq(Event)
  /\ pc \in [Thread -> PC]
  /\ event \in [Thread -> Event \cup {None}]
  /\ stopping \in BOOLEAN
  /\ times \in [Event -> 0..2]
  /\ \A t \in Thread : pc[t] = "process" => event[t] # None

QueueInit ==
  /\ running = FALSE
  /\ queue = <<>>
  /\ pc = [t \in Thread |-> "none"]
  /\ event = [t \in Thread |-> None]
  /\ stopping = FALSE
  /\ times = [e \in Event |-> 0]

Goes(t, to) == pc' = [pc EXCEPT ![t] = to]

-----------------------------------------------------------------------------
(* The owner of the pool, and whoever has events.                          *)

\* An event is a unique_ptr, so it is emplaced once.
Emplaced(e) ==
  \/ \E i \in DOMAIN queue : queue[i] = e
  \/ \E t \in Thread : event[t] = e
  \/ times[e] > 0

Emplace(e) ==
  /\ ~Emplaced(e)
  /\ queue' = Append(queue, e)
  /\ UNCHANGED <<running, pc, event, stopping, times>>

Start ==
  /\ ~running /\ ~stopping
  /\ running' = TRUE
  /\ pc' = [t \in Thread |-> "check"]
  /\ event' = [t \in Thread |-> None]
  /\ UNCHANGED <<queue, stopping, times>>

StopUnjoined ==
  /\ running
  /\ running' = FALSE
  /\ UNCHANGED <<queue, pc, event, stopping, times>>
StopUnset ==
  /\ running /\ ~stopping
  /\ stopping' = TRUE
  /\ UNCHANGED <<running, queue, pc, event, times>>
Stop ==
  /\ running
  /\ running' = FALSE
  /\ stopping' = TRUE
  /\ UNCHANGED <<queue, pc, event, times>>

\* All threads have joined: stop returns.
Joined ==
  /\ stopping
  /\ \A t \in Thread : pc[t] = "done"
  /\ stopping' = FALSE
  /\ pc' = [t \in Thread |-> "none"]
  /\ UNCHANGED <<running, queue, event, times>>

-----------------------------------------------------------------------------
(* thread_main                                                             *)

\* The condition of the loop; a thread that ends deletes the event it has.
Check(t) ==
  /\ pc[t] = "check"
  /\ IF running THEN Goes(t, "lock") /\ UNCHANGED event
                ELSE Goes(t, "done") /\ event' = [event EXCEPT ![t] = None]
  /\ UNCHANGED <<running, queue, stopping, times>>

\* The event the thread had is deleted.
TakeUnpopped(t) ==
  /\ event' = [event EXCEPT ![t] = Head(queue)]
  /\ Goes(t, "process")
  /\ UNCHANGED <<running, queue, stopping, times>>
Take(t) ==
  /\ event' = [event EXCEPT ![t] = Head(queue)]
  /\ queue' = Tail(queue)
  /\ Goes(t, "process")
  /\ UNCHANGED <<running, stopping, times>>

IdleEnds(t) ==
  /\ Goes(t, IF event[t] = None THEN "done" ELSE "process")
  /\ UNCHANGED <<running, queue, event, stopping, times>>
\* Without a new event the thread processes the one it has, if any.
Idle(t) ==
  /\ Goes(t, IF event[t] = None THEN "check" ELSE "process")
  /\ UNCHANGED <<running, queue, event, stopping, times>>

Lock(t) ==
  /\ pc[t] = "lock"
  /\ IF queue # <<>> THEN Take(t)
     ELSE Goes(t, "wait") /\ UNCHANGED <<running, queue, event, stopping, times>>

\* A notification, the timeout, or neither.
Wake(t) ==
  /\ pc[t] = "wait"
  /\ IF running /\ queue # <<>> THEN Take(t) ELSE Idle(t)

\* The handler returns.
Process(t) ==
  /\ pc[t] = "process"
  /\ times' = [times EXCEPT ![event[t]] = IF @ = 0 THEN 1 ELSE 2]
  /\ event' = IF event[t] \in Kept THEN event ELSE [event EXCEPT ![t] = None]
  /\ Goes(t, "check")
  /\ UNCHANGED <<running, queue, stopping>>

Run(t) == Check(t) \/ Lock(t) \/ Wake(t) \/ Process(t)

QueueNext ==
  \/ Start \/ Stop \/ Joined
  \/ \E e \in Event : Emplace(e)
  \/ \E t \in Thread : Run(t)

\* The threads are scheduled, the handler returns, and so does stop once the
\* threads have joined; nobody needs to start, stop or emplace.
Fairness == WF_queueVars(Joined) /\ \A t \in Thread : WF_queueVars(Run(t))

QueueSpec == QueueInit /\ [][QueueNext]_queueVars /\ Fairness

-----------------------------------------------------------------------------
(* Properties.                                                             *)

\* The events that have been taken and not been processed.
Working == {e \in Event : times[e] = 0 /\ \E t \in Thread : event[t] = e}

\* The pool keeps the promises of EventPool: events are taken in order, none is
\* lost when a thread is woken up late or the pool is stopped, and none is
\* processed twice, but for those the handler leaves with the thread.
Pool == INSTANCE EventPool WITH waiting <- queue, working <- Working

PoolSpec == Pool!Spec

\* Once stop has returned nothing is processed any more.
StoppedIsQuiet == [][~running /\ ~stopping => times' = times]_queueVars

\* While the pool goes on running every event is processed, also one emplaced
\* before the start or left in the queue by a stop.
AllProcessed ==
  <>[]running =>
    \A e \in Event : [](Emplaced(e) => <>(times[e] > 0))

\* stop returns, whatever the threads are doing when it is called.
StopReturns == stopping ~> ~stopping
=============================================================================
