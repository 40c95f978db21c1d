--------------------- MODULE QueueThread_MacroMode_proofs ---------------------
(***************************************************************************)
(* Two components that share no state and whose proofs are short.          *)
(*                                                                         *)
(* QueueThread, for every set of threads and events: the types, that an    *)
(* event is in one place, that nothing is processed once stop has          *)
(* returned, and that the pool implements EventPool.                       *)
(*                                                                         *)
(* MacroMode, for every set of names, every set of commands and every      *)
(* stack depth: the types, the discipline of the playback flag, and that   *)
(* what is recorded is what the user typed.                                *)
(***************************************************************************)
EXTENDS QueueThread, MacroMode, SequenceTheorems, TLAPS

-----------------------------------------------------------------------------
(* QueueThread: the inductive invariant.                                   *)

Waits(e) == \E i \in DOMAIN queue : queue[i] = e

Has(t, e) == event[t] = e

\* An event is in the queue once, and nowhere else then.
OncePlace ==
  /\ \A i, j \in DOMAIN queue : queue[i] = queue[j] => i = j
  /\ \A e \in Event : Waits(e) => times[e] = 0 /\ \A t \in Thread : ~Has(t, e)

\* An event is with one thread, and only a kept one stays with it.
OneThread ==
  /\ \A e \in Event, t, u \in Thread : Has(t, e) /\ Has(u, e) => t = u
  /\ \A e \in Event, t \in Thread : Has(t, e) /\ times[e] > 0 => e \in Kept

\* What a thread has outside the handler it has processed already, and a
\* thread that has ended, or was not started, has nothing.
Processed ==
  \A t \in Thread :
    /\ pc[t] # "process" /\ event[t] # None => times[event[t]] > 0
    /\ pc[t] \in {"none", "done"} => event[t] = None

\* Between a stop and the next start there are no threads.
NoThreads ==
  /\ ~(running /\ stopping)
  /\ ~running /\ ~stopping => \A t \in Thread : pc[t] = "none"

PoolInv ==
  /\ QueueTypeOK
  /\ OncePlace
  /\ OneThread
  /\ Processed
  /\ NoThreads

-----------------------------------------------------------------------------
(* The queue.                                                              *)

\* Appending an event puts it behind the ones that wait.
LEMMA AppendQueue ==
  ASSUME NEW q \in Seq(Event), NEW e \in Event
  PROVE  /\ Append(q, e) \in Seq(Event)
         /\ DOMAIN q = 1..Len(q) /\ Len(q) \in Nat
         /\ DOMAIN Append(q, e) = 1..(Len(q) + 1)
         /\ \A i \in 1..Len(q) : Append(q, e)[i] = q[i]
         /\ Append(q, e)[Len(q) + 1] = e
OBVIOUS

\* Taking the head out moves the others up by one.
LEMMA TailQueue ==
  ASSUME NEW q \in Seq(Event), q # <<>>
  PROVE  /\ Tail(q) \in Seq(Event)
         /\ Head(q) = q[1] /\ Head(q) \in Event
         /\ DOMAIN q = 1..Len(q) /\ Len(q) \in Nat \ {0}
         /\ DOMAIN Tail(q) = 1..(Len(q) - 1)
         /\ \A i \in 1..(Len(q) - 1) : Tail(q)[i] = q[i + 1]
OBVIOUS

-----------------------------------------------------------------------------
(* The inductive invariant.                                                *)

\* Nothing is anywhere before the first event.
LEMMA InitPoolInv == QueueInit => PoolInv
<1> SUFFICES ASSUME QueueInit PROVE PoolInv
  OBVIOUS
<1>1. QueueTypeOK
  <2>1. queue \in Seq(Event) /\ times \in [Event -> 0..2]
    BY DEF QueueInit
  <2>2. pc \in [Thread -> PC] /\ event \in [Thread -> Event \cup {None}]
    BY DEF QueueInit, PC
  <2>3. QED
    BY <2>1, <2>2 DEF QueueInit, QueueTypeOK
<1>2. OncePlace
  BY DEF QueueInit, OncePlace, Waits
<1>3. OneThread
  BY EventAssumption DEF QueueInit, OneThread, Has
<1>4. Processed /\ NoThreads
  BY DEF QueueInit, Processed, NoThreads
<1>5. QED
  BY <1>1, <1>2, <1>3, <1>4 DEF PoolInv

\* An event that was emplaced for the first time is behind all others.
LEMMA EmplaceStep ==
  ASSUME PoolInv, NEW e \in Event, Emplace(e)
  PROVE  PoolInv'
<1> USE DEF PoolInv
<1>1. /\ queue' = Append(queue, e)
      /\ UNCHANGED <<running, pc, event, stopping, times>>
  BY DEF Emplace
<1>2. QueueTypeOK'
  BY <1>1, AppendQueue DEF QueueTypeOK
<1>3. OncePlace'
  <2>1. ~Waits(e) /\ times[e] = 0 /\ \A t \in Thread : ~Has(t, e)
    BY DEF Emplace, Emplaced, Waits, Has, QueueTypeOK
  <2>2. queue \in Seq(Event)
    BY DEF QueueTypeOK
  <2>3. \A i, j \in DOMAIN queue' : queue'[i] = queue'[j] => i = j
    BY <1>1, <2>1, <2>2, AppendQueue DEF OncePlace, Waits
  <2>4. \A f \in Event : Waits(f)' => Waits(f) \/ f = e
    BY <1>1, <2>2, AppendQueue DEF Waits
  <2>5. QED
    BY <1>1, <2>1, <2>3, <2>4 DEF OncePlace, Has
<1>4. OneThread' /\ Processed' /\ NoThreads'
  BY <1>1 DEF OneThread, Has, Processed, NoThreads
<1>5. QED
  BY <1>2, <1>3, <1>4

\* start finds no threads, and the new ones have no event.
LEMMA StartStep ==
  ASSUME PoolInv, Start
  PROVE  PoolInv'
<1> USE DEF PoolInv
<1>1. QueueTypeOK'
  BY DEF Start, QueueTypeOK, PC
<1>2. OncePlace' /\ OneThread'
  BY EventAssumption DEF Start, OncePlace, OneThread, Waits, Has
<1>3. Processed' /\ NoThreads'
  BY DEF Start, Processed, NoThreads
<1>4. QED
  BY <1>1, <1>2, <1>3

\* stop only sets flags.
LEMMA StopStep ==
  ASSUME PoolInv, Stop
  PROVE  PoolInv'
<1> USE DEF PoolInv
<1>1. QueueTypeOK'
  BY DEF Stop, QueueTypeOK
<1>2. OncePlace' /\ OneThread' /\ Processed' /\ NoThreads'
  BY DEF Stop, OncePlace, OneThread, Waits, Has, Processed, NoThreads
<1>3. QED
  BY <1>1, <1>2

\* Threads that have joined are gone, without an event.
LEMMA JoinedStep ==
  ASSUME PoolInv, Joined
  PROVE  PoolInv'
<1> USE DEF PoolInv
<1>1. QueueTypeOK'
  BY DEF Joined, QueueTypeOK, PC
<1>2. OncePlace' /\ OneThread'
  BY DEF Joined, OncePlace, OneThread, Waits, Has
<1>3. Processed' /\ NoThreads'
  BY DEF Joined, Processed, NoThreads
<1>4. QED
  BY <1>1, <1>2, <1>3

\* A thread is somewhere, so that stop has not returned.
LEMMA ThreadRuns ==
  ASSUME PoolInv, NEW t \in Thread, pc[t] # "none",
         UNCHANGED <<running, stopping>>
  PROVE  NoThreads'
BY DEF PoolInv, NoThreads

\* A thread that goes on looks for events, one that ends has none.
LEMMA CheckStep ==
  ASSUME PoolInv, NEW t \in Thread, Check(t)
  PROVE  PoolInv'
<1> USE DEF PoolInv
<1>1. QueueTypeOK'
  BY DEF Check, Goes, QueueTypeOK, PC
<1>2. OncePlace' /\ OneThread'
  BY EventAssumption
     DEF Check, Goes, OncePlace, OneThread, Waits, Has, QueueTypeOK
<1>3. Processed'
  BY DEF Check, Goes, Processed, QueueTypeOK, PC
<1>4. NoThreads'
  BY ThreadRuns DEF Check
<1>5. QED
  BY <1>1, <1>2, <1>3, <1>4

\* The event taken was in the queue, and so nowhere else.
LEMMA TakeStep ==
  ASSUME PoolInv, NEW t \in Thread, pc[t] \in {"lock", "wait"},
         queue # <<>>, Take(t)
  PROVE  PoolInv'
<1> USE DEF PoolInv
<1> DEFINE e == Head(queue)
<1>1. /\ event' = [event EXCEPT ![t] = e]
      /\ queue' = Tail(queue)
      /\ pc' = [pc EXCEPT ![t] = "process"]
      /\ UNCHANGED <<running, stopping, times>>
  BY DEF Take, Goes
<1>2. /\ e \in Event /\ queue \in Seq(Event) /\ queue[1] = e
      /\ 1 \in DOMAIN queue
  BY TailQueue DEF QueueTypeOK
<1>3. times[e] = 0 /\ \A u \in Thread : ~Has(u, e)
  BY <1>2 DEF OncePlace, Waits
<1>4. e # None
  BY <1>2, EventAssumption
<1> HIDE DEF e
<1>5. QueueTypeOK'
  BY <1>1, <1>2, <1>4, TailQueue DEF QueueTypeOK, PC
<1>6. OncePlace'
  <2>1. \A i, j \in DOMAIN queue' : queue'[i] = queue'[j] => i = j
    BY <1>1, <1>2, TailQueue DEF OncePlace
  <2>2. \A f \in Event : Waits(f)' => Waits(f) /\ f # e
    BY <1>1, <1>2, TailQueue DEF OncePlace, Waits
  <2>3. QED
    BY <1>1, <2>1, <2>2 DEF OncePlace, Has, QueueTypeOK
<1>7. OneThread'
  BY <1>1, <1>2, <1>3 DEF OneThread, Has, QueueTypeOK
<1>8. Processed'
  BY <1>1 DEF Processed, QueueTypeOK
<1>9. NoThreads'
  BY <1>1, ThreadRuns
<1>10. QED
  BY <1>5, <1>6, <1>7, <1>8, <1>9

\* A thread that finds no event goes on with the one it has.
LEMMA IdleStep ==
  ASSUME PoolInv, NEW t \in Thread, pc[t] = "wait", Idle(t)
  PROVE  PoolInv'
<1> USE DEF PoolInv
<1>1. /\ pc' = [pc EXCEPT ![t] = IF event[t] = None THEN "check" ELSE "process"]
      /\ UNCHANGED <<running, queue, event, stopping, times>>
  BY DEF Idle, Goes
<1>2. QueueTypeOK'
  BY <1>1 DEF QueueTypeOK, PC
<1>3. OncePlace' /\ OneThread'
  BY <1>1 DEF OncePlace, OneThread, Waits, Has
<1>4. Processed'
  BY <1>1 DEF Processed, QueueTypeOK
<1>5. NoThreads'
  BY <1>1, ThreadRuns
<1>6. QED
  BY <1>2, <1>3, <1>4, <1>5

\* A thread that finds the queue empty waits.
LEMMA LockStep ==
  ASSUME PoolInv, NEW t \in Thread, Lock(t)
  PROVE  PoolInv'
<1>1. CASE queue # <<>>
  BY <1>1, TakeStep DEF Lock
<1>2. CASE queue = <<>>
  <2> USE DEF PoolInv
  <2>1. /\ pc[t] = "lock" /\ pc' = [pc EXCEPT ![t] = "wait"]
        /\ UNCHANGED <<running, queue, event, stopping, times>>
    BY <1>2 DEF Lock, Goes
  <2>2. QueueTypeOK'
    BY <2>1 DEF QueueTypeOK, PC
  <2>3. OncePlace' /\ OneThread'
    BY <2>1 DEF OncePlace, OneThread, Waits, Has
  <2>4. Processed'
    BY <2>1 DEF Processed, QueueTypeOK
  <2>5. NoThreads'
    BY <2>1, ThreadRuns
  <2>6. QED
    BY <2>2, <2>3, <2>4, <2>5
<1>3. QED
  BY <1>1, <1>2

\* A thread that is woken up takes an event, or goes on without.
LEMMA WakeStep ==
  ASSUME PoolInv, NEW t \in Thread, Wake(t)
  PROVE  PoolInv'
BY TakeStep, IdleStep DEF Wake

\* An event that was processed is gone, or kept.
LEMMA ProcessStep ==
  ASSUME PoolInv, NEW t \in Thread, Process(t)
  PROVE  PoolInv'
<1> USE DEF PoolInv
<1>0. event[t] \in Event
  BY DEF Process, QueueTypeOK
<1> SUFFICES ASSUME NEW e \in Event, e = event[t] PROVE PoolInv'
  BY <1>0
<1>1. /\ pc[t] = "process" /\ pc' = [pc EXCEPT ![t] = "check"]
      /\ times' = [times EXCEPT ![e] = IF @ = 0 THEN 1 ELSE 2]
      /\ event' = IF e \in Kept THEN event ELSE [event EXCEPT ![t] = None]
      /\ UNCHANGED <<running, queue, stopping>>
  BY DEF Process, Goes
<1>2. Has(t, e)
  BY DEF Has
<1>3. times'[e] > 0 /\ \A f \in Event \ {e} : times'[f] = times[f]
  BY <1>1, <1>2 DEF QueueTypeOK
<1>4. \A u \in Thread, f \in Event : Has(u, f)' => Has(u, f)
  BY <1>1, EventAssumption DEF Has, QueueTypeOK
<1>5. QueueTypeOK'
  BY <1>1, <1>2 DEF QueueTypeOK, PC
<1>6. OncePlace'
  <2>1. ~Waits(e)
    BY <1>2 DEF OncePlace
  <2>2. QED
    BY <1>1, <1>3, <1>4, <2>1 DEF OncePlace, Waits
<1>7. OneThread'
  <2>1. ASSUME NEW u \in Thread, Has(u, e)', e \notin Kept PROVE FALSE
    <3>1. u = t
      BY <1>2, <1>4, <2>1 DEF OneThread
    <3>2. event'[t] = None
      BY <1>1, <2>1 DEF QueueTypeOK
    <3>3. QED
      BY <1>2, <2>1, <3>1, <3>2, EventAssumption DEF Has
  <2>2. \A f \in Event, u, v \in Thread : Has(u, f)' /\ Has(v, f)' => u = v
    BY <1>4 DEF OneThread
  <2>3. ASSUME NEW f \in Event, NEW u \in Thread, Has(u, f)', times'[f] > 0
        PROVE  f \in Kept
    <3>1. CASE f = e
      BY <2>1, <2>3, <3>1
    <3>2. CASE f # e
      BY <1>3, <1>4, <2>3, <3>2 DEF OneThread
    <3>3. QED
      BY <3>1, <3>2
  <2>4. QED
    BY <2>2, <2>3 DEF OneThread
<1>8. Processed'
  <2>1. \A u \in Thread : event'[u] # None /\ u # t => event'[u] = event[u] /\ event[u] # e
    BY <1>1, <1>2 DEF QueueTypeOK, OneThread, Has
  <2>2. event'[t] # None => event'[t] = e
    BY <1>1 DEF QueueTypeOK
  <2>3. \A u \in Thread : u # t => pc'[u] = pc[u]
    BY <1>1 DEF QueueTypeOK
  <2>4. \A u \in Thread : pc'[u] # "process" /\ event'[u] # None => times'[event'[u]] > 0
    BY <1>3, <2>1, <2>2, <2>3 DEF Processed, QueueTypeOK
  <2>5. \A u \in Thread : pc'[u] \in {"none", "done"} => event'[u] = None
    BY <1>1, <2>3 DEF Processed, QueueTypeOK
  <2>6. QED
    BY <2>4, <2>5 DEF Processed
<1>9. NoThreads'
  BY <1>1, ThreadRuns
<1>10. QED
  BY <1>5, <1>6, <1>7, <1>8, <1>9

\* Steps that change nothing.
LEMMA StutterStep ==
  ASSUME PoolInv, UNCHANGED queueVars
  PROVE  PoolInv'
BY DEF queueVars, PoolInv, QueueTypeOK, OncePlace, OneThread, Processed, NoThreads, Waits, Has

\* The inductive invariant holds in every state.
THEOREM InductivePool == QueueSpec => []PoolInv
<1>1. PoolInv /\ [QueueNext]_queueVars => PoolInv'
  <2> SUFFICES ASSUME PoolInv, [QueueNext]_queueVars PROVE PoolInv'
    OBVIOUS
  <2>1. ASSUME NEW t \in Thread, Run(t) PROVE PoolInv'
    BY <2>1, CheckStep, LockStep, WakeStep, ProcessStep DEF Run
  <2>2. QED
    BY <2>1, EmplaceStep, StartStep, StopStep, JoinedStep, StutterStep DEF QueueNext
<1>2. QED
  BY InitPoolInv, <1>1, PTL DEF QueueSpec

\* The flags, the queue and the threads are of their types, and a thread calls
\* the handler only with an event.
THEOREM QueueTypeCorrect == QueueSpec => []QueueTypeOK
<1>1. PoolInv => QueueTypeOK
  BY DEF PoolInv
<1>2. QED
  BY InductivePool, <1>1, PTL

-----------------------------------------------------------------------------
(* stop, and what the pool promises.                                       *)

\* Once stop has returned nothing is processed any more: there is no thread.
THEOREM Quiet == QueueSpec => StoppedIsQuiet
<1>1. PoolInv /\ [QueueNext]_queueVars => [~running /\ ~stopping => times' = times]_queueVars
  <2> SUFFICES ASSUME PoolInv, QueueNext, ~running, ~stopping PROVE times' = times
    BY DEF queueVars
  <2>1. \A t \in Thread : pc[t] = "none"
    BY DEF PoolInv, NoThreads
  <2>2. ASSUME NEW t \in Thread, Run(t) PROVE FALSE
    BY <2>1, <2>2 DEF Run, Check, Lock, Wake, Process
  <2>3. QED
    BY <2>2 DEF QueueNext, Start, Stop, Joined, Emplace
<1>2. QED
  BY InductivePool, <1>1, PTL DEF QueueSpec, StoppedIsQuiet

\* Before the first event nothing waits and nothing is worked on.
LEMMA InitPool == QueueInit => Pool!Init
BY EventAssumption DEF QueueInit, Pool!Init, Working

\* Taking an event out of the queue is taking it in the abstract pool: what
\* the thread had before it has processed.
LEMMA TakePool ==
  ASSUME PoolInv, NEW t \in Thread, pc[t] \in {"lock", "wait"},
         queue # <<>>, Take(t)
  PROVE  Pool!Take
<1> DEFINE e == Head(queue)
<1>1. /\ event' = [event EXCEPT ![t] = e]
      /\ queue' = Tail(queue) /\ UNCHANGED times
  BY DEF Take
<1>2. e \in Event /\ times[e] = 0
  BY TailQueue DEF PoolInv, QueueTypeOK, OncePlace, Waits
<1>3. \A f \in Event : event[t] = f => times[f] > 0
  BY EventAssumption DEF PoolInv, Processed
<1> HIDE DEF e
<1>4. \A f \in Event : f \in Working' <=> f \in Working \/ f = e
  BY <1>1, <1>2, <1>3 DEF Working, PoolInv, QueueTypeOK
<1>5. Working' = Working \cup {e}
  BY <1>2, <1>4 DEF Working
<1>6. QED
  BY <1>1, <1>5 DEF Pool!Take, e

\* The first time an event is processed the abstract pool finishes it, later
\* times it is processed again, which only happens to a kept one.
LEMMA ProcessPool ==
  ASSUME PoolInv, NEW t \in Thread, Process(t)
  PROVE  \E e \in Event : Pool!Finish(e) \/ Pool!Again(e)
<1> DEFINE e == event[t]
<1>1. /\ times' = [times EXCEPT ![e] = IF @ = 0 THEN 1 ELSE 2]
      /\ event' = IF e \in Kept THEN event ELSE [event EXCEPT ![t] = None]
      /\ queue' = queue
  BY DEF Process
<1>2. e \in Event
  BY DEF Process, PoolInv, QueueTypeOK
<1>3. \A u \in Thread, f \in Event : f # e => (event'[u] = f <=> event[u] = f)
  BY <1>1, EventAssumption DEF PoolInv, QueueTypeOK
<1>4. \A f \in Event : f # e => times'[f] = times[f]
  BY <1>1 DEF PoolInv, QueueTypeOK
<1>5. CASE times[e] = 0
  <2>1. times' = [times EXCEPT ![e] = 1]
    BY <1>1, <1>5
  <2>2. e \in Working
    BY <1>2, <1>5 DEF Working
  <2>3. \A f \in Event : f \in Working' <=> f \in Working /\ f # e
    BY <1>2, <1>3, <1>4, <2>1 DEF Working, PoolInv, QueueTypeOK
  <2>4. Working' = Working \ {e}
    BY <2>3 DEF Working
  <2>5. QED
    BY <1>1, <1>2, <2>1, <2>2, <2>4 DEF Pool!Finish
<1>6. CASE times[e] # 0
  <2>1. times[e] > 0 /\ times' = [times EXCEPT ![e] = 2]
    BY <1>1, <1>2, <1>6 DEF PoolInv, QueueTypeOK
  <2>2. e \in Kept
    BY <1>2, <2>1 DEF PoolInv, OneThread, Has
  <2>3. \A f \in Event : f \in Working' <=> f \in Working
    BY <1>2, <1>3, <1>4, <2>1 DEF Working, PoolInv, QueueTypeOK
  <2>4. Working' = Working
    BY <2>3 DEF Working
  <2>5. QED
    BY <1>1, <1>2, <2>1, <2>2, <2>4 DEF Pool!Again
<1>7. QED
  BY <1>5, <1>6

\* Every step of the pool of threads is one of the abstract pool, or none.
LEMMA StepPool ==
  ASSUME PoolInv, [QueueNext]_queueVars
  PROVE  [Pool!Next]_(Pool!vars)
<1>1. ASSUME NEW e \in Event, Emplace(e) PROVE Pool!Put(e)
  <2>1. e \notin Working /\ times[e] = 0 /\ \A i \in DOMAIN queue : queue[i] # e
    BY <1>1 DEF Emplace, Emplaced, Working, PoolInv, QueueTypeOK
  <2>2. Working' = Working
    BY <1>1 DEF Emplace, Working
  <2>3. QED
    BY <1>1, <2>1, <2>2 DEF Emplace, Pool!Put
<1>2. CASE Start
  <2>1. Working = {}
    BY <1>2, EventAssumption DEF Start, PoolInv, NoThreads, Processed, Working
  <2>2. Working' = {}
    BY <1>2, EventAssumption DEF Start, Working
  <2>3. QED
    BY <1>2, <2>1, <2>2 DEF Start, Pool!vars
<1>3. CASE Stop \/ Joined \/ UNCHANGED queueVars
  BY <1>3 DEF Stop, Joined, queueVars, Pool!vars, Working
<1>4. ASSUME NEW t \in Thread, Check(t) PROVE UNCHANGED Pool!vars
  <2>1. \A e \in Event : event[t] = e => times[e] > 0
    BY <1>4, EventAssumption DEF Check, PoolInv, Processed
  <2>2. \A e \in Event : times[e] = 0 =>
          \A u \in Thread : event'[u] = e <=> event[u] = e
    BY <1>4, <2>1, EventAssumption DEF Check, PoolInv, QueueTypeOK
  <2>3. Working' = Working
    BY <1>4, <2>2 DEF Check, Working
  <2>4. QED
    BY <1>4, <2>3 DEF Check, Pool!vars
<1>5. ASSUME NEW t \in Thread, Lock(t) \/ Wake(t)
      PROVE  Pool!Take \/ UNCHANGED Pool!vars
  <2>1. \/ Take(t) /\ queue # <<>> /\ pc[t] \in {"lock", "wait"}
        \/ UNCHANGED <<queue, event, times>>
    BY <1>5 DEF Lock, Wake, Idle
  <2>2. UNCHANGED <<queue, event, times>> => UNCHANGED Pool!vars
    BY DEF Pool!vars, Working
  <2>3. QED
    BY <2>1, <2>2, TakePool
<1>6. QED
  BY <1>1, <1>2, <1>3, <1>4, <1>5, ProcessPool DEF QueueNext, Run, Pool!Next

\* The pool of threads keeps the promises of EventPool.
THEOREM Implements == QueueSpec => PoolSpec
BY InductivePool, InitPool, StepPool, PTL DEF QueueSpec, PoolSpec, Pool!Spec

-----------------------------------------------------------------------------
(* MacroMode: the inductive invariant.                                     *)

\* The strengthening that makes RecordedIsTyped inductive: while recording
\* there is a name to record into, and a nested playback that finished before
\* its outer one has spoiled the recording.
NamedWhileRecording == state = "RECORDING" => macro # NoName

NestedSpoils == nested /\ state = "RECORDING" => ~clean

IInv ==
  /\ TypeOK
  /\ NamedWhileRecording
  /\ FlagEnds
  /\ FlagHolds
  /\ NestedSpoils
  /\ RecordedIsTyped

-----------------------------------------------------------------------------
(* Sequences and frames.                                                   *)

\* Appending to the tail of a concatenation appends to the whole.
LEMMA AppendConcat ==
  ASSUME NEW S, NEW s \in Seq(S), NEW t \in Seq(S), NEW x \in S
  PROVE  Append(s \o t, x) = s \o Append(t, x)
OBVIOUS

\* What is below the top of a stack of frames is a stack of frames.
LEMMA BelowType ==
  ASSUME stack \in Seq(Frame), stack # <<>>
  PROVE  /\ Top \in Frame
         /\ Below \in Seq(Frame)
         /\ Top.pc \in Nat \ {0} /\ Top.left \in Nat \ {0}
         /\ Top.cmds \in Seq(Cmd)
         /\ Top.text \in Cmd \cup {Absent}
<1>1. Len(stack) \in Nat /\ Len(stack) > 0
  OBVIOUS
<1>2. Top \in Frame
  BY <1>1 DEF Top
<1>3. Below \in Seq(Frame)
  BY <1>1 DEF Below
<1>4. QED
  BY <1>2, <1>3 DEF Frame

\* A frame whose position and repeats are set is a frame.
LEMMA FrameUpdate ==
  ASSUME NEW f \in Frame, NEW p \in Nat \ {0}, NEW l \in Nat \ {0}
  PROVE  [f EXCEPT !.pc = p, !.left = l] \in Frame /\ [f EXCEPT !.pc = p] \in Frame
BY DEF Frame

\* Pushing a frame makes a nonempty stack.
LEMMA PushType ==
  ASSUME NEW s \in Seq(Frame), NEW f \in Frame
  PROVE  Append(s, f) \in Seq(Frame) /\ Append(s, f) # <<>>
<1>1. Append(s, f) \in Seq(Frame) /\ Len(Append(s, f)) = Len(s) + 1 /\ Len(s) \in Nat
  OBVIOUS
<1>2. Len(<<>>) = 0
  OBVIOUS
<1>3. Append(s, f) # <<>>
  BY <1>1, <1>2
<1>4. QED
  BY <1>1, <1>3

\* Moving on in the playback on top, to the next command, past the last one
\* or to the next repeat, keeps the stack a nonempty stack of frames.
LEMMA StackType ==
  ASSUME stack \in Seq(Frame), stack # <<>>
  PROVE  /\ Advanced \in Seq(Frame) /\ Advanced # <<>>
         /\ Failed \in Seq(Frame) /\ Failed # <<>>
         /\ Top.left > 1 =>
              LET again == Append(Below, [Top EXCEPT !.pc = 1, !.left = @ - 1])
              IN  again \in Seq(Frame) /\ again # <<>>
<1>1. /\ Top \in Frame /\ Below \in Seq(Frame)
      /\ Top.pc \in Nat \ {0} /\ Top.left \in Nat \ {0} /\ Top.cmds \in Seq(Cmd)
  BY BelowType
<1>2. [Top EXCEPT !.pc = @ + 1] \in Frame
  <2>1. Top.pc + 1 \in Nat \ {0}
    BY <1>1
  <2>2. QED
    BY <1>1, <2>1, FrameUpdate
<1>3. [Top EXCEPT !.pc = Len(Top.cmds) + 1, !.left = 1] \in Frame
  <2>1. Len(Top.cmds) + 1 \in Nat \ {0} /\ 1 \in Nat \ {0}
    BY <1>1
  <2>2. QED
    BY <1>1, <2>1, FrameUpdate
<1>4. Top.left > 1 => [Top EXCEPT !.pc = 1, !.left = @ - 1] \in Frame
  <2>1. 1 \in Nat \ {0} /\ (Top.left > 1 => Top.left - 1 \in Nat \ {0})
    BY <1>1
  <2>2. QED
    BY <1>1, <2>1, FrameUpdate
<1>5. Advanced \in Seq(Frame) /\ Advanced # <<>>
  BY <1>1, <1>2, PushType DEF Advanced
<1>6. Failed \in Seq(Frame) /\ Failed # <<>>
  BY <1>1, <1>3, PushType DEF Failed
<1>7. QED
  BY <1>1, <1>4, <1>5, <1>6, PushType

\* A command comes from Typed or from the playback on top: it is a command.
LEMMA IssuedType ==
  ASSUME stack \in Seq(Frame)
  PROVE  Issued \subseteq Cmd
<1>1. CASE AtKeyboard
  BY <1>1, CommandsAssumption DEF Issued
<1>2. CASE ~AtKeyboard
  <2>1. Top.pc \in Nat \ {0} /\ Top.cmds \in Seq(Cmd)
    BY <1>2, BelowType DEF AtKeyboard
  <2>2. QED
    BY <1>2, <2>1 DEF Issued, Upcoming
<1>3. QED
  BY <1>1, <1>2

\* Going on with the next command leaves a stack of the same kind.
LEMMA ContinueType ==
  ASSUME stack \in Seq(Frame), Continue
  PROVE  stack' \in Seq(Frame) /\ (stack' = <<>> <=> stack = <<>>)
BY StackType DEF Continue, AtKeyboard

\* Recording one command keeps the types.
LEMMA RecordedType ==
  ASSUME NEW ms \in [Name -> Seq(Cmd) \cup {Absent}], NEW us \in SUBSET Name,
         NEW pb \in BOOLEAN, NEW c \in Cmd, macro \in Name \cup {NoName}
  PROVE  /\ Recorded(ms, pb, c) \in [Name -> Seq(Cmd) \cup {Absent}]
         /\ RecordedUnsaved(us, pb) \in SUBSET Name
<1>1. Recording => macro \in Name
  BY DEF Recording
<1>2. Recording => Append(Contents(ms[macro]), c) \in Seq(Cmd)
  BY <1>1 DEF Contents
<1>3. QED
  BY <1>1, <1>2 DEF Recorded, RecordedUnsaved, Records

-----------------------------------------------------------------------------
(* Type correctness.                                                       *)

\* The initial state has the right types.
LEMMA InitType == Init => TypeOK
<1> SUFFICES ASSUME Init PROVE TypeOK
  OBVIOUS
<1>1. macros \in [Name -> Seq(Cmd) \cup {Absent}]
  BY DEF Init
<1>2. stack \in Seq(Frame) /\ base \in Seq(Cmd) /\ typed \in Seq(Cmd)
  BY DEF Init
<1>3. /\ state \in {"IDLE", "RECORDING"} /\ macro \in Name \cup {NoName}
      /\ unsaved \subseteq Name /\ stray \subseteq Name
  BY DEF Init
<1>4. playback \in BOOLEAN /\ alive \in BOOLEAN /\ clean \in BOOLEAN /\ nested \in BOOLEAN
  BY DEF Init
<1>5. QED
  BY <1>1, <1>2, <1>3, <1>4 DEF TypeOK

\* Every step keeps the types.
LEMMA NextType == TypeOK /\ [Next]_vars => TypeOK'
<1> SUFFICES ASSUME TypeOK, [Next]_vars PROVE TypeOK'
  OBVIOUS
<1> USE DEF TypeOK
<1>0. Issued \subseteq Cmd
  BY IssuedType
<1>a. ASSUME NEW c \in Cmd
      PROVE  /\ Recorded(macros, playback, c) \in [Name -> Seq(Cmd) \cup {Absent}]
             /\ RecordedUnsaved(unsaved, playback) \in SUBSET Name
             /\ TypedNow(c) => typed' \in Seq(Cmd)
  <2>1. TypedNow(c) => typed' \in Seq(Cmd)
    BY DEF TypedNow
  <2>2. QED
    BY <2>1, RecordedType
<1>1. ASSUME NEW c \in Issued, Edit(c) PROVE TypeOK'
  BY <1>0, <1>a, <1>1, ContinueType DEF Edit
<1>2. ASSUME NEW c \in Issued, EditFails(c) PROVE TypeOK'
  BY <1>2, StackType DEF EditFails, AtKeyboard, history
<1>3. ASSUME NEW c \in Issued, NEW t \in Texts, Yank(c, t) PROVE TypeOK'
  <2>1. c \in Cmd /\ t \in Cmd /\ <<t>> \in Seq(Cmd)
    BY <1>0, CommandsAssumption
  <2>2. [macros EXCEPT ![Fold[c.arg]] = <<t>>] \in [Name -> Seq(Cmd) \cup {Absent}]
    BY <2>1
  <2>3. Saved(Fold[c.arg]) \in SUBSET Name
    BY DEF Saved
  <2>4. macros' \in [Name -> Seq(Cmd) \cup {Absent}] /\ unsaved' \in SUBSET Name
    BY <1>3, <2>1, <2>2, <2>3, RecordedType DEF Yank
  <2>5. stack' \in Seq(Frame) /\ typed' \in Seq(Cmd)
    BY <1>3, <1>a, <2>1, ContinueType DEF Yank
  <2>6. clean' \in BOOLEAN /\ stray' \subseteq Name
    BY <1>3 DEF Yank
  <2>7. QED
    BY <1>3, <2>4, <2>5, <2>6 DEF Yank
<1>4. ASSUME NEW c \in Issued, StartRecording(c) PROVE TypeOK'
  <2>1. c.arg \in Name
    BY <1>0, <1>4 DEF StartRecording, Cmd
  <2>2. macro' \in Name
    BY <1>4, <2>1, NamesAssumption DEF StartRecording
  <2>3. macros' \in [Name -> Seq(Cmd) \cup {Absent}]
    <3>1. <<>> \in Seq(Cmd)
      OBVIOUS
    <3>2. QED
      BY <1>4, <2>1, <3>1 DEF StartRecording
  <2>4. base' \in Seq(Cmd) /\ typed' \in Seq(Cmd)
    BY <1>4, <2>2, <2>3 DEF StartRecording, Contents
  <2>5. QED
    BY <1>4, <2>1, <2>2, <2>3, <2>4, ContinueType DEF StartRecording
<1>5. ASSUME NEW c \in Issued, NothingToRecord(c) PROVE TypeOK'
  BY <1>5, StackType DEF NothingToRecord, AtKeyboard, history
<1>6. ASSUME NEW c \in Issued, StopRecording(c) PROVE TypeOK'
  <2>1. Stopped(c) \in Name \cup {NoName}
    BY <1>0 DEF Stopped, Cmd
  <2>2. macros' \in [Name -> Seq(Cmd) \cup {Absent}]
    <3>1. \A e \in Seq(Cmd) \cup {Absent} : Contents(e) \in Seq(Cmd)
      BY DEF Contents
    <3>2. CASE Found(Stopped(c))
      BY <1>6, <2>1, <3>1, <3>2 DEF StopRecording, Found
    <3>3. CASE ~Found(Stopped(c))
      BY <1>6, <2>1, <3>3 DEF StopRecording
    <3>4. QED
      BY <3>2, <3>3
  <2>3. unsaved' \subseteq Name /\ macro' \in Name \cup {NoName}
    BY <1>6, <2>1 DEF StopRecording, Saved
  <2>4. stray' \subseteq Name
    BY <1>6, <2>1 DEF StopRecording, Found
  <2>5. QED
    BY <1>6, <2>2, <2>3, <2>4, ContinueType DEF StopRecording
<1>b. ASSUME NEW n \in Name, macros[n] # Absent, NEW c \in Cmd,
             NEW text \in Cmd \cup {Absent}, NEW s \in Seq(Frame),
             Push(n, c, text, s)
      PROVE  /\ stack' \in Seq(Frame) /\ playback' \in BOOLEAN
             /\ macro' \in Name \cup {NoName} /\ alive' \in BOOLEAN
  <2>1. [name |-> n, cmds |-> macros[n], pc |-> 1, left |-> c.cnt,
         text |-> text] \in Frame
    <3>1. macros[n] \in Seq(Cmd)
      BY <1>b
    <3>2. c.cnt \in Nat \ {0} /\ 1 \in Nat \ {0}
      BY CommandsAssumption DEF Cmd
    <3>3. QED
      BY <3>1, <3>2 DEF Frame
  <2>2. Len(stack) < MaxDepth => stack' \in Seq(Frame)
    BY <1>b, <2>1, PushType DEF Push
  <2>3. QED
    BY <1>b, <2>2 DEF Push
<1>7. ASSUME NEW c \in Issued, Play(c) PROVE TypeOK'
  <2>1. Target(c) \in Name /\ macros[Target(c)] # Absent
    BY <1>0, <1>7 DEF Play, Playable, Target, Cmd
  <2>2. c \in Cmd
    BY <1>0
  <2>3. (IF AtKeyboard THEN stack ELSE Advanced) \in Seq(Frame)
    BY StackType DEF AtKeyboard
  <2>4. QED
    BY <1>7, <1>b, <2>1, <2>2, <2>3 DEF Play, history
<1>8. ASSUME NEW c \in Issued, PlayNothing(c) PROVE TypeOK'
  BY <1>0, <1>a, <1>8, ContinueType DEF PlayNothing
<1>9. ASSUME NEW n \in Long, PlayFromDialog(n) PROVE TypeOK'
  <2>1. n \in Name
    BY NamesAssumption
  <2>2. [op |-> "play", arg |-> n, cnt |-> 1] \in Cmd
    BY <2>1, CommandsAssumption DEF Cmd
  <2>3. QED
    BY <1>9, <1>b, <2>1, <2>2 DEF PlayFromDialog, history
<1>10. CASE PlayAgain
  BY <1>10, StackType DEF PlayAgain, history
<1>11. CASE PlayedBack
  <2>1. /\ Top.text \in Cmd \cup {Absent}
        /\ Below \in Seq(Frame)
    BY <1>11, BelowType DEF PlayedBack
  <2>2. Top.text # Absent =>
          /\ Recorded(macros, FALSE, Top.text) \in [Name -> Seq(Cmd) \cup {Absent}]
          /\ RecordedUnsaved(unsaved, FALSE) \in SUBSET Name
    BY <2>1, RecordedType
  <2>3. typed' \in Seq(Cmd)
    <3>1. \/ typed' = typed
          \/ Top.text # Absent /\ typed' = Append(typed, Top.text)
      BY <1>11, Zenon DEF PlayedBack
    <3>2. typed \in Seq(Cmd)
      OBVIOUS
    <3>3. \A x \in Cmd : Append(typed, x) \in Seq(Cmd)
      BY <3>2
    <3>4. Top.text # Absent => Top.text \in Cmd
      BY <2>1
    <3>5. QED
      BY <3>1, <3>2, <3>3, <3>4
  <2>4. clean' \in BOOLEAN /\ nested' \in BOOLEAN /\ playback' \in BOOLEAN
    BY <1>11 DEF PlayedBack
  <2>5. macros' \in [Name -> Seq(Cmd) \cup {Absent}] /\ unsaved' \subseteq Name
    BY <1>11, <2>2 DEF PlayedBack
  <2>6. QED
    BY <1>11, <2>1, <2>3, <2>4, <2>5 DEF PlayedBack
<1>12. CASE UNCHANGED vars
  BY <1>12 DEF vars
<1>13. QED
  BY <1>1, <1>2, <1>3, <1>4, <1>5, <1>6, <1>7, <1>8, <1>9, <1>10, <1>11,
     <1>12 DEF Next, Crashed

\* The state always has the right types (m_macros, the playback stack, ...).
THEOREM TypeCorrect == Spec => []TypeOK
BY InitType, NextType, PTL DEF Spec

-----------------------------------------------------------------------------
(* The playback flag and the contents of a recording.                      *)

\* The initial state satisfies the inductive invariant.
LEMMA InitInv == Init => IInv
<1> SUFFICES ASSUME Init PROVE IInv
  OBVIOUS
<1>1. TypeOK
  BY InitType
<1>2. NamedWhileRecording /\ NestedSpoils /\ RecordedIsTyped
  BY DEF Init, NamedWhileRecording, NestedSpoils, RecordedIsTyped, Recording
<1>3. FlagEnds /\ FlagHolds
  BY DEF Init, FlagEnds, FlagHolds
<1>4. QED
  BY <1>1, <1>2, <1>3 DEF IInv

\* The conjuncts of IInv that are about the flag and the recording, without
\* the types.
Discipline ==
  /\ NamedWhileRecording
  /\ FlagEnds
  /\ FlagHolds
  /\ NestedSpoils

\* A command that is recorded came from the keyboard, or the recording is
\* spoiled already: the flag is set in any playback no nested one has ended.
LEMMA OnlyKeyboard ==
  ASSUME IInv, Records(playback), clean
  PROVE  AtKeyboard
BY DEF IInv, FlagHolds, NestedSpoils, Records, Recording, AtKeyboard

\* Recording a command at the keyboard extends memory and history alike.
LEMMA RecordTyped ==
  ASSUME TypeOK, NEW c \in Cmd, state = "RECORDING", macro \in Name, clean,
         NEW ms \in [Name -> Seq(Cmd) \cup {Absent}],
         Contents(ms[macro]) = base \o typed
  PROVE  Contents([ms EXCEPT ![macro] = Append(Contents(@), c)][macro])
           = base \o Append(typed, c)
<1>1. Contents(ms[macro]) \in Seq(Cmd)
  BY DEF Contents
<1>2. [ms EXCEPT ![macro] = Append(Contents(@), c)][macro]
        = Append(Contents(ms[macro]), c)
  OBVIOUS
<1>3. Append(Contents(ms[macro]), c) # Absent
  <2>1. Append(Contents(ms[macro]), c) \in Seq(Cmd)
    BY <1>1
  <2>2. QED
    BY <2>1, NamesAssumption
<1>4. Append(base \o typed, c) = base \o Append(typed, c)
  BY AppendConcat DEF TypeOK
<1>5. QED
  BY <1>2, <1>3, <1>4 DEF Contents

\* Every step keeps the discipline of the flag.
LEMMA NextDiscipline == IInv /\ [Next]_vars => Discipline'
<1> SUFFICES ASSUME IInv, [Next]_vars PROVE Discipline'
  OBVIOUS
<1> USE DEF IInv, Discipline, NamedWhileRecording, FlagEnds, FlagHolds, NestedSpoils
<1>0. stack \in Seq(Frame) /\ Issued \subseteq Cmd
  BY IssuedType DEF TypeOK
<1>1. ASSUME NEW c \in Issued, Edit(c) \/ PlayNothing(c) PROVE Discipline'
  BY <1>0, <1>1, ContinueType DEF Edit, PlayNothing
<1>2. ASSUME NEW c \in Issued, EditFails(c) \/ NothingToRecord(c) PROVE Discipline'
  BY <1>0, <1>2, StackType DEF EditFails, NothingToRecord, AtKeyboard, history
<1>3. ASSUME NEW c \in Issued, NEW t \in Texts, Yank(c, t) PROVE Discipline'
  <2>1. NestedSpoils'
    BY <1>3 DEF Yank
  <2>2. QED
    BY <1>0, <1>3, <2>1, ContinueType DEF Yank
<1>4. ASSUME NEW c \in Issued, StartRecording(c) PROVE Discipline'
  <2>1. macro' # NoName
    BY <1>0, <1>4, NamesAssumption DEF StartRecording, Cmd
  <2>2. NestedSpoils'
    BY <1>4 DEF StartRecording
  <2>3. QED
    BY <1>0, <1>4, <2>1, <2>2, ContinueType DEF StartRecording
<1>5. ASSUME NEW c \in Issued, StopRecording(c) PROVE Discipline'
  BY <1>0, <1>5, ContinueType DEF StopRecording
<1>6. ASSUME NEW n, NEW c, NEW text, NEW s \in Seq(Frame),
             Push(n, c, text, s), n # NoName,
             UNCHANGED <<state, clean, nested>>
      PROVE  Discipline'
  <2>1. Len(stack) < MaxDepth => stack' # <<>>
    <3>1. \A f : Append(s, f) # <<>>
      OBVIOUS
    <3>2. QED
      BY <1>6, <3>1 DEF Push
  <2>2. QED
    BY <1>6, <2>1 DEF Push
<1>7. ASSUME NEW c \in Issued, Play(c) PROVE Discipline'
  <2>1. (IF AtKeyboard THEN stack ELSE Advanced) \in Seq(Frame)
    BY <1>0, StackType DEF AtKeyboard
  <2>2. Target(c) # NoName
    BY <1>7 DEF Play, Playable
  <2>3. QED
    BY <1>6, <1>7, <2>1, <2>2 DEF Play, history
<1>8. ASSUME NEW n \in Long, PlayFromDialog(n) PROVE Discipline'
  BY <1>0, <1>6, <1>8, NamesAssumption DEF PlayFromDialog, history
<1>9. CASE PlayAgain
  BY <1>0, <1>9, StackType DEF PlayAgain, history
<1>10. CASE PlayedBack
  <2>1. NestedSpoils'
    BY <1>10 DEF PlayedBack
  <2>2. QED
    BY <1>10, <2>1 DEF PlayedBack
<1>11. CASE UNCHANGED vars
  BY <1>11 DEF vars
<1>12. QED
  BY <1>1, <1>2, <1>3, <1>4, <1>5, <1>7, <1>8, <1>9, <1>10, <1>11
     DEF Next, Crashed

\* Every step keeps the recording equal to what was typed.
LEMMA NextRecorded == IInv /\ [Next]_vars => RecordedIsTyped'
<1> SUFFICES ASSUME IInv, [Next]_vars, Recording', clean'
             PROVE  Contents(macros'[macro']) = base' \o typed'
  BY DEF RecordedIsTyped
<1> USE DEF IInv
<1>0. Issued \subseteq Cmd /\ TypeOK /\ NamedWhileRecording
  BY IssuedType DEF TypeOK
<1>a. ASSUME UNCHANGED <<state, macro, macros, base, typed, clean>>
      PROVE  Contents(macros'[macro']) = base' \o typed'
  BY <1>a DEF RecordedIsTyped, Recording
<1>b. ASSUME NEW c \in Cmd, clean,
             NEW ms \in [Name -> Seq(Cmd) \cup {Absent}],
             state = "RECORDING" /\ macro # NoName => ms[macro] = macros[macro],
             macros' = Recorded(ms, playback, c), TypedNow(c),
             UNCHANGED <<state, macro, base>>
      PROVE  Contents(macros'[macro']) = base' \o typed'
  <2>1. /\ state = "RECORDING" /\ macro \in Name
        /\ Contents(ms[macro]) = base \o typed
    BY <1>0, <1>b DEF Recording, RecordedIsTyped, TypeOK
  <2>2. CASE Records(playback)
    <3>1. AtKeyboard
      BY <1>b, <2>2, OnlyKeyboard
    <3>2. typed' = Append(typed, c)
      BY <1>b, <2>1, <3>1 DEF TypedNow
    <3>3. macros' = [ms EXCEPT ![macro] = Append(Contents(@), c)]
      BY <1>b, <2>2 DEF Recorded
    <3>4. QED
      BY <1>0, <1>b, <2>1, <3>2, <3>3, RecordTyped
  <2>3. CASE ~Records(playback)
    <3>1. ~AtKeyboard
      BY <2>1, <2>3, <1>0, NamesAssumption
         DEF Records, Recording, FlagEnds, AtKeyboard
    <3>2. typed' = typed
      BY <1>b, <3>1 DEF TypedNow
    <3>3. macros' = ms
      BY <1>b, <2>3 DEF Recorded
    <3>4. QED
      BY <1>b, <2>1, <3>2, <3>3
  <2>4. QED
    BY <2>2, <2>3
<1>1. ASSUME NEW c \in Issued, Edit(c) \/ PlayNothing(c)
      PROVE  Contents(macros'[macro']) = base' \o typed'
  <2>1. c \in Cmd /\ clean /\ macros \in [Name -> Seq(Cmd) \cup {Absent}]
    BY <1>0, <1>1 DEF Edit, PlayNothing, TypeOK
  <2>2. /\ macros' = Recorded(macros, playback, c) /\ TypedNow(c)
        /\ UNCHANGED <<state, macro, base>>
    BY <1>1 DEF Edit, PlayNothing
  <2>3. QED
    BY <1>b, <2>1, <2>2
<1>2. ASSUME NEW c \in Issued, EditFails(c) \/ NothingToRecord(c)
      PROVE  Contents(macros'[macro']) = base' \o typed'
  BY <1>2, <1>a DEF EditFails, NothingToRecord, history
<1>3. ASSUME NEW c \in Issued, NEW t \in Texts, Yank(c, t)
      PROVE  Contents(macros'[macro']) = base' \o typed'
  <2> DEFINE ms == [macros EXCEPT ![Fold[c.arg]] = <<t>>]
  <2>1. c \in Cmd /\ clean
    BY <1>0, <1>3 DEF Yank
  <2>2. ms \in [Name -> Seq(Cmd) \cup {Absent}]
    <3>1. <<t>> \in Seq(Cmd)
      BY CommandsAssumption
    <3>2. QED
      BY <1>0, <3>1 DEF TypeOK
  <2>3. state = "RECORDING" /\ macro # NoName => ms[macro] = macros[macro]
    BY <1>0, <1>3 DEF Yank, TypeOK
  <2>4. /\ macros' = Recorded(ms, playback, c) /\ TypedNow(c)
        /\ UNCHANGED <<state, macro, base>>
    BY <1>3 DEF Yank
  <2>5. QED
    BY <1>b, <2>1, <2>2, <2>3, <2>4
<1>4. ASSUME NEW c \in Issued, StartRecording(c)
      PROVE  Contents(macros'[macro']) = base' \o typed'
  <2>1. TypeOK'
    BY NextType
  <2>2. base' = Contents(macros'[macro']) /\ typed' = <<>> /\ base' \in Seq(Cmd)
    BY <1>4, <2>1 DEF StartRecording, TypeOK
  <2>3. QED
    BY <2>2
<1>5. ASSUME NEW c \in Issued, StopRecording(c)
      PROVE  Contents(macros'[macro']) = base' \o typed'
  BY <1>5 DEF StopRecording, Recording
<1>6. ASSUME NEW n, NEW c, NEW text, NEW s, Push(n, c, text, s),
             UNCHANGED <<state, macros, history>>
      PROVE  Contents(macros'[macro']) = base' \o typed'
  <2>1. state = "RECORDING" /\ macro' = macro
    BY <1>6 DEF Push, Recording
  <2>2. QED
    BY <1>6, <1>a, <2>1 DEF history
<1>7. ASSUME NEW c \in Issued, Play(c)
      PROVE  Contents(macros'[macro']) = base' \o typed'
  BY <1>6, <1>7 DEF Play, history
<1>8. ASSUME NEW n \in Long, PlayFromDialog(n)
      PROVE  Contents(macros'[macro']) = base' \o typed'
  BY <1>6, <1>8 DEF PlayFromDialog, history
<1>9. CASE PlayAgain
  BY <1>9, <1>a DEF PlayAgain, history
<1>10. CASE PlayedBack
  <2>1. /\ clean /\ state = "RECORDING" /\ Below = <<>>
        /\ UNCHANGED <<state, macro, base>>
    BY <1>10 DEF PlayedBack, Recording
  <2>2. CASE Top.text = Absent
    BY <1>10, <2>1, <2>2, <1>a DEF PlayedBack
  <2>3. CASE Top.text # Absent
    <3>1. Top.text \in Cmd
      BY <1>10, <2>3, BelowType DEF PlayedBack, TypeOK
    <3>2. typed' = Append(typed, Top.text)
      BY <1>10, <2>1, <2>3 DEF PlayedBack
    <3>3. macro \in Name /\ Contents(macros[macro]) = base \o typed
      BY <1>0, <2>1 DEF RecordedIsTyped, Recording, NamedWhileRecording, TypeOK
    <3>4. macros' = [macros EXCEPT ![macro] = Append(Contents(@), Top.text)]
      BY <1>0, <1>10, <2>1, <2>3
         DEF PlayedBack, Recorded, Records, Recording, NamedWhileRecording
    <3>5. QED
      BY <1>0, <2>1, <3>1, <3>2, <3>3, <3>4, RecordTyped DEF TypeOK
  <2>4. QED
    BY <2>2, <2>3
<1>11. CASE UNCHANGED vars
  BY <1>11, <1>a DEF vars
<1>12. QED
  BY <1>1, <1>2, <1>3, <1>4, <1>5, <1>7, <1>8, <1>9, <1>10, <1>11
     DEF Next, Crashed

\* The inductive invariant holds in every state.
THEOREM InductiveInvariant == Spec => []IInv
<1>1. IInv /\ [Next]_vars => IInv'
  BY NextType, NextDiscipline, NextRecorded DEF IInv, Discipline
<1>2. QED
  BY InitInv, <1>1, PTL DEF Spec

\* m_playback is never left set once nothing is played back any more, so that
\* macros::record is not disabled for the rest of the session.
THEOREM FlagEndsAlways == Spec => []FlagEnds
<1>1. IInv => FlagEnds
  BY DEF IInv
<1>2. QED
  BY InductiveInvariant, <1>1, PTL

\* Without a nested playback that has ended, m_playback is set in every
\* playback, so that none of the commands it executes is recorded.
THEOREM FlagHoldsAlways == Spec => []FlagHolds
<1>1. IInv => FlagHolds
  BY DEF IInv
<1>2. QED
  BY InductiveInvariant, <1>1, PTL

\* The macro being recorded holds what the user typed.
THEOREM RecordedIsTypedAlways == Spec => []RecordedIsTyped
<1>1. IInv => RecordedIsTyped
  BY DEF IInv
<1>2. QED
  BY InductiveInvariant, <1>1, PTL

-----------------------------------------------------------------------------
(* The document.                                                           *)

\* Recording a command touches the entry of the macro being recorded only.
LEMMA RecordedOther ==
  ASSUME NEW ms \in [Name -> Seq(Cmd) \cup {Absent}], NEW us, NEW pb, NEW c,
         NEW n \in Name, ~(state = "RECORDING" /\ macro = n)
  PROVE  /\ Recorded(ms, pb, c)[n] = ms[n]
         /\ n \in RecordedUnsaved(us, pb) => n \in us
BY DEF Recorded, RecordedUnsaved, Records, Recording

\* Every step keeps the document up to date but for the exceptions.
LEMMA NextDocumented == TypeOK /\ Documented /\ [Next]_vars => Documented'
<1> SUFFICES ASSUME TypeOK, Documented, [Next]_vars,
                    NEW n \in Name, n \in unsaved',
                    ~(state' = "RECORDING" /\ macro' = n), n \notin stray'
             PROVE  macros'[n] = Absent
  <2>1. TypeOK /\ [Next]_vars => TypeOK'
    BY NextType
  <2>2. QED
    BY <2>1 DEF Documented, TypeOK
<1>0. macros \in [Name -> Seq(Cmd) \cup {Absent}] /\ Issued \subseteq Cmd
  BY IssuedType DEF TypeOK
<1>a. ASSUME UNCHANGED <<state, macro, macros, unsaved, stray>>
      PROVE  macros'[n] = Absent
  BY <1>a DEF Documented
<1>1. ASSUME NEW c \in Issued, Edit(c) \/ PlayNothing(c)
      PROVE  macros'[n] = Absent
  <2>1. ~(state = "RECORDING" /\ macro = n) /\ n \notin stray
    BY <1>1 DEF Edit, PlayNothing
  <2>2. /\ macros' = Recorded(macros, playback, c)
        /\ unsaved' = RecordedUnsaved(unsaved, playback)
    BY <1>1 DEF Edit, PlayNothing
  <2>3. macros'[n] = macros[n] /\ n \in unsaved
    BY <1>0, <2>1, <2>2, RecordedOther
  <2>4. QED
    BY <2>1, <2>3 DEF Documented
<1>2. ASSUME NEW c \in Issued, EditFails(c) \/ NothingToRecord(c)
      PROVE  macros'[n] = Absent
  BY <1>2, <1>a DEF EditFails, NothingToRecord, history
<1>3. ASSUME NEW c \in Issued, NEW t \in Texts, Yank(c, t)
      PROVE  macros'[n] = Absent
  <2> DEFINE ms == [macros EXCEPT ![Fold[c.arg]] = <<t>>]
  <2>1. ms \in [Name -> Seq(Cmd) \cup {Absent}]
    <3>1. <<t>> \in Seq(Cmd)
      BY CommandsAssumption
    <3>2. QED
      BY <1>0, <3>1
  <2>2. ~(state = "RECORDING" /\ macro = n)
    BY <1>3 DEF Yank
  <2>3. macros'[n] = ms[n] /\ n \in Saved(Fold[c.arg])
    BY <1>3, <2>1, <2>2, RecordedOther DEF Yank
  <2>4. n # Fold[c.arg] /\ n \in unsaved
    BY <2>3 DEF Saved
  <2>5. n \notin stray
    BY <1>3, <2>4 DEF Yank
  <2>6. macros[n] = Absent
    BY <2>2, <2>4, <2>5 DEF Documented
  <2>7. QED
    BY <1>0, <2>3, <2>4, <2>6
<1>4. ASSUME NEW c \in Issued, StartRecording(c)
      PROVE  macros'[n] = Absent
  <2>1. n # Fold[c.arg] /\ state = "IDLE" /\ c.arg \in Name
    BY <1>0, <1>4 DEF StartRecording, Cmd
  <2>2. n \in unsaved /\ macros'[n] = macros[n]
    BY <1>0, <1>4, <2>1, NamesAssumption DEF StartRecording
  <2>3. n \notin stray
    BY <1>4 DEF StartRecording
  <2>4. QED
    BY <2>1, <2>2, <2>3 DEF Documented
<1>5. ASSUME NEW c \in Issued, StopRecording(c)
      PROVE  macros'[n] = Absent
  <2>1. Stopped(c) \in Name \cup {NoName}
    BY <1>0 DEF Stopped, Cmd, TypeOK
  <2>2. n \in unsaved
    BY <1>5 DEF StopRecording, Saved
  <2>3. n # Stopped(c) => macro # n
    BY <1>5, NamesAssumption DEF StopRecording
  <2>4. CASE n = Stopped(c)
    BY <1>0, <1>5, <2>4, NamesAssumption DEF StopRecording, Saved
  <2>5. CASE n # Stopped(c)
    <3>1. n \notin stray /\ macros'[n] = macros[n]
      BY <1>0, <1>5, <2>1, <2>5 DEF StopRecording, Found
    <3>2. QED
      BY <2>2, <2>3, <2>5, <3>1 DEF Documented
  <2>6. QED
    BY <2>4, <2>5
<1>6. ASSUME NEW m, NEW c, NEW text, NEW s, Push(m, c, text, s),
             UNCHANGED <<state, macros, unsaved, history>>
      PROVE  macros'[n] = Absent
  <2>1. state = "RECORDING" => macro' = macro
    BY <1>6 DEF Push
  <2>2. QED
    BY <1>6, <2>1 DEF Documented, history
<1>7. ASSUME NEW c \in Issued, Play(c)
      PROVE  macros'[n] = Absent
  BY <1>6, <1>7 DEF Play, history
<1>8. ASSUME NEW m \in Long, PlayFromDialog(m)
      PROVE  macros'[n] = Absent
  BY <1>6, <1>8 DEF PlayFromDialog, history
<1>9. CASE PlayAgain
  BY <1>9, <1>a DEF PlayAgain, history
<1>10. CASE PlayedBack
  <2>1. ~(state = "RECORDING" /\ macro = n) /\ n \notin stray
    BY <1>10 DEF PlayedBack
  <2>2. \/ UNCHANGED <<macros, unsaved>>
        \/ /\ macros' = Recorded(macros, FALSE, Top.text)
           /\ unsaved' = RecordedUnsaved(unsaved, FALSE)
    BY <1>10 DEF PlayedBack
  <2>3. /\ Recorded(macros, FALSE, Top.text)[n] = macros[n]
        /\ n \in RecordedUnsaved(unsaved, FALSE) => n \in unsaved
    BY <1>0, <2>1 DEF Recorded, RecordedUnsaved, Records, Recording
  <2>4. macros'[n] = macros[n] /\ n \in unsaved
    BY <2>2, <2>3
  <2>5. QED
    BY <2>1, <2>4 DEF Documented
<1>11. CASE UNCHANGED vars
  BY <1>11, <1>a DEF vars
<1>12. QED
  BY <1>1, <1>2, <1>3, <1>4, <1>5, <1>7, <1>8, <1>9, <1>10, <1>11
     DEF Next, Crashed

\* The document is never behind for a macro or register, but for the one being
\* recorded, one whose recording was stopped under another name, or an erased one.
THEOREM DocumentedAlways == Spec => []Documented
<1>1. Init => Documented
  BY DEF Init, Documented
<1>2. QED
  BY <1>1, NextDocumented, TypeCorrect, PTL DEF Spec
===============================================================================
