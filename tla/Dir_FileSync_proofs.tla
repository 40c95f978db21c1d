-------------------------- MODULE Dir_FileSync_proofs -------------------------
(***************************************************************************)
(* Two components around the files on disk whose proofs are short.         *)
(*                                                                         *)
(* Dir, for every number of traversals and of entries: the types, that a   *)
(* second traversal starts only after one was cancelled, and that, unless  *)
(* traversals overlap, a cancelled one stops and one without an event      *)
(* handler returns the number of files that it found.                      *)
(*                                                                         *)
(* FileSync, for every set of files and texts: the types, that a text      *)
(* shown as unmodified is the one on disk, and that what the user typed is *)
(* kept, unless one of the causes of Why came in between.                  *)
(***************************************************************************)
EXTENDS Dir, FileSync, SequenceTheorems, TLAPS

-----------------------------------------------------------------------------
(* Dir: the inductive invariant.                                           *)

\* The entries a traversal has visited, and those to come, are the entries;
\* only one that was cancelled counts those it visits after that.
Counted ==
  \A w \in DOMAIN walks :
    /\ walks[w].own + walks[w].left <= MaxEntries
    /\ walks[w].late + walks[w].left <= MaxEntries
    /\ walks[w].late # 0 => walks[w].cut

\* Only the last traversal can be one the main thread is in.
SyncLast ==
  \A w \in DOMAIN walks :
    walks[w].kind = "sync" /\ walks[w].at # "done" => w = Len(walks)

\* The bound holds for the traversal about to begin.
Room == main \in Kind => Len(walks) < MaxWalks

NoneCut == \A w \in DOMAIN walks : ~walks[w].cut

\* Until a traversal is cancelled, running says whether one is active.
Uncut ==
  NoneCut =>
    /\ \A v, w \in Walking : v = w
    /\ Walking # {} => running /\ main \notin Kind

\* Until traversals overlap there is one at a time.
Single ==
  ~overlap =>
    /\ \A v, w \in Unended : v = w
    /\ main \in Kind => Unended = {}

\* A cancelled traversal that has an entry to visit, or will check, finds the
\* flag set.
Heeded ==
  ~overlap =>
    \A w \in DOMAIN walks :
      /\ walks[w].late <= 1
      /\ walks[w].at = "next" => walks[w].late = 0
      /\ walks[w].cut /\ walks[w].at \in {"next", "check", "cancel", "cancelling"}
           => cancelled

\* The statistics are those of the traversal that is not done.
OwnFiles ==
  ~overlap =>
    \A w \in DOMAIN walks :
      walks[w].kind = "sync" /\ walks[w].at # "done" => files = walks[w].own

WalksInv ==
  /\ DirTypeOK
  /\ Room
  /\ Counted
  /\ SyncLast
  /\ Uncut
  /\ Single
  /\ Heeded
  /\ OwnFiles

\* A traversal takes a step, and the others do not.
Others(w) ==
  /\ Len(walks') = Len(walks) /\ DOMAIN walks' = DOMAIN walks
  /\ \A v \in DOMAIN walks : v # w => walks'[v] = walks[v]

\* What a step that does not visit an entry leaves as it was.
SameEntries(w) ==
  /\ walks'[w].kind = walks[w].kind /\ walks'[w].left = walks[w].left
  /\ walks'[w].own = walks[w].own /\ walks'[w].late = walks[w].late

-----------------------------------------------------------------------------
(* The traversals.                                                         *)

\* Replacing a traversal leaves a sequence of traversals.
LEMMA Replaced ==
  ASSUME NEW q \in Seq(Walk), NEW w \in DOMAIN q, NEW r \in Walk
  PROVE  /\ [q EXCEPT ![w] = r] \in Seq(Walk)
         /\ Len([q EXCEPT ![w] = r]) = Len(q)
         /\ DOMAIN [q EXCEPT ![w] = r] = DOMAIN q
         /\ DOMAIN q = 1..Len(q)
         /\ [q EXCEPT ![w] = r][w] = r
         /\ \A v \in DOMAIN q : v # w => [q EXCEPT ![w] = r][v] = q[v]
OBVIOUS

\* What Goes does, field by field.
LEMMA GoesOn ==
  ASSUME walks \in Seq(Walk), NEW w \in DOMAIN walks, NEW to \in At, Goes(w, to)
  PROVE  /\ walks' \in Seq(Walk)
         /\ Others(w)
         /\ SameEntries(w)
         /\ walks'[w].at = to
         /\ walks'[w].cut = walks[w].cut
<1>1. walks[w] \in Walk
  OBVIOUS
<1> DEFINE r == [walks[w] EXCEPT !.at = to]
<1>2. /\ r \in Walk /\ r.at = to /\ r.cut = walks[w].cut /\ r.kind = walks[w].kind
      /\ r.left = walks[w].left /\ r.own = walks[w].own /\ r.late = walks[w].late
  BY <1>1 DEF Walk
<1>3. walks' = [walks EXCEPT ![w] = r]
  BY DEF Goes
<1> HIDE DEF r
<1>4. QED
  BY <1>2, <1>3, Replaced DEF Others, SameEntries

\* What Visited does, field by field.
LEMMA VisitedOn ==
  ASSUME walks \in Seq(Walk), Counted, BoundsAssumption,
         NEW w \in DOMAIN walks, walks[w].left > 0,
         NEW to \in At, NEW n \in 0..1, Visited(w, to, n)
  PROVE  /\ walks' \in Seq(Walk)
         /\ Others(w)
         /\ walks'[w].at = to
         /\ walks'[w].cut = walks[w].cut
         /\ walks'[w].kind = walks[w].kind
         /\ walks'[w].left = walks[w].left - 1
         /\ walks'[w].own = walks[w].own + n
         /\ walks'[w].late = IF walks[w].cut THEN walks[w].late + 1 ELSE walks[w].late
<1>1. /\ walks[w] \in Walk
      /\ walks[w].own + walks[w].left <= MaxEntries
      /\ walks[w].late + walks[w].left <= MaxEntries
  BY DEF Counted
<1> DEFINE r == [walks[w] EXCEPT !.at = to, !.left = @ - 1, !.own = @ + n,
                    !.late = IF walks[w].cut THEN @ + 1 ELSE @]
<1>2. /\ r.at = to /\ r.cut = walks[w].cut /\ r.kind = walks[w].kind
      /\ r.left = walks[w].left - 1 /\ r.own = walks[w].own + n
      /\ r.late = IF walks[w].cut THEN walks[w].late + 1 ELSE walks[w].late
  BY <1>1 DEF Walk
<1>3. r \in Walk
  <2>1. /\ walks[w].left - 1 \in 0..MaxEntries
        /\ walks[w].own + n \in 0..MaxEntries
        /\ (IF walks[w].cut THEN walks[w].late + 1 ELSE walks[w].late) \in 0..MaxEntries
    <3>1. /\ walks[w].left \in Nat /\ walks[w].own \in Nat /\ walks[w].late \in Nat
          /\ walks[w].left <= MaxEntries /\ walks[w].cut \in BOOLEAN
      BY <1>1 DEF Walk, BoundsAssumption
    <3> HIDE DEF r
    <3>2. walks[w].left - 1 \in 0..MaxEntries
      BY <3>1 DEF BoundsAssumption
    <3>3. walks[w].own + n \in 0..MaxEntries
      BY <1>1, <3>1 DEF BoundsAssumption
    <3>4. walks[w].late + 1 \in 0..MaxEntries /\ walks[w].late \in 0..MaxEntries
      BY <1>1, <3>1 DEF BoundsAssumption
    <3>5. QED
      BY <3>2, <3>3, <3>4
  <2>2. QED
    BY <1>1, <2>1 DEF Walk
<1>4. walks' = [walks EXCEPT ![w] = r]
  BY DEF Visited
<1> HIDE DEF r
<1>5. QED
  BY <1>2, <1>3, <1>4, Replaced DEF Others

\* What Cut does to a traversal: the active ones are cancelled.
LEMMA CutAll ==
  ASSUME walks \in Seq(Walk)
  PROVE  /\ Cut \in Seq(Walk)
         /\ Len(Cut) = Len(walks) /\ DOMAIN Cut = DOMAIN walks
         /\ \A v \in DOMAIN walks :
              /\ Cut[v].at = walks[v].at /\ Cut[v].kind = walks[v].kind
              /\ Cut[v].left = walks[v].left /\ Cut[v].own = walks[v].own
              /\ Cut[v].late = walks[v].late
              /\ Cut[v].cut = (walks[v].cut \/ Active(v))
<1>1. DOMAIN walks = 1..Len(walks) /\ Len(walks) \in Nat
  OBVIOUS
<1>2. \A v \in DOMAIN walks :
        /\ walks[v] \in Walk /\ (walks[v].cut \/ Active(v)) \in BOOLEAN
        /\ Cut[v] = [walks[v] EXCEPT !.cut = @ \/ Active(v)]
  BY DEF Cut, Active
<1>3. \A v \in DOMAIN walks : Cut[v] \in Walk
  BY <1>2 DEF Walk
<1>4. Cut \in Seq(Walk) /\ Len(Cut) = Len(walks) /\ DOMAIN Cut = DOMAIN walks
  <2>1. DOMAIN Cut = DOMAIN walks
    BY DEF Cut
  <2>2. Cut \in [1..Len(walks) -> Walk]
    BY <1>1, <1>3, <2>1 DEF Cut
  <2>3. QED
    BY <1>1, <2>1, <2>2
<1>5. QED
  BY <1>2, <1>4 DEF Walk

-----------------------------------------------------------------------------
(* The inductive invariant: the main thread.                               *)

\* Nothing is traversed at first.
LEMMA InitWalksInv == DirInit => WalksInv
<1> SUFFICES ASSUME DirInit PROVE WalksInv
  OBVIOUS
<1>1. walks = <<>> /\ DOMAIN walks = {}
  BY DEF DirInit
<1>2. walks \in Seq(Walk) /\ Len(walks) <= MaxWalks
  BY <1>1, BoundsAssumption
<1>3. DirTypeOK
  BY <1>2 DEF DirInit, DirTypeOK, MainWalks
<1>4. Room /\ Counted /\ SyncLast /\ Uncut /\ Single /\ Heeded /\ OwnFiles
  BY <1>1 DEF DirInit, Kind, Room, Counted, SyncLast, Uncut, Walking, Single, Unended, Heeded, OwnFiles
<1>5. QED
  BY <1>3, <1>4 DEF WalksInv

\* A traversal starts when none is known to run: if one has not ended yet, the
\* two overlap.
LEMMA FindFilesStep ==
  ASSUME WalksInv, NEW kind \in Kind, FindFiles(kind), bound' \in Nat, refused' \in BOOLEAN
  PROVE  WalksInv'
<1> USE DEF WalksInv
<1>1. /\ UNCHANGED <<running, files, walks, finished>>
      /\ Len(walks) < MaxWalks
      /\ ~running /\ main = "idle" /\ main' = kind /\ cancelled' = FALSE
      /\ overlap' = (overlap \/ Unended # {})
  BY DEF FindFiles, Start
<1>2. main' # "walking"
  BY <1>1 DEF Kind
<1>3. DirTypeOK'
  BY <1>1, <1>2 DEF DirTypeOK, MainWalks
<1>4. Room' /\ Counted' /\ SyncLast'
  BY <1>1 DEF Room, Counted, SyncLast
<1>5. Uncut'
  BY <1>1 DEF Uncut, NoneCut, Walking, Active
<1>6. ~overlap' => ~overlap /\ \A w \in DOMAIN walks : walks[w].at = "done"
  BY <1>1 DEF Unended
<1>7. Single' /\ Heeded' /\ OwnFiles'
  BY <1>1, <1>6 DEF Single, Unended, Heeded, OwnFiles
<1>8. QED
  BY <1>3, <1>4, <1>5, <1>7

\* What the main thread does with the project list, and the call of cancel,
\* leave the traversals and their flags alone.
LEMMA ListStep ==
  ASSUME WalksInv, AddNothing \/ Cancel \/ Finish
  PROVE  WalksInv'
<1> USE DEF WalksInv
<1>1. /\ UNCHANGED <<flags, files, walks, overlap>>
      /\ main = "idle" /\ main' \in {"idle", "cancelling"}
      /\ finished' \in Nat /\ bound' \in Nat /\ refused' \in BOOLEAN
  <2>1. finished \in Nat /\ bound \in Nat /\ refused \in BOOLEAN
    BY DEF DirTypeOK
  <2>2. CASE AddNothing
    BY <2>1, <2>2 DEF AddNothing, Unbound
  <2>3. CASE Cancel
    BY <2>1, <2>3 DEF Cancel, list
  <2>4. CASE Finish
    BY <2>1, <2>4 DEF Finish
  <2>5. QED
    BY <2>2, <2>3, <2>4
<1>2. main' \notin Kind /\ main' # "walking"
  BY <1>1 DEF Kind
<1>3. DirTypeOK'
  BY <1>1, <1>2 DEF DirTypeOK, MainWalks, flags
<1>4. Room' /\ Counted' /\ SyncLast'
  BY <1>1, <1>2 DEF Room, Counted, SyncLast
<1>5. Uncut' /\ Single'
  BY <1>1, <1>2 DEF Uncut, NoneCut, Walking, Active, Single, Unended, flags
<1>6. Heeded' /\ OwnFiles'
  BY <1>1 DEF Heeded, OwnFiles, flags
<1>7. QED
  BY <1>3, <1>4, <1>5, <1>6

\* The new traversal is the last one.
LEMMA StartedStep ==
  ASSUME WalksInv, Started
  PROVE  WalksInv'
<1> USE DEF WalksInv
<1>1. PICK n \in 0..MaxEntries :
        walks' = Append(walks, [kind |-> main, at |-> "next", left |-> n,
                                own |-> 0, cut |-> FALSE, late |-> 0])
  BY DEF Started
<1>2. /\ main \in Kind /\ running' = TRUE /\ files' = 0
      /\ main' = IF main = "sync" THEN "walking" ELSE "idle"
      /\ UNCHANGED <<cancelled, list, overlap>>
  BY DEF Started
<1> DEFINE r == [kind |-> main, at |-> "next", left |-> n,
                 own |-> 0, cut |-> FALSE, late |-> 0]
           l == Len(walks) + 1
<1>3. r \in Walk
  BY <1>2, BoundsAssumption DEF Walk, At
<1>4. /\ r.kind = main /\ r.at = "next" /\ r.left = n
      /\ r.own = 0 /\ r.cut = FALSE /\ r.late = 0
  OBVIOUS
<1>5. walks' = Append(walks, r)
  BY <1>1
<1> HIDE DEF r
<1>6. /\ walks' \in Seq(Walk) /\ Len(walks') = l /\ DOMAIN walks' = 1..l
      /\ DOMAIN walks = 1..Len(walks) /\ Len(walks) \in Nat
      /\ walks'[l] = r /\ \A v \in DOMAIN walks : walks'[v] = walks[v]
  BY <1>3, <1>5 DEF DirTypeOK
<1>7. \A v \in DOMAIN walks' : v \in DOMAIN walks \/ v = l
  BY <1>6
<1>8. main # "walking" /\ \A v \in DOMAIN walks : walks[v].kind = "sync" => walks[v].at = "done"
  BY <1>2 DEF DirTypeOK, MainWalks, SyncLast, Kind
<1>9. DirTypeOK'
  <2>1. MainWalks'
    BY <1>2, <1>4, <1>6 DEF MainWalks
  <2>2. main' \in {"idle", "walking"} /\ UNCHANGED <<cancelled, finished, bound, overlap, refused>>
    BY <1>2 DEF list
  <2>3. Len(walks) < MaxWalks
    BY <1>2 DEF Room
  <2>4. QED
    BY <1>2, <1>6, <2>1, <2>2, <2>3, BoundsAssumption DEF DirTypeOK
<1>10. Room' /\ Counted'
  <2>1. main' \notin Kind
    BY <1>2 DEF Kind
  <2>2. QED
    BY <1>4, <1>6, <1>7, <2>1 DEF Room, Counted
<1>11. SyncLast'
  BY <1>6, <1>7, <1>8 DEF SyncLast
<1>12. Uncut'
  <2>1. SUFFICES ASSUME NoneCut' PROVE Walking' \subseteq {l} /\ main' \notin Kind
    BY <1>2 DEF Uncut
  <2>2. NoneCut
    BY <1>6, <2>1 DEF NoneCut
  <2>3. \A v \in DOMAIN walks : ~Active(v)
    BY <1>2, <2>2 DEF Uncut, Walking
  <2>4. QED
    BY <1>2, <1>6, <1>7, <2>3 DEF Walking, Active, Kind
<1>13. ~overlap' => ~overlap /\ \A v \in DOMAIN walks : walks[v].at = "done"
  BY <1>2 DEF Single, Unended
<1>14. Single' /\ Heeded' /\ OwnFiles'
  <2>1. main' \notin Kind
    BY <1>2 DEF Kind
  <2>2. QED
    BY <1>2, <1>4, <1>6, <1>7, <1>13, <2>1 DEF Single, Unended, Heeded, OwnFiles
<1>15. QED
  BY <1>9, <1>10, <1>11, <1>12, <1>14

\* cancel sets the flag before a cancelled traversal visits another entry.
LEMMA CancelledStep ==
  ASSUME WalksInv, Cancelled
  PROVE  WalksInv'
<1> USE DEF WalksInv
<1>1. /\ cancelled' = TRUE /\ running' = FALSE /\ walks' = Cut
      /\ main = "cancelling" /\ main' = "idle"
      /\ UNCHANGED <<files, list, overlap>>
  BY DEF Cancelled, CancelFlags
<1>2. walks \in Seq(Walk)
  BY DEF DirTypeOK
<1>3. DirTypeOK'
  <2>1. MainWalks'
    BY <1>1, <1>2, CutAll DEF DirTypeOK, MainWalks
  <2>2. QED
    BY <1>1, <1>2, <2>1, CutAll DEF DirTypeOK, list
<1>4. Room' /\ Counted' /\ SyncLast'
  BY <1>1, <1>2, CutAll DEF Kind, Room, Counted, SyncLast
<1>5. Uncut'
  BY <1>1, <1>2, CutAll DEF Uncut, NoneCut, Walking, Active
<1>6. Single'
  BY <1>1, <1>2, CutAll DEF Single, Unended, Kind
<1>7. Heeded' /\ OwnFiles'
  BY <1>1, <1>2, CutAll DEF Heeded, OwnFiles
<1>8. QED
  BY <1>3, <1>4, <1>5, <1>6, <1>7

-----------------------------------------------------------------------------
(* The inductive invariant: a traversal.                                   *)

\* What a step keeps that only moves a traversal on.
LEMMA GoesKeeps ==
  ASSUME WalksInv, NEW w \in DOMAIN walks, walks[w].at # "done",
         NEW to \in At \ {"done"}, Goes(w, to),
         running' \in BOOLEAN, cancelled' \in BOOLEAN,
         UNCHANGED <<files, main, list, overlap>>
  PROVE  DirTypeOK' /\ Room' /\ Counted' /\ SyncLast' /\ Single' /\ OwnFiles'
<1> USE DEF WalksInv
<1>1. walks \in Seq(Walk) /\ DOMAIN walks = 1..Len(walks) /\ Len(walks) \in Nat
  BY DEF DirTypeOK
<1>2. /\ walks' \in Seq(Walk) /\ Others(w) /\ SameEntries(w)
      /\ walks'[w].at = to /\ walks'[w].cut = walks[w].cut
  BY <1>1, GoesOn
<1>3. MainWalks'
  <2>1. \A v \in DOMAIN walks :
          /\ walks'[v].kind = walks[v].kind
          /\ walks'[v].at # "done" <=> walks[v].at # "done"
    BY <1>2 DEF Others, SameEntries
  <2>2. walks # <<>> /\ walks' # <<>>
    BY <1>1, <1>2 DEF Others
  <2>3. QED
    BY <1>1, <1>2, <2>1, <2>2 DEF DirTypeOK, MainWalks, Others
<1>4. DirTypeOK'
  BY <1>2, <1>3 DEF DirTypeOK, Others, list
<1>5. Room' /\ Counted' /\ SyncLast'
  BY <1>2 DEF Room, Counted, SyncLast, Others, SameEntries
<1>6. Unended' = Unended /\ Single'
  BY <1>2 DEF Single, Unended, Others
<1>7. OwnFiles'
  BY <1>2 DEF OwnFiles, Others, SameEntries
<1>8. QED
  BY <1>4, <1>5, <1>6, <1>7

\* An active traversal that moves on, and does not clear running.
LEMMA GoesUncut ==
  ASSUME WalksInv, NEW w \in DOMAIN walks, Active(w),
         NEW to \in At, Goes(w, to), UNCHANGED <<running, main>>
  PROVE  Uncut'
<1> USE DEF WalksInv
<1>1. Others(w) /\ walks'[w].cut = walks[w].cut
  BY GoesOn DEF DirTypeOK
<1>2. Walking' \subseteq Walking
  BY <1>1 DEF Walking, Active, Others
<1>3. NoneCut' => NoneCut
  BY <1>1 DEF NoneCut, Others
<1>4. QED
  BY <1>2, <1>3 DEF Uncut

\* What a step keeps that visits an entry.
LEMMA VisitedKeeps ==
  ASSUME WalksInv, NEW w \in DOMAIN walks, walks[w].at = "next", walks[w].left > 0,
         NEW to \in {"check", "cancel"}, NEW n \in 0..1, Visited(w, to, n),
         files' \in Nat, UNCHANGED <<flags, main, list, overlap>>
  PROVE  /\ DirTypeOK' /\ Room' /\ Counted' /\ SyncLast' /\ Uncut' /\ Single' /\ Heeded'
         /\ Others(w) /\ walks'[w].own = walks[w].own + n
         /\ walks'[w].kind = walks[w].kind
<1> USE DEF WalksInv
<1>1. walks \in Seq(Walk) /\ DOMAIN walks = 1..Len(walks) /\ Len(walks) \in Nat
  BY DEF DirTypeOK
<1>2. to \in At
  BY DEF At
<1>3. /\ walks' \in Seq(Walk) /\ Others(w) /\ walks'[w].at = to
      /\ walks'[w].cut = walks[w].cut /\ walks'[w].kind = walks[w].kind
      /\ walks'[w].left = walks[w].left - 1 /\ walks'[w].own = walks[w].own + n
      /\ walks'[w].late = IF walks[w].cut THEN walks[w].late + 1 ELSE walks[w].late
  BY <1>1, <1>2, VisitedOn, BoundsAssumption
<1>4. /\ walks[w].left \in Nat /\ walks[w].own \in Nat /\ walks[w].late \in Nat
      /\ walks[w].cut \in BOOLEAN
  <2>1. walks[w] \in Walk
    BY <1>1
  <2>2. QED
    BY <2>1, BoundsAssumption DEF Walk
<1>5. MainWalks'
  <2>1. \A v \in DOMAIN walks :
          /\ walks'[v].kind = walks[v].kind
          /\ walks'[v].at # "done" <=> walks[v].at # "done"
    BY <1>3 DEF Others
  <2>2. walks # <<>> /\ walks' # <<>>
    BY <1>1, <1>3 DEF Others
  <2>3. QED
    BY <1>1, <1>3, <2>1, <2>2 DEF DirTypeOK, MainWalks, Others
<1>6. DirTypeOK'
  BY <1>3, <1>5 DEF DirTypeOK, Others, list, flags
<1>7. Room' /\ SyncLast'
  BY <1>3 DEF Room, SyncLast, Others
<1>8. Counted'
  <2>1. /\ walks'[w].own + walks'[w].left <= MaxEntries
        /\ walks'[w].late + walks'[w].left <= MaxEntries
        /\ walks'[w].late # 0 => walks'[w].cut
    BY <1>3, <1>4, BoundsAssumption DEF Counted
  <2>2. QED
    BY <1>3, <2>1 DEF Counted, Others
<1>9. Uncut'
  <2>1. Walking' \subseteq Walking
    BY <1>3 DEF Walking, Active, Others
  <2>2. NoneCut' => NoneCut
    BY <1>3 DEF NoneCut, Others
  <2>3. QED
    BY <2>1, <2>2 DEF Uncut, flags
<1>10. Single'
  BY <1>3 DEF Single, Unended, Others
<1>11. Heeded'
  <2>1. ~overlap => walks'[w].late <= 1
    BY <1>3, <1>4 DEF Heeded
  <2>2. QED
    BY <1>3, <2>1 DEF Heeded, Others, flags
<1>12. QED
  BY <1>3, <1>6, <1>7, <1>8, <1>9, <1>10, <1>11

\* A traversal without an event handler that does not overlap counts its own
\* files only.
LEMMA MatchStep ==
  ASSUME WalksInv, NEW w \in DOMAIN walks, Match(w)
  PROVE  WalksInv'
<1> USE DEF WalksInv
<1>1. /\ walks[w].at = "next" /\ walks[w].left > 0 /\ Visited(w, "check", 1)
      /\ files' = files + Counts(walks[w].kind)
      /\ UNCHANGED <<flags, main, list, overlap>>
  BY DEF Match
<1>2. files \in Nat /\ files' \in Nat
  BY <1>1 DEF Counts, DirTypeOK
<1>3. /\ DirTypeOK' /\ Room' /\ Counted' /\ SyncLast' /\ Uncut' /\ Single' /\ Heeded'
      /\ Others(w) /\ walks'[w].own = walks[w].own + 1
      /\ walks'[w].kind = walks[w].kind
  BY <1>1, <1>2, VisitedKeeps
<1>4. ASSUME ~overlap, NEW v \in DOMAIN walks,
             walks'[v].kind = "sync", walks'[v].at # "done"
      PROVE  files' = walks'[v].own
  <2>1. v = w
    BY <1>1, <1>3, <1>4 DEF Single, Unended, Others
  <2>2. QED
    BY <1>1, <1>3, <1>4, <2>1 DEF OwnFiles, Counts
<1>5. OwnFiles'
  BY <1>1, <1>3, <1>4 DEF OwnFiles, Others
<1>6. QED
  BY <1>3, <1>5

\* An entry that does not match, and a tool that fails, count nothing.
LEMMA SkipStep ==
  ASSUME WalksInv, NEW w \in DOMAIN walks, Skip(w) \/ ToolFails(w)
  PROVE  WalksInv'
<1> USE DEF WalksInv
<1>1. /\ walks[w].at = "next" /\ walks[w].left > 0
      /\ UNCHANGED <<flags, files, main, list, overlap>>
  BY DEF Skip, ToolFails
<1>2. PICK to \in {"check", "cancel"} : Visited(w, to, 0)
  BY DEF Skip, ToolFails
<1>3. files' \in Nat
  BY <1>1 DEF DirTypeOK
<1>4. /\ DirTypeOK' /\ Room' /\ Counted' /\ SyncLast' /\ Uncut' /\ Single' /\ Heeded'
      /\ Others(w) /\ walks'[w].own = walks[w].own + 0
      /\ walks'[w].kind = walks[w].kind
  BY <1>1, <1>2, <1>3, VisitedKeeps
<1>5. walks[w].own \in Nat
  <2>1. walks[w] \in Walk
    BY DEF DirTypeOK
  <2>2. QED
    BY <2>1, BoundsAssumption DEF Walk
<1>6. OwnFiles'
  BY <1>1, <1>4, <1>5 DEF OwnFiles, Others
<1>7. QED
  BY <1>4, <1>6

\* A traversal moves on, and the flags stay.
LEMMA OnStep ==
  ASSUME WalksInv, NEW w \in DOMAIN walks, ToolCancels(w) \/ Check(w) \/ Exhausted(w)
  PROVE  WalksInv'
<1> USE DEF WalksInv
<1>1. UNCHANGED <<flags, files, main, list, overlap>>
  BY DEF ToolCancels, Check, Exhausted
<1>2. walks \in Seq(Walk) /\ running' \in BOOLEAN /\ cancelled' \in BOOLEAN
  BY <1>1 DEF DirTypeOK, flags
<1>3. PICK to \in {"cancelling", "check", "next", "stop"} :
        Goes(w, to) /\ (to = "next" => walks[w].at = "check" /\ ~cancelled)
  BY DEF ToolCancels, Check, Exhausted
<1>4. walks[w].at \in {"cancel", "check", "next"} /\ Active(w)
  BY DEF ToolCancels, Check, Exhausted, Active
<1>5. to \in At \ {"done"}
  BY DEF At
<1>6. DirTypeOK' /\ Room' /\ Counted' /\ SyncLast' /\ Single' /\ OwnFiles'
  BY <1>1, <1>2, <1>3, <1>4, <1>5, GoesKeeps
<1>7. Uncut'
  BY <1>1, <1>3, <1>4, <1>5, GoesUncut DEF flags
<1>8. /\ Others(w) /\ SameEntries(w)
      /\ walks'[w].at = to /\ walks'[w].cut = walks[w].cut
  BY <1>2, <1>3, <1>5, GoesOn
<1>9. to = "next" /\ ~overlap => walks[w].late = 0
  BY <1>3 DEF Counted, Heeded
<1>10. Heeded'
  BY <1>1, <1>4, <1>8, <1>9 DEF Heeded, Others, SameEntries, flags
<1>11. QED
  BY <1>6, <1>7, <1>10

\* A tool that fails cancels as the main thread does, itself included.
LEMMA ToolCancelledStep ==
  ASSUME WalksInv, NEW w \in DOMAIN walks, ToolCancelled(w)
  PROVE  WalksInv'
<1> USE DEF WalksInv
<1>1. /\ walks[w].at = "cancelling" /\ walks' = [Cut EXCEPT ![w].at = "check"]
      /\ cancelled' = TRUE /\ running' = FALSE
      /\ UNCHANGED <<files, main, list, overlap>>
  BY DEF ToolCancelled, CancelFlags
<1>2. walks \in Seq(Walk) /\ DOMAIN walks = 1..Len(walks) /\ Len(walks) \in Nat
  BY DEF DirTypeOK
<1>3. Cut[w] \in Walk /\ Cut \in Seq(Walk) /\ w \in DOMAIN Cut
  BY <1>2, CutAll
<1> DEFINE r == [Cut[w] EXCEPT !.at = "check"]
<1>4. /\ r \in Walk /\ r.at = "check" /\ r.cut = Cut[w].cut /\ r.kind = Cut[w].kind
      /\ r.left = Cut[w].left /\ r.own = Cut[w].own /\ r.late = Cut[w].late
  BY <1>3 DEF Walk, At
<1>5. walks' = [Cut EXCEPT ![w] = r]
  BY <1>1
<1> HIDE DEF r
<1>6. /\ walks' \in Seq(Walk) /\ Len(walks') = Len(walks) /\ DOMAIN walks' = DOMAIN walks
      /\ walks'[w] = r /\ \A v \in DOMAIN walks : v # w => walks'[v] = Cut[v]
  BY <1>2, <1>3, <1>4, <1>5, CutAll, Replaced
<1>7. \A v \in DOMAIN walks :
        /\ walks'[v].at = IF v = w THEN "check" ELSE walks[v].at
        /\ walks'[v].kind = walks[v].kind /\ walks'[v].left = walks[v].left
        /\ walks'[v].own = walks[v].own /\ walks'[v].late = walks[v].late
        /\ walks'[v].cut <=> walks[v].cut \/ Active(v)
  BY <1>2, <1>4, <1>6, CutAll
<1>8. walks'[w].cut
  BY <1>1, <1>7 DEF Active
<1>9. MainWalks'
  <2>1. \A v \in DOMAIN walks :
          /\ walks'[v].kind = walks[v].kind
          /\ walks'[v].at # "done" <=> walks[v].at # "done"
    BY <1>1, <1>7
  <2>2. walks # <<>> /\ walks' # <<>>
    BY <1>2, <1>6
  <2>3. QED
    BY <1>1, <1>2, <1>6, <2>1, <2>2 DEF DirTypeOK, MainWalks
<1>10. DirTypeOK'
  BY <1>1, <1>6, <1>9 DEF DirTypeOK, list
<1>11. Room' /\ Counted' /\ SyncLast'
  <2>1. Room'
    BY <1>1, <1>6 DEF Room
  <2>2. Counted'
    BY <1>6, <1>7 DEF Counted
  <2>3. SyncLast'
    BY <1>1, <1>6, <1>7 DEF SyncLast
  <2>4. QED
    BY <2>1, <2>2, <2>3
<1>12. Uncut'
  BY <1>6, <1>8 DEF Uncut, NoneCut
<1>13. Unended' = Unended /\ Single'
  BY <1>1, <1>6, <1>7 DEF Single, Unended
<1>14. Heeded' /\ OwnFiles'
  <2>1. Heeded'
    BY <1>1, <1>6, <1>7 DEF Heeded
  <2>2. OwnFiles'
    BY <1>1, <1>6, <1>7 DEF OwnFiles
  <2>3. QED
    BY <2>1, <2>2
<1>15. QED
  BY <1>10, <1>11, <1>12, <1>13, <1>14

\* stop clears the flags behind the last check.
LEMMA StopStep ==
  ASSUME WalksInv, NEW w \in DOMAIN walks, Stop(w) \/ Stopped(w)
  PROVE  WalksInv'
<1> USE DEF WalksInv
<1>1. /\ UNCHANGED <<files, main, list, overlap>>
      /\ walks[w].at \in {"stop", "stopping"} /\ Active(w)
      /\ cancelled' \in {FALSE, cancelled} /\ running' \in {FALSE, running}
  BY DEF Stop, Stopped, Active
<1>2. walks \in Seq(Walk) /\ running' \in BOOLEAN /\ cancelled' \in BOOLEAN
  BY <1>1 DEF DirTypeOK
<1>3. PICK to \in {"stopping", "end"} :
        Goes(w, to) /\ (to = "stopping" => running' = running)
  BY DEF Stop, Stopped
<1>4. to \in At \ {"done"}
  BY DEF At
<1>5. DirTypeOK' /\ Room' /\ Counted' /\ SyncLast' /\ Single' /\ OwnFiles'
  BY <1>1, <1>2, <1>3, <1>4, GoesKeeps
<1>6. /\ Others(w) /\ SameEntries(w)
      /\ walks'[w].at = to /\ walks'[w].cut = walks[w].cut
  BY <1>2, <1>3, <1>4, GoesOn
<1>7. Uncut'
  <2>1. CASE to = "stopping"
    BY <1>1, <1>3, <1>4, <2>1, GoesUncut
  <2>2. CASE to = "end"
    <3>1. NoneCut' => NoneCut
      BY <1>6 DEF NoneCut, Others
    <3>2. NoneCut' => Walking' = {}
      BY <1>1, <1>6, <2>2, <3>1 DEF Uncut, Walking, Active, Others
    <3>3. QED
      BY <3>2 DEF Uncut
  <2>3. QED
    BY <2>1, <2>2
<1>8. Heeded'
  <2>1. ASSUME ~overlap, NEW v \in DOMAIN walks, v # w PROVE walks[v].at = "done"
    BY <1>1, <2>1 DEF Single, Unended
  <2>2. QED
    BY <1>1, <1>6, <2>1 DEF Heeded, Others, SameEntries
<1>9. QED
  BY <1>5, <1>7, <1>8

\* The end of a traversal leaves the flags, and the main thread if it waits.
LEMMA EndStep ==
  ASSUME WalksInv, NEW w \in DOMAIN walks, End(w)
  PROVE  WalksInv'
<1> USE DEF WalksInv
<1>1. /\ walks[w].at = "end" /\ Goes(w, "done")
      /\ finished' = finished + (IF walks[w].kind = "add" THEN 1 ELSE 0)
      /\ main' = IF walks[w].kind = "sync" THEN "idle" ELSE main
      /\ UNCHANGED <<flags, files, bound, refused, overlap>>
  BY DEF End
<1>2. walks \in Seq(Walk) /\ DOMAIN walks = 1..Len(walks) /\ Len(walks) \in Nat
  BY DEF DirTypeOK
<1>3. /\ walks' \in Seq(Walk) /\ Others(w) /\ SameEntries(w)
      /\ walks'[w].at = "done" /\ walks'[w].cut = walks[w].cut
  BY <1>1, <1>2, GoesOn DEF At
<1>4. main' \in Kind => main' = main
  BY <1>1 DEF Kind
<1>5. MainWalks'
  <2>1. walks # <<>> /\ walks' # <<>> /\ Len(walks) \in DOMAIN walks
    BY <1>2, <1>3 DEF Others
  <2>2. CASE walks[w].kind = "sync"
    BY <1>1, <1>3, <2>1, <2>2 DEF MainWalks, SyncLast, Others
  <2>3. CASE walks[w].kind # "sync"
    <3>1. main' = main /\ walks'[Len(walks)].kind = walks[Len(walks)].kind
      BY <1>1, <1>3, <2>1, <2>3 DEF Others, SameEntries
    <3>2. walks[Len(walks)].kind = "sync" => walks'[Len(walks)].at = walks[Len(walks)].at
      BY <1>3, <2>1, <2>3 DEF Others
    <3>3. QED
      BY <1>3, <2>1, <3>1, <3>2 DEF DirTypeOK, MainWalks, Others
  <2>4. QED
    BY <2>2, <2>3
<1>6. DirTypeOK'
  <2>1. finished' \in Nat /\ main' \in {"idle", "cancelling", "walking"} \cup Kind
    BY <1>1 DEF DirTypeOK
  <2>2. QED
    BY <1>1, <1>3, <1>5, <2>1 DEF DirTypeOK, Others, flags
<1>7. Room' /\ Counted' /\ SyncLast'
  BY <1>3, <1>4 DEF Room, Counted, SyncLast, Others, SameEntries
<1>8. Uncut'
  <2>1. Walking' \subseteq Walking
    BY <1>3 DEF Walking, Active, Others
  <2>2. NoneCut' => NoneCut
    BY <1>3 DEF NoneCut, Others
  <2>3. QED
    BY <1>1, <1>4, <2>1, <2>2 DEF Uncut, flags
<1>9. Single'
  <2>1. Unended' \subseteq Unended
    BY <1>3 DEF Unended, Others
  <2>2. QED
    BY <1>1, <1>4, <2>1 DEF Single
<1>10. Heeded' /\ OwnFiles'
  BY <1>1, <1>3 DEF Heeded, OwnFiles, Others, SameEntries, flags
<1>11. QED
  BY <1>6, <1>7, <1>8, <1>9, <1>10

-----------------------------------------------------------------------------
(* Every step, and the theorems.                                           *)

\* Every step keeps the inductive invariant.
LEMMA NextWalksInv == WalksInv /\ [DirNext]_dirVars => WalksInv'
<1> SUFFICES ASSUME WalksInv, [DirNext]_dirVars PROVE WalksInv'
  OBVIOUS
<1>1. CASE Find
  <2>1. PICK kind \in {"find", "sync"} : FindFiles(kind)
    BY <1>1 DEF Find
  <2>2. kind \in Kind /\ bound' \in Nat /\ refused' \in BOOLEAN
    BY <1>1 DEF Find, Kind, WalksInv, DirTypeOK
  <2>3. QED
    BY <2>1, <2>2, FindFilesStep
<1>2. CASE AddItems
  <2>1. "add" \in Kind /\ bound' \in Nat /\ refused' \in BOOLEAN
    BY <1>2 DEF AddItems, Unbound, Kind, WalksInv, DirTypeOK
  <2>2. QED
    BY <1>2, <2>1, FindFilesStep DEF AddItems
<1>3. CASE AddNothing \/ Cancel \/ Finish
  BY <1>3, ListStep
<1>4. CASE Started \/ Cancelled
  BY <1>4, StartedStep, CancelledStep
<1>5. CASE \E w \in DOMAIN walks : Run(w)
  BY <1>5, MatchStep, SkipStep, OnStep, ToolCancelledStep, StopStep, EndStep DEF Run
<1>6. CASE UNCHANGED dirVars
  <2>1. UNCHANGED <<running, cancelled, files, walks, main, finished, bound, overlap, refused>>
    BY <1>6 DEF dirVars
  <2>2. DirTypeOK'
    BY <2>1 DEF WalksInv, DirTypeOK, MainWalks
  <2>3. Room' /\ Counted' /\ SyncLast'
    BY <2>1 DEF WalksInv, Room, Counted, SyncLast
  <2>4. Uncut' /\ Single'
    BY <2>1 DEF WalksInv, Uncut, NoneCut, Walking, Active, Single, Unended
  <2>5. Heeded' /\ OwnFiles'
    BY <2>1 DEF WalksInv, Heeded, OwnFiles
  <2>6. QED
    BY <2>2, <2>3, <2>4, <2>5 DEF WalksInv
<1>7. QED
  BY <1>1, <1>2, <1>3, <1>4, <1>5, <1>6 DEF DirNext

\* The inductive invariant holds throughout.
THEOREM InductiveWalks == DirSpec => []WalksInv
<1>1. QED
  BY InitWalksInv, NextWalksInv, PTL DEF DirSpec

\* The variables keep their types, and the main thread is in a traversal
\* exactly while the last one has no event handler and is not done.
THEOREM DirTypeCorrect == DirSpec => []DirTypeOK
<1>1. WalksInv => DirTypeOK
  BY DEF WalksInv
<1>2. QED
  BY <1>1, InductiveWalks, PTL

\* interruptible::start refuses a second traversal, whatever the flags go
\* through, until one has been cancelled.
THEOREM ExclusiveAlways == DirSpec => []Exclusive
<1>1. WalksInv => Exclusive
  BY DEF WalksInv, Uncut, NoneCut, Exclusive
<1>2. QED
  BY <1>1, InductiveWalks, PTL

\* A traversal that was cancelled visits at most the entry it is at, unless
\* another one that started clears the flag first.
THEOREM CancelStopsAlways == DirSpec => []CancelStops
<1>1. WalksInv => CancelStops
  BY DEF WalksInv, Heeded, CancelStops
<1>2. QED
  BY <1>1, InductiveWalks, PTL

\* A traversal in the main thread returns the number of files it found, unless
\* another one counts in the same statistics.
THEOREM ReturnsMatchesAlways == DirSpec => []ReturnsMatches
<1>1. WalksInv => ReturnsMatches
  BY DEF WalksInv, OwnFiles, ReturnsMatches
<1>2. QED
  BY <1>1, InductiveWalks, PTL

-----------------------------------------------------------------------------
(* FileSync: the inductive invariant.                                      *)

\* Behind a load or a save, until the stat that ends it, the text is the one
\* on disk.
Settled ==
  step \in {"restat", "saved"} /\ ~modified /\ astray = {} => text = disk[path].text

\* A log is shown as far as it was when it was read.
LogShown ==
  path \in Logs /\ step # "load" /\ ~modified /\ astray = {}
    => IsPrefix(text, disk[path].text)

IInv ==
  /\ TypeOK
  /\ UnmodifiedIsOnDisk
  /\ Settled
  /\ LogShown

-----------------------------------------------------------------------------
(* Texts.                                                                  *)

\* What is read of a file is a text.
LEMMA ReadIsText ==
  ASSUME NEW c \in Text, NEW from \in Nat, NEW size \in Nat, from <= size
  PROVE  Read(c, from, size) \in Text
<1>1. \A i \in 1..(size - from) : from + i <= Len(c) => c[from + i] \in Chunk \cup {Nul}
  BY DEF Text
<1>2. Read(c, from, size) \in [1..(size - from) -> Chunk \cup {Nul}]
  BY <1>1 DEF Read
<1>3. size - from \in Nat
  OBVIOUS
<1>4. QED
  BY <1>2, <1>3, IsASeq DEF Text

\* A file whose size the stat knows is read as it is.
LEMMA ReadAll ==
  ASSUME NEW c \in Text
  PROVE  Read(c, 0, Len(c)) = c
  BY DEF Read, Text

\* What is read behind a prefix completes it.
LEMMA ReadRest ==
  ASSUME NEW s \in Text, NEW c \in Text, IsPrefix(s, c)
  PROVE  s \o Read(c, Len(s), Len(c)) = c
  BY DEF Read, Text, IsPrefix

\* A text that is written over an other one.
LEMMA OverIsText ==
  ASSUME NEW s \in Text, NEW c \in Text
  PROVE  Over(s, c) \in Text
  BY DEF Over, Text

\* Every text is a prefix of itself.
LEMMA PrefixSelf ==
  ASSUME NEW s \in Text
  PROVE  IsPrefix(s, s)
  BY DEF IsPrefix, Text

\* A prefix of a prefix.
LEMMA PrefixOfPrefix ==
  ASSUME NEW s \in Text, NEW c \in Text, NEW t \in Text, IsPrefix(s, c), IsPrefix(c, t)
  PROVE  IsPrefix(s, t)
  BY DEF IsPrefix, Text

\* What is typed is a text.
LEMMA TypedIsText == Texts \subseteq Text
  BY SyncAssumption DEF Text

\* A stat of a file.
LEMMA SyncedIsStat ==
  ASSUME TypeOK, NEW p \in Paths, NEW st \in Stat
  PROVE  /\ Synced(st, p) \in Stat
         /\ Synced(st, p).ok <=> disk[p].there
         /\ disk[p].there => /\ Synced(st, p).mtime = disk[p].mtime
                             /\ Synced(st, p).size = Len(disk[p].text)
         /\ ~disk[p].there => /\ Synced(st, p).mtime = st.mtime
                              /\ Synced(st, p).size = st.size
<1>1. disk[p] \in File
  BY DEF TypeOK
<1>2. /\ disk[p].there \in BOOLEAN /\ disk[p].mtime \in 0..MaxTime
      /\ Len(disk[p].text) \in Nat
  BY <1>1 DEF File, Text
<1>3. CASE disk[p].there
  BY <1>2, <1>3 DEF Synced, Stat
<1>4. CASE ~disk[p].there
  BY <1>4 DEF Synced, Stat
<1>5. QED
  BY <1>2, <1>3, <1>4

\* A file of the texts.
LEMMA DiskIsFile ==
  ASSUME TypeOK, NEW p \in Paths
  PROVE  /\ disk[p] \in File
         /\ disk[p].there \in BOOLEAN /\ disk[p].text \in Text
         /\ disk[p].mtime \in 0..MaxTime /\ disk[p].readonly \in BOOLEAN
<1>1. disk[p] \in File
  BY DEF TypeOK
<1>2. QED
  BY <1>1 DEF File

\* What is written is a file that holds the text, unless it is written over one
\* that is longer.
LEMMA WrittenIsFile ==
  ASSUME TypeOK, NEW p \in Paths, NEW open \in BOOLEAN
  PROVE  /\ Written(p, open) \in File
         /\ Written(p, open).there
<1>1. Over(text, disk[p].text) \in Text /\ text \in Text /\ now \in 0..MaxTime
  BY DiskIsFile, OverIsText DEF TypeOK
<1>2. QED
  BY <1>1 DEF Written, File

-----------------------------------------------------------------------------
(* Saving and loading.                                                     *)

\* A save that works leaves the text on disk.
LEMMA SavingSaves ==
  ASSUME TypeOK, NEW p \in Paths, NEW open \in BOOLEAN, NEW before \in Seq(Event),
         Saving(p, open, before)
  PROVE  /\ readonly' \in BOOLEAN /\ modified' \in BOOLEAN
         /\ disk' \in [Paths -> File]
         /\ posted' \in Seq(Event)
         /\ owed' \in Texts \cup {NoText}
         /\ astray' \subseteq Why
         /\ astray' = {} => owed' = NoText /\ disk'[p].text = text
<1>1. PICK ok \in BOOLEAN :
        /\ disk' = IF ok THEN [disk EXCEPT ![p] = Written(p, open)] ELSE disk
        /\ owed' = IF ok THEN NoText ELSE owed
        /\ posted' = IF ok THEN Append(before, "FILE_SAVE") ELSE before
        /\ astray' = IF ~ok THEN astray \cup {"failed"}
                     ELSE IF Written(p, open).text # text THEN {"overlaid"} ELSE {}
  <2>1. (open \/ OpensOut(p)) \in BOOLEAN
    BY DEF OpensOut
  <2>2. QED
    BY <2>1 DEF Saving
<1>2. readonly' = TRUE /\ modified' = FALSE
  BY DEF Saving
<1>3. Written(p, open) \in File
  BY WrittenIsFile
<1>4. disk' \in [Paths -> File]
  BY <1>1, <1>3 DEF TypeOK
<1>5. posted' \in Seq(Event)
  BY <1>1 DEF Event
<1>6. owed' \in Texts \cup {NoText} /\ astray' \subseteq Why
  BY <1>1 DEF TypeOK, Why
<1>7. astray' = {} => owed' = NoText /\ disk'[p].text = text
  <2>1. ASSUME astray' = {} PROVE ok /\ Written(p, open).text = text
    BY <1>1, <2>1
  <2>2. QED
    BY <1>1, <2>1 DEF TypeOK
<1>8. QED
  BY <1>2, <1>4, <1>5, <1>6, <1>7

\* What a load does to the editor, and what it may leave astray.
LEMMA LoadedLoads ==
  ASSUME TypeOK, LogShown, NEW synced \in BOOLEAN, NEW yes \in BOOLEAN,
         synced => step # "load", Loaded(synced, yes)
  PROVE  /\ disk' \in [Paths -> File]
         /\ path_stat' \in Stat
         /\ text' \in Text
         /\ modified' = FALSE /\ readonly' \in BOOLEAN
         /\ previous' \in Nat
         /\ posted' \in Seq(Event)
         /\ owed' \in Texts \cup {NoText}
         /\ astray' \subseteq Why
         /\ astray' = {} => owed' = NoText /\ text' = disk'[path].text
<1> DEFINE wrote == yes /\ OpensBoth(path)
           to == IF wrote THEN Written(path, TRUE) ELSE disk[path]
           st == IF yes THEN [ok |-> TRUE, mtime |-> to.mtime, size |-> Len(to.text)]
                 ELSE path_stat
           append == Appends(synced, st.size)
           locked == readonly \/ yes
           failed == yes /\ ~wrote
           mixed == wrote /\ to.text # text
           event == IF synced THEN "FILE_LOAD_SYNC" ELSE "FILE_LOAD"
           why == {w \in Why : \/ w = "failed" /\ failed
                               \/ w = "overlaid" /\ mixed
                               \/ w = "edited log" /\ append /\ modified
                               \/ w = "locked log" /\ append /\ locked
                               \/ w = "saved log" /\ append /\ previous # Len(text)
                               \/ w = "stale size" /\ st.size # Len(to.text)}
<1>1. /\ disk' = [disk EXCEPT ![path] = to]
      /\ path_stat' = st
      /\ text' = IF ~append THEN Read(to.text, 0, st.size)
                 ELSE IF locked THEN text
                 ELSE text \o Read(to.text, previous, st.size)
      /\ modified' = FALSE
      /\ readonly' = (append /\ locked)
      /\ previous' = st.size
      /\ posted' = Append(IF wrote THEN Append(posted, "FILE_SAVE") ELSE posted, event)
      /\ owed' = IF failed THEN owed ELSE NoText
      /\ astray' = IF why = {} /\ ~append THEN {} ELSE astray \cup why
  BY DEF Loaded
<1>2. /\ path \in Paths /\ path_stat \in Stat /\ text \in Text /\ previous \in Nat
      /\ posted \in Seq(Event) /\ owed \in Texts \cup {NoText} /\ astray \subseteq Why
      /\ readonly \in BOOLEAN
      /\ disk \in [Paths -> File]
  BY DEF TypeOK
<1>3. to \in File /\ to.text \in Text /\ Len(to.text) \in Nat /\ to.mtime \in 0..MaxTime
  <2>1. Written(path, TRUE) \in File /\ disk[path] \in File
    BY <1>2, WrittenIsFile, DiskIsFile
  <2>2. to \in File
    BY <2>1
  <2> HIDE DEF to
  <2>3. QED
    BY <2>2 DEF File, Text
<1>4. st \in Stat /\ st.size \in Nat
  <2> HIDE DEF to
  <2>1. QED
    BY <1>2, <1>3 DEF Stat
<1>5. append => IsPrefix(text, disk[path].text) \/ modified \/ astray # {}
  BY DEF Appends, LogShown
<1>6. append => previous < st.size
  BY DEF Appends
<1>7. wrote \in BOOLEAN /\ failed \in BOOLEAN /\ append \in BOOLEAN /\ locked \in BOOLEAN
  BY <1>2 DEF OpensBoth, Appends
<1>8. event \in Event /\ "FILE_SAVE" \in Event
  BY DEF Event
<1>9. ~locked => ~wrote /\ to = disk[path]
  OBVIOUS
<1> HIDE DEF event, append, st, to, locked, failed, mixed, wrote
<1>10. disk' \in [Paths -> File] /\ disk'[path] = to
  BY <1>1, <1>2, <1>3
<1>11. text' \in Text
  <2>1. Read(to.text, 0, st.size) \in Text
    BY <1>3, <1>4, ReadIsText
  <2>2. append => Read(to.text, previous, st.size) \in Text
    BY <1>2, <1>3, <1>4, <1>6, ReadIsText
  <2>3. append => text \o Read(to.text, previous, st.size) \in Text
    BY <1>2, <2>2 DEF Text
  <2>4. QED
    BY <1>1, <1>2, <2>1, <2>3
<1>12. posted' \in Seq(Event)
  <2>1. \A q \in Seq(Event), e \in Event : Append(q, e) \in Seq(Event)
    OBVIOUS
  <2>2. CASE wrote
    BY <1>1, <1>2, <1>8, <2>1, <2>2
  <2>3. CASE ~wrote
    BY <1>1, <1>2, <1>8, <2>1, <2>3
  <2>4. QED
    BY <2>2, <2>3
<1>13. owed' \in Texts \cup {NoText} /\ astray' \subseteq Why
  BY <1>1, <1>2
<1>14. ASSUME astray' = {}
       PROVE  owed' = NoText /\ text' = disk'[path].text
  <2>1. why = {}
    BY <1>1, <1>14
  <2>2. /\ ~failed
        /\ append => ~modified /\ ~locked /\ previous = Len(text)
        /\ st.size = Len(to.text)
    BY <2>1 DEF Why
  <2>3. CASE ~append
    BY <1>1, <1>3, <1>10, <2>2, <2>3, ReadAll
  <2>4. CASE append
    <3>1. IsPrefix(text, to.text)
      BY <1>1, <1>5, <1>9, <1>14, <2>2, <2>4
    <3>2. QED
      BY <1>1, <1>2, <1>3, <1>10, <2>2, <2>4, <3>1, ReadRest
  <2>5. QED
    BY <1>1, <2>2, <2>3, <2>4
<1>15. QED
  BY <1>1, <1>4, <1>7, <1>10, <1>11, <1>12, <1>13, <1>14

-----------------------------------------------------------------------------
(* The inductive invariant.                                                *)

\* A file is shown as it is in the beginning, or not at all yet.
LEMMA InitInv == Init => IInv /\ EditsKept
<1> SUFFICES ASSUME Init PROVE IInv /\ EditsKept
  OBVIOUS
<1>1. /\ \A p \in Paths : AtFirst[p] \in Texts /\ AtFirst[p] \in Text
      /\ path \in Paths /\ <<>> \in Text /\ 0 \in 0..MaxTime /\ 1 \in 0..MaxTime
  BY SyncAssumption, TypedIsText DEF Init, Text
<1>2. Len(AtFirst[path]) \in Nat
  BY <1>1 DEF Text
<1>3. PICK r \in BOOLEAN :
        /\ disk = [p \in Paths |-> [there |-> TRUE, text |-> AtFirst[p], mtime |-> 0,
                                    readonly |-> r /\ p = path]]
        /\ readonly = (r \/ ~visual)
  BY DEF Init
<1>4. disk \in [Paths -> File] /\ disk[path].text = AtFirst[path]
  BY <1>1, <1>3 DEF File
<1>5. path_stat \in Stat /\ stat = path_stat /\ previous \in Nat
  BY <1>1, <1>2 DEF Init, Stat
<1>6. TypeOK
  <2>1. text \in Text /\ visual \in BOOLEAN
    BY <1>1 DEF Init
  <2>2. readonly \in BOOLEAN /\ modified \in BOOLEAN
    BY <1>3 DEF Init
  <2>3. posted \in Seq(Event) /\ step \in Steps
    BY DEF Init, Steps
  <2>4. now \in 0..MaxTime /\ owed = NoText /\ astray = {}
    BY <1>1 DEF Init
  <2>5. QED
    BY <1>1, <1>4, <1>5, <2>1, <2>2, <2>3, <2>4 DEF TypeOK
<1>7. UnmodifiedIsOnDisk /\ Settled /\ EditsKept
  BY <1>1, <1>4 DEF Init, UnmodifiedIsOnDisk, Settled, EditsKept
<1>8. LogShown
  <2>1. IsPrefix(AtFirst[path], AtFirst[path])
    BY <1>1, PrefixSelf
  <2>2. IsPrefix(<<>>, AtFirst[path])
    BY <1>1, <1>2 DEF IsPrefix, Text
  <2>3. QED
    BY <1>4, <2>1, <2>2 DEF Init, LogShown
<1>9. QED
  BY <1>6, <1>7, <1>8 DEF IInv

\* The time goes on.
LEMMA TickStep ==
  ASSUME IInv, EditsKept, Tick
  PROVE  IInv' /\ EditsKept'
<1> USE DEF IInv
<1>1. /\ now' \in 0..MaxTime
      /\ UNCHANGED <<disk, path, path_stat, stat, text, modified, readonly, previous,
                     visual, step, posted, owed, astray>>
  BY SyncAssumption DEF Tick, TypeOK, stats, shown
<1>2. TypeOK'
  BY <1>1 DEF TypeOK
<1>3. UnmodifiedIsOnDisk' /\ Settled' /\ LogShown' /\ EditsKept'
  BY <1>1 DEF UnmodifiedIsOnDisk, Settled, LogShown, EditsKept
<1>4. QED
  BY <1>2, <1>3

\* The other program changes what is on disk while nothing is looked at, and in
\* another second than the one of the last stat, or puts it astray.
LEMMA OtherStep ==
  ASSUME IInv, EditsKept, Other
  PROVE  IInv' /\ EditsKept'
<1> USE DEF IInv
<1>1. /\ disk[path] \in File /\ disk[path].there \in BOOLEAN
      /\ disk[path].text \in Text /\ disk[path].readonly \in BOOLEAN
      /\ path \in Paths /\ text \in Text /\ now \in 0..MaxTime
  BY DiskIsFile DEF TypeOK
<1>2. PICK content :
        /\ Outside(content) /\ content \in File
        /\ astray' \subseteq Why /\ astray \subseteq astray'
        /\ \/ content.text = disk[path].text /\ content.mtime = disk[path].mtime
              /\ (content.there => disk[path].there)
           \/ /\ content.mtime = now
              /\ \/ astray' # {}
                 \/ /\ step = "ready" /\ stat.mtime # now
                    /\ path \in Logs => IsPrefix(disk[path].text, content.text)
  <2>1. CASE \E t \in Texts : WrittenOutside(t)
    <3>1. PICK t \in Texts : WrittenOutside(t)
      BY <2>1
    <3> DEFINE content == [there |-> TRUE, text |-> t, mtime |-> now,
                           readonly |-> disk[path].there /\ disk[path].readonly]
               whys == {why \in Why :
                          \/ why = "raced" /\ step # "ready"
                          \/ why = "same second" /\ stat.mtime = now
                          \/ why = "replaced log" /\ path \in Logs
                             /\ ~IsPrefix(disk[path].text, t)}
    <3>2. Outside(content) /\ astray' = astray \cup whys
      BY <3>1 DEF WrittenOutside
    <3>3. content \in File
      BY <1>1, TypedIsText DEF File
    <3>4. content.mtime = now /\ content.text = t
      OBVIOUS
    <3> HIDE DEF content
    <3>5. astray' \subseteq Why /\ astray \subseteq astray'
      BY <3>2 DEF TypeOK
    <3>6. whys = {} => /\ step = "ready" /\ stat.mtime # now
                       /\ path \in Logs => IsPrefix(disk[path].text, t)
      BY DEF Why
    <3> HIDE DEF whys
    <3>7. QED
      BY <3>2, <3>3, <3>4, <3>5, <3>6
  <2>2. CASE Removed
    <3> DEFINE content == [disk[path] EXCEPT !.there = FALSE]
    <3>1. Outside(content) /\ astray' = astray /\ disk[path].there
      BY <2>2 DEF Removed
    <3>2. /\ content \in File /\ content.text = disk[path].text
          /\ content.mtime = disk[path].mtime
      BY <1>1 DEF File
    <3> HIDE DEF content
    <3>3. QED
      BY <3>1, <3>2 DEF TypeOK
  <2>3. CASE Chmod
    <3> DEFINE content == [disk[path] EXCEPT !.readonly = ~@]
    <3>1. Outside(content) /\ astray' = astray /\ disk[path].there
      BY <2>3 DEF Chmod
    <3>2. /\ content \in File /\ content.text = disk[path].text
          /\ content.mtime = disk[path].mtime
      BY <1>1 DEF File
    <3> HIDE DEF content
    <3>3. QED
      BY <3>1, <3>2 DEF TypeOK
  <2>4. QED
    BY <2>1, <2>2, <2>3 DEF Other
<1>3. /\ disk' = [disk EXCEPT ![path] = content]
      /\ UNCHANGED <<path, path_stat, stat, text, modified, readonly, previous, visual,
                     step, posted, owed, now>>
  BY <1>2 DEF Outside, stats, shown
<1>4. disk' \in [Paths -> File] /\ disk'[path] = content /\ content.text \in Text
  BY <1>1, <1>2, <1>3 DEF TypeOK, File
<1>5. TypeOK'
  BY <1>2, <1>3, <1>4 DEF TypeOK
<1>6. astray' = {} => astray = {}
  BY <1>2
<1>7. UnmodifiedIsOnDisk' /\ Settled' /\ EditsKept'
  BY <1>2, <1>3, <1>4, <1>6 DEF UnmodifiedIsOnDisk, Settled, EditsKept
<1>8. LogShown'
  <2>1. SUFFICES ASSUME path \in Logs, step # "load", ~modified, astray' = {}
                 PROVE  IsPrefix(text, content.text)
    BY <1>3, <1>4 DEF LogShown
  <2>2. IsPrefix(text, disk[path].text)
    BY <1>6, <2>1 DEF LogShown
  <2>3. QED
    BY <1>1, <1>2, <1>4, <2>1, <2>2, PrefixOfPrefix
<1>9. QED
  BY <1>5, <1>7, <1>8

\* Typing and asking for a save.
LEMMA TypeStep ==
  ASSUME IInv, EditsKept, NEW t \in Texts, Type(t)
  PROVE  IInv' /\ EditsKept'
<1> USE DEF IInv
<1>1. /\ UNCHANGED <<disk, path, path_stat, stat, readonly, previous, visual, step,
                     posted, astray, now>>
      /\ text' = t /\ modified' = TRUE /\ owed' = t /\ t \in Text
  BY TypedIsText DEF Type, stats
<1>2. TypeOK'
  BY <1>1 DEF TypeOK
<1>3. UnmodifiedIsOnDisk' /\ Settled' /\ LogShown' /\ EditsKept'
  BY <1>1 DEF UnmodifiedIsOnDisk, Settled, LogShown, EditsKept
<1>4. QED
  BY <1>2, <1>3

\* The save is an event, and nothing is saved yet.
LEMMA SaveStep ==
  ASSUME IInv, EditsKept, Save
  PROVE  IInv' /\ EditsKept'
<1> USE DEF IInv
<1>1. /\ UNCHANGED <<disk, path, path_stat, stat, text, modified, readonly, previous,
                     visual, step, owed, astray, now>>
      /\ posted' = Append(posted, "wxID_SAVE")
  BY DEF Save, stats, shown
<1>2. posted' \in Seq(Event)
  BY <1>1 DEF TypeOK, Event
<1>3. TypeOK'
  BY <1>1, <1>2 DEF TypeOK
<1>4. UnmodifiedIsOnDisk' /\ Settled' /\ LogShown' /\ EditsKept'
  BY <1>1 DEF UnmodifiedIsOnDisk, Settled, LogShown, EditsKept
<1>5. QED
  BY <1>3, <1>4

\* A write, and the stats that follow it, are two steps.
LEMMA SavingStep ==
  ASSUME IInv, EditsKept, SaveNow \/ \E p \in Paths : SaveAs(p)
  PROVE  IInv' /\ EditsKept'
<1> USE DEF IInv
<1>1. PICK p \in Paths, open \in BOOLEAN, before \in Seq(Event) :
        /\ Saving(p, open, before)
        /\ path' = p /\ path_stat' \in Stat /\ stat' \in Stat /\ step' = "saved"
        /\ UNCHANGED <<text, previous, visual, now>>
  <2>1. CASE SaveNow
    <3>1. Tail(posted) \in Seq(Event)
      BY <2>1 DEF SaveNow, TypeOK
    <3>2. QED
      BY <2>1, <3>1 DEF SaveNow, TypeOK, stats, bounds
  <2>2. CASE \E p \in Paths : SaveAs(p)
    <3>1. PICK p \in Paths : SaveAs(p)
      BY <2>2
    <3>2. OpensBoth(p) \in BOOLEAN /\ posted \in Seq(Event)
      BY DiskIsFile DEF OpensBoth, TypeOK
    <3>3. Synced(path_stat, p) \in Stat /\ Synced(stat, p) \in Stat
      BY SyncedIsStat DEF TypeOK
    <3>4. QED
      BY <3>1, <3>2, <3>3 DEF SaveAs
  <2>3. QED
    BY <2>1, <2>2
<1>2. /\ readonly' \in BOOLEAN /\ modified' \in BOOLEAN
      /\ disk' \in [Paths -> File]
      /\ posted' \in Seq(Event)
      /\ owed' \in Texts \cup {NoText}
      /\ astray' \subseteq Why
      /\ astray' = {} => owed' = NoText /\ disk'[p].text = text
  BY <1>1, SavingSaves
<1>3. TypeOK'
  BY <1>1, <1>2 DEF TypeOK, Steps
<1>4. UnmodifiedIsOnDisk' /\ Settled' /\ EditsKept'
  BY <1>1, <1>2 DEF UnmodifiedIsOnDisk, Settled, EditsKept
<1>5. LogShown'
  BY <1>1, <1>2, PrefixSelf DEF TypeOK, LogShown
<1>6. QED
  BY <1>3, <1>4, <1>5

\* The stats behind a write are those of the text that is shown.
LEMMA SavedStep ==
  ASSUME IInv, EditsKept, Saved
  PROVE  IInv' /\ EditsKept'
<1> USE DEF IInv
<1>1. /\ step = "saved" /\ step' = "ready"
      /\ path_stat' = Synced(path_stat, path) /\ stat' = Synced(stat, path)
      /\ UNCHANGED <<disk, path, text, modified, readonly, previous, visual, posted,
                     owed, astray, now>>
  BY DEF Saved, shown, bounds
<1>2. path_stat' \in Stat /\ stat' \in Stat
  BY <1>1, SyncedIsStat DEF TypeOK
<1>3. TypeOK'
  BY <1>1, <1>2 DEF TypeOK, Steps
<1>4. UnmodifiedIsOnDisk' /\ Settled' /\ LogShown' /\ EditsKept'
  BY <1>1 DEF UnmodifiedIsOnDisk, Settled, LogShown, EditsKept
<1>5. QED
  BY <1>3, <1>4

\* Opening and showing a file are followed by a load.
LEMMA OpenStep ==
  ASSUME IInv, EditsKept, Visual \/ \E p \in Paths : Open(p)
  PROVE  IInv' /\ EditsKept'
<1> USE DEF IInv
<1>1. /\ path' \in Paths /\ path_stat' \in Stat /\ step' = "load"
      /\ visual' \in BOOLEAN /\ readonly' \in BOOLEAN
      /\ UNCHANGED <<disk, stat, text, modified, previous, posted, owed, astray, now>>
  <2>1. CASE Visual
    BY <2>1 DEF Visual, TypeOK, stats
  <2>2. CASE \E p \in Paths : Open(p)
    <3>1. PICK p \in Paths : Open(p)
      BY <2>2
    <3>2. Synced(path_stat, p) \in Stat
      BY SyncedIsStat DEF TypeOK
    <3>3. QED
      BY <3>1, <3>2 DEF Open, TypeOK, shown
  <2>3. QED
    BY <2>1, <2>2
<1>2. TypeOK'
  BY <1>1 DEF TypeOK, Steps
<1>3. UnmodifiedIsOnDisk' /\ Settled' /\ LogShown' /\ EditsKept'
  BY <1>1 DEF UnmodifiedIsOnDisk, Settled, LogShown, EditsKept
<1>4. QED
  BY <1>2, <1>3

\* What a load leaves, whether the file was read or the answer refused it.
LEMMA LoadLoads ==
  ASSUME IInv, EditsKept, NEW synced \in BOOLEAN, synced => step # "load",
         NEW answer \in Answers, Load(synced, answer)
  PROVE  /\ disk' \in [Paths -> File]
         /\ path_stat' \in Stat
         /\ text' \in Text
         /\ modified' \in BOOLEAN /\ readonly' \in BOOLEAN
         /\ previous' \in Nat
         /\ posted' \in Seq(Event)
         /\ owed' \in Texts \cup {NoText}
         /\ astray' \subseteq Why
         /\ astray' = {} => owed' = NoText /\ text' = disk'[path].text
<1> USE DEF IInv
<1>1. CASE answer = "cancel"
  BY <1>1 DEF Load, Refused, TypeOK, Why, shown
<1>2. CASE answer # "cancel"
  <2>1. Loaded(synced, answer = "yes") /\ (answer = "yes") \in BOOLEAN
    BY <1>2 DEF Load
  <2>2. QED
    BY <2>1, LoadedLoads
<1>3. QED
  BY <1>1, <1>2

\* The load behind an open, and that of check_sync, show what is on disk.
LEMMA LoadStep ==
  ASSUME IInv, EditsKept, FileLoad \/ Reload
  PROVE  IInv' /\ EditsKept'
<1> USE DEF IInv
<1>1. /\ disk' \in [Paths -> File]
      /\ path_stat' \in Stat /\ stat' \in Stat
      /\ text' \in Text
      /\ modified' \in BOOLEAN /\ readonly' \in BOOLEAN
      /\ previous' \in Nat
      /\ posted' \in Seq(Event)
      /\ owed' \in Texts \cup {NoText}
      /\ astray' \subseteq Why
      /\ astray' = {} => owed' = NoText /\ text' = disk'[path].text
  <2>1. CASE FileLoad
    <3>1. stat' \in Stat
      BY <2>1, SyncedIsStat DEF FileLoad, TypeOK
    <3>2. CASE disk[path].there
      <4>1. PICK answer \in Answers : Load(FALSE, answer)
        BY <2>1, <3>2 DEF FileLoad
      <4>2. QED
        BY <3>1, <4>1, LoadLoads
    <3>3. CASE ~disk[path].there
      BY <2>1, <3>1, <3>3 DEF FileLoad, TypeOK, Why, shown
    <3>4. QED
      BY <3>2, <3>3
  <2>2. CASE Reload
    <3>1. CASE OpensBoth(path)
      <4>1. PICK answer \in Answers :
              Load(TRUE, answer) /\ stat' = IF answer = "yes" THEN path_stat' ELSE stat
        BY <2>2, <3>1 DEF Reload
      <4>2. step # "load"
        BY <2>2 DEF Reload
      <4>3. QED
        BY <4>1, <4>2, LoadLoads DEF TypeOK
    <3>2. CASE ~OpensBoth(path)
      BY <2>2, <3>2 DEF Reload, TypeOK, Why, shown, stats
    <3>3. QED
      BY <3>1, <3>2
  <2>3. QED
    BY <2>1, <2>2
<1>2. step' \in {"ready", "restat"} /\ UNCHANGED <<path, visual, now>>
  BY DEF FileLoad, Reload, bounds
<1>3. TypeOK'
  BY <1>1, <1>2 DEF TypeOK, Steps
<1>4. UnmodifiedIsOnDisk' /\ Settled' /\ EditsKept'
  BY <1>1, <1>2 DEF UnmodifiedIsOnDisk, Settled, EditsKept
<1>5. LogShown'
  BY <1>1, <1>2, PrefixSelf DEF LogShown
<1>6. QED
  BY <1>3, <1>4, <1>5

\* A file with the time of the last stat is the one that is shown.
LEMMA CheckSyncStep ==
  ASSUME IInv, EditsKept, CheckSync
  PROVE  IInv' /\ EditsKept'
<1> USE DEF IInv
<1>1. /\ step = "ready" /\ visual
      /\ path_stat' = Synced(path_stat, path)
      /\ step' = Noticed(Synced(path_stat, path))
      /\ astray' = astray \cup (IF disk[path].there THEN {} ELSE {"gone"})
      /\ UNCHANGED <<disk, path, stat, text, modified, readonly, previous, visual,
                     posted, owed, now>>
  BY DEF CheckSync, shown, bounds
<1>2. /\ Synced(path_stat, path) \in Stat
      /\ Synced(path_stat, path).ok <=> disk[path].there
      /\ disk[path].there => Synced(path_stat, path).mtime = disk[path].mtime
  BY SyncedIsStat DEF TypeOK
<1>3. step' \in {"ready", "reload", "restat"}
  BY <1>1 DEF Noticed
<1>4. step' = "restat" => disk[path].there /\ stat.mtime = disk[path].mtime
  BY <1>1, <1>2 DEF Noticed
<1>5. astray' \subseteq Why
  BY <1>1 DEF TypeOK, Why
<1>6. TypeOK'
  BY <1>1, <1>2, <1>3, <1>5 DEF TypeOK, Steps
<1>7. astray' = {} => astray = {}
  BY <1>1
<1>8. Settled'
  BY <1>1, <1>3, <1>4, <1>7 DEF Settled, UnmodifiedIsOnDisk
<1>9. UnmodifiedIsOnDisk' /\ LogShown' /\ EditsKept'
  BY <1>1, <1>7 DEF UnmodifiedIsOnDisk, LogShown, EditsKept
<1>10. QED
  BY <1>6, <1>8, <1>9

\* The second stat is one of the file that was loaded, or was not changed.
LEMMA RestatStep ==
  ASSUME IInv, EditsKept, Restat
  PROVE  IInv' /\ EditsKept'
<1> USE DEF IInv
<1>1. /\ step = "restat" /\ step' = "ready"
      /\ stat' = Synced(stat, path) /\ readonly' = IsReadonly(path_stat, path)
      /\ UNCHANGED <<disk, path, path_stat, text, modified, previous, visual, posted,
                     owed, astray, now>>
  BY DEF Restat, bounds
<1>2. stat' \in Stat
  BY <1>1, SyncedIsStat DEF TypeOK
<1>3. IsReadonly(path_stat, path) \in BOOLEAN
  BY DEF IsReadonly
<1>4. TypeOK'
  BY <1>1, <1>2, <1>3 DEF TypeOK, Steps
<1>5. UnmodifiedIsOnDisk' /\ Settled' /\ LogShown' /\ EditsKept'
  BY <1>1 DEF UnmodifiedIsOnDisk, Settled, LogShown, EditsKept
<1>6. QED
  BY <1>4, <1>5

\* An event that empties the undo buffer of an edited text puts it astray.
LEMMA FileActionStep ==
  ASSUME IInv, EditsKept, FileAction
  PROVE  IInv' /\ EditsKept'
<1> USE DEF IInv
<1>1. /\ posted # <<>> /\ posted' = Tail(posted)
      /\ UNCHANGED <<disk, path, path_stat, stat, text, previous, visual, step, owed, now>>
  BY DEF FileAction, stats, bounds
<1>2. posted' \in Seq(Event)
  BY <1>1 DEF TypeOK
<1>3. IsReadonly(path_stat, path) \in BOOLEAN /\ disk[path].there \in BOOLEAN
  BY DiskIsFile DEF IsReadonly, TypeOK
<1>4. /\ readonly' \in BOOLEAN /\ modified' \in BOOLEAN
      /\ astray' \subseteq Why
      /\ astray' = {} => astray = {} /\ modified' = modified
  <2>1. CASE LoadEvent
    BY <1>3, <2>1 DEF LoadEvent, TypeOK, Why
  <2>2. CASE SaveEvent
    BY <1>3, <2>2 DEF SaveEvent, TypeOK
  <2>3. QED
    BY <2>1, <2>2 DEF FileAction
<1>5. TypeOK'
  BY <1>1, <1>2, <1>4 DEF TypeOK
<1>6. UnmodifiedIsOnDisk' /\ Settled' /\ LogShown' /\ EditsKept'
  BY <1>1, <1>4 DEF UnmodifiedIsOnDisk, Settled, LogShown, EditsKept
<1>7. QED
  BY <1>5, <1>6

-----------------------------------------------------------------------------
(* Every step, and the theorems.                                           *)

\* Every step keeps the inductive invariant, and the edits.
LEMMA NextInv == IInv /\ EditsKept /\ [Next]_vars => IInv' /\ EditsKept'
<1> SUFFICES ASSUME IInv, EditsKept, [Next]_vars PROVE IInv' /\ EditsKept'
  OBVIOUS
<1>1. CASE Tick
  BY <1>1, TickStep
<1>2. CASE Other
  BY <1>2, OtherStep
<1>3. CASE User
  BY <1>3, TypeStep, SaveStep, SavingStep, OpenStep DEF User
<1>4. CASE Editor
  BY <1>4, SavingStep, SavedStep, LoadStep, RestatStep, FileActionStep DEF Editor
<1>5. CASE CheckSync
  BY <1>5, CheckSyncStep
<1>6. CASE UNCHANGED vars
  <2>1. UNCHANGED <<disk, path, path_stat, stat, text, modified, readonly, previous,
                    visual, step, posted, owed, astray, now>>
    BY <1>6 DEF vars, stats, shown, bounds
  <2>2. TypeOK'
    BY <2>1 DEF IInv, TypeOK
  <2>3. UnmodifiedIsOnDisk' /\ Settled' /\ LogShown' /\ EditsKept'
    BY <2>1 DEF IInv, UnmodifiedIsOnDisk, Settled, LogShown, EditsKept
  <2>4. QED
    BY <2>2, <2>3 DEF IInv
<1>7. QED
  BY <1>1, <1>2, <1>3, <1>4, <1>5, <1>6 DEF Next

\* The inductive invariant holds throughout.
THEOREM InductiveInvariant == Spec => [](IInv /\ EditsKept)
<1>1. QED
  BY InitInv, NextInv, PTL DEF Spec

\* The variables keep their types: what is on disk and what is shown are texts,
\* a stat is one of a second that was.
THEOREM TypeCorrect == Spec => []TypeOK
<1>1. IInv => TypeOK
  BY DEF IInv
<1>2. QED
  BY <1>1, InductiveInvariant, PTL

\* A text that is not modified, of a file with the time of the last stat, is
\* the one on disk, whatever was loaded, saved and written by the other program
\* between the stats and the reads, unless one of the causes came in between.
THEOREM UnmodifiedIsOnDiskAlways == Spec => []UnmodifiedIsOnDisk
<1>1. IInv => UnmodifiedIsOnDisk
  BY DEF IInv
<1>2. QED
  BY <1>1, InductiveInvariant, PTL

\* What the user typed stays in the editor, as a modified text, until it is
\* written or given up.
THEOREM EditsKeptAlways == Spec => []EditsKept
<1>1. QED
  BY InductiveInvariant, PTL
===============================================================================
