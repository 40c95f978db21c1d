----------------------------- MODULE ViMode_proofs ------------------------------
(***************************************************************************)
(* For every set of users, however they mix insertions, commands and       *)
(* repeats: the types of ViMode, that each undo group that is opened is    *)
(* still in use, is closed, or is one of those known to be lost, that vi   *)
(* keeps of an insertion what was inserted and repeats it as it was typed, *)
(* and that escapes lead out of whatever the parser was stuck in.          *)
(***************************************************************************)
EXTENDS ViMode, FiniteSetTheorems, SequenceTheorems, WellFoundedInduction, TLAPS

\* The undo groups in use, but for one of an insertion, and for those lost.
Net(v) == v.undo - v.lost - (IF Insert(v.mode) THEN 1 ELSE 0)

\* The members of vi in a state where n repeats are in progress.
Sound(v, n) == v \in Vi /\ Net(v) = n

-----------------------------------------------------------------------------
(* Sequences of keys.                                                      *)

\* The digits in front end at the first key that is none, or at the end.
LEMMA DigitsEnd ==
  ASSUME NEW r \in Keys
  PROVE  /\ Digits(r) \in 0..Len(r)
         /\ \A i \in 1..Digits(r) : r[i] = "2"
         /\ Digits(r) < Len(r) => r[Digits(r) + 1] # "2"
<1> DEFINE others == {i \in 1..Len(r) : r[i] # "2"}
<1>1. Len(r) \in Nat
  BY DEF Keys
<1>2. \E n \in 0..Len(r) : /\ \A i \in 1..n : r[i] = "2"
                           /\ n < Len(r) => r[n + 1] # "2"
  <2>1. CASE others = {}
    <3>1. \A i \in 1..Len(r) : r[i] = "2"
      BY <2>1
    <3>2. Len(r) \in 0..Len(r)
      BY <1>1
    <3>3. QED
      BY <1>1, <3>1, <3>2
  <2>2. CASE others # {}
    <3>1. others \subseteq Nat
      BY <1>1
    <3>2. PICK m \in others : \A i \in others : ~ (<<i, m>> \in OpToRel(<, Nat))
      BY <2>2, <3>1, NatLessThanWellFounded, WFMin
    <3>3. \A i \in others : ~ (i < m)
      BY <3>1, <3>2 DEF OpToRel
    <3>4. \A i \in 1..(m - 1) : r[i] = "2"
      BY <1>1, <3>1, <3>3
    <3>5. m - 1 \in 0..Len(r) /\ r[(m - 1) + 1] # "2"
      BY <1>1, <3>1
    <3>6. QED
      BY <3>4, <3>5
  <2>3. QED
    BY <2>1, <2>2
<1>3. QED
  BY <1>2 DEF Digits

\* A count, and what follows it, are keys.
LEMMA CountIsKeys ==
  ASSUME NEW r \in Keys
  PROVE  Count(r) \in Keys /\ Uncounted(r) \in Keys
<1>1. Digits(r) \in 0..Len(r) /\ Len(r) \in Nat
  BY DigitsEnd DEF Keys
<1>2. QED
  BY <1>1 DEF Count, Uncounted, Keys

\* The parts of keys.
LEMMA PartsOfKeys ==
  ASSUME NEW r \in Keys, r # <<>>
  PROVE  Head(r) \in Key /\ Tail(r) \in Keys /\ Front(r) \in Keys
  BY DEF Keys, Front

\* Keys put together.
LEMMA JoinedKeys ==
  /\ <<>> \in Keys
  /\ \A r \in Keys, s \in Keys : r \o s \in Keys
  /\ \A r \in Keys, k \in Key : Append(r, k) \in Keys
  BY DEF Keys

-----------------------------------------------------------------------------
(* The members of vi.                                                      *)

\* Its fields.
LEMMA Fields ==
  ASSUME NEW v \in Vi
  PROVE  /\ v.mode \in Mode /\ v.undo \in Nat /\ v.dot \in BOOLEAN /\ v.count \in 1..Many
         /\ v.icmd \in Keys /\ v.text \in Keys /\ v.reg \in Keys /\ v.last \in Keys
         /\ v.rec \in Keys /\ v.shown \in Keys /\ v.lost \in Nat
  BY DEF Vi

\* What is kept of the keys opens and closes no group.
LEMMA KeptSound ==
  ASSUME NEW n \in Nat, NEW v, Sound(v, n), NEW r \in Keys
  PROVE  /\ Sound([v EXCEPT !.icmd = r], n)
         /\ Sound([v EXCEPT !.rec = r], n)
         /\ Sound([v EXCEPT !.last = r], n)
         /\ Sound([v EXCEPT !.count = 1], n)
<1>1. v \in Vi /\ Net(v) = n
  BY DEF Sound
<1>2. /\ [v EXCEPT !.icmd = r] \in Vi /\ [v EXCEPT !.rec = r] \in Vi
      /\ [v EXCEPT !.last = r] \in Vi /\ [v EXCEPT !.count = 1] \in Vi
  BY <1>1 DEF Vi, Many
<1>3. /\ Net([v EXCEPT !.icmd = r]) = Net(v) /\ Net([v EXCEPT !.rec = r]) = Net(v)
      /\ Net([v EXCEPT !.last = r]) = Net(v) /\ Net([v EXCEPT !.count = 1]) = Net(v)
  BY <1>1 DEF Vi, Net
<1>4. QED
  BY <1>1, <1>2, <1>3 DEF Sound

\* Nor does a change of the mode, unless it is one of insertions.
LEMMA ModeSound ==
  ASSUME NEW n \in Nat, NEW v, Sound(v, n), ~Insert(v.mode),
         NEW m \in {"COMMAND", "VISUAL", "VISUAL_BLOCK"}
  PROVE  Sound([v EXCEPT !.mode = m], n)
<1>1. v \in Vi /\ Net(v) = n
  BY DEF Sound
<1>2. [v EXCEPT !.mode = m] \in Vi
  BY <1>1 DEF Vi, Mode
<1>3. Net([v EXCEPT !.mode = m]) = Net(v)
  BY <1>1 DEF Vi, Net, Insert
<1>4. QED
  BY <1>1, <1>2, <1>3 DEF Sound

\* A count.
LEMMA FilteredSound ==
  ASSUME NEW n \in Nat, NEW v, Sound(v, n), NEW r \in Keys
  PROVE  Sound(Filtered(v, r), n)
<1>1. v \in Vi /\ Net(v) = n
  BY DEF Sound
<1>2. v.icmd \o Count(r) \in Keys
  BY <1>1, CountIsKeys, JoinedKeys, Fields
<1> DEFINE w == [v EXCEPT !.count = Many, !.icmd = @ \o Count(r)]
<1>3. w \in Vi
  <2>1. Many \in 1..Many
    BY DEF Many
  <2>2. QED
    BY <1>1, <1>2, <2>1 DEF Vi
<1>4. Net(w) = Net(v)
  BY <1>1 DEF Vi, Net
<1>5. QED
  BY <1>1, <1>3, <1>4 DEF Sound, Filtered

\* The last command.
LEMMA LastingSound ==
  ASSUME NEW n \in Nat, NEW v, Sound(v, n), NEW r \in Keys
  PROVE  /\ Sound(Lasting(v, r), n)
         /\ Lasting(v, r).mode = v.mode
  <1>1. [v EXCEPT !.last = r].mode = v.mode
    BY DEF Sound, Vi
  <1>2. QED
    BY <1>1, KeptSound DEF Lasting

\* An insertion opens a group.
LEMMA EnteredSound ==
  ASSUME NEW n \in Nat, NEW v, Sound(v, n), NEW k \in Key
  PROVE  Sound(Entered(v, k), n)
<1>1. v \in Vi /\ Net(v) = n
  BY DEF Sound
<1> DEFINE u == IF v.dot THEN v
                ELSE [v EXCEPT !.text = <<>>, !.shown = <<>>, !.astray = "no"]
<1>2. /\ u \in Vi /\ u.undo = v.undo /\ u.lost = v.lost /\ u.mode = v.mode
      /\ u.icmd = v.icmd
  BY <1>1, JoinedKeys DEF Vi
<1> HIDE DEF u
<1> DEFINE o == [u EXCEPT !.undo = @ + 1]
<1>3. Opened(v) = o
  BY DEF Opened, u
<1>4. /\ o \in Vi /\ o.undo = v.undo + 1 /\ o.lost = v.lost /\ o.icmd = v.icmd
  BY <1>1, <1>2 DEF Vi
<1> HIDE DEF o
<1>5. CASE v.mode = "COMMAND" /\ ~readonly
  <2>1. Append(o.icmd, k) \in Keys
    BY <1>4, JoinedKeys, Fields
  <2> DEFINE w == [o EXCEPT !.mode = "INSERT", !.icmd = Append(@, k)]
  <2>2. w \in Vi /\ w.undo = v.undo + 1 /\ w.lost = v.lost /\ w.mode = "INSERT"
    BY <1>4, <2>1 DEF Vi, Mode
  <2>3. Entered(v, k) = w
    BY <1>3, <1>5 DEF Entered
  <2> HIDE DEF w
  <2>4. QED
    BY <1>1, <1>5, <2>2, <2>3, Fields DEF Sound, Net, Insert
<1>6. CASE v.mode = "VISUAL_BLOCK"
  <2> DEFINE w == [o EXCEPT !.mode = "INSERT_BLOCK"]
  <2>1. w \in Vi /\ w.undo = v.undo + 1 /\ w.lost = v.lost /\ w.mode = "INSERT_BLOCK"
    BY <1>4 DEF Vi, Mode
  <2>2. Entered(v, k) = w
    BY <1>3, <1>6 DEF Entered
  <2> HIDE DEF w
  <2>3. QED
    BY <1>1, <1>6, <2>1, <2>2, Fields DEF Sound, Net, Insert
<1>7. QED
  BY <1>5, <1>6 DEF Entered

\* An escape closes the group, or leaves it open for good.
LEMMA EscapedSound ==
  ASSUME NEW n \in Nat, NEW v, Sound(v, n)
  PROVE  Sound(Escaped(v), n)
<1>1. v \in Vi /\ Net(v) = n
  BY DEF Sound
<1>2. CASE v.mode = "INSERT"
  <2> DEFINE c == v.icmd \o v.reg \o <<"esc">>
             l == Lasting(v, c)
             w == IF v.dot THEN v ELSE [l EXCEPT !.rec = @ \o c]
             x == [w EXCEPT !.mode = "COMMAND", !.icmd = <<>>, !.undo = @ - 1]
  <2>1. c \in Keys
    <3>1. v.icmd \o v.reg \in Keys
      BY <1>1, Fields, JoinedKeys
    <3>2. <<"esc">> \in Keys
      BY DEF Keys, Key
    <3>3. QED
      BY <3>1, <3>2, JoinedKeys
  <2> HIDE DEF c
  <2>2. Sound(l, n)
    BY <2>1, LastingSound
  <2>3. l.rec \o c \in Keys
    BY <2>1, <2>2, Fields, JoinedKeys DEF Sound
  <2>4. l.mode = v.mode
    BY <2>1, LastingSound
  <2> HIDE DEF l
  <2>5. Sound(w, n) /\ w.mode = "INSERT"
    <3>1. Sound([l EXCEPT !.rec = l.rec \o c], n)
      BY <2>2, <2>3, KeptSound
    <3>2. [l EXCEPT !.rec = l.rec \o c].mode = l.mode
      BY <2>2 DEF Sound, Vi
    <3>3. QED
      BY <1>2, <2>4, <3>1, <3>2
  <2>6. Escaped(v) = x
    BY <1>2 DEF Escaped, Closed, c, l
  <2> HIDE DEF w
  <2>7. w \in Vi /\ w.undo \in Nat /\ w.lost \in Nat /\ w.undo - w.lost - 1 = n
    BY <2>5, Fields DEF Sound, Net, Insert
  <2>8. w.undo - 1 \in Nat
    BY <2>7
  <2>9. x \in Vi /\ x.undo = w.undo - 1 /\ x.lost = w.lost /\ x.mode = "COMMAND"
    BY <2>7, <2>8, JoinedKeys DEF Vi, Mode
  <2> HIDE DEF x
  <2>10. Net(x) = n
    BY <2>7, <2>9 DEF Net, Insert
  <2>11. QED
    BY <2>6, <2>9, <2>10 DEF Sound
<1>3. CASE v.mode = "INSERT_BLOCK"
  <2> DEFINE x == [v EXCEPT !.mode = "VISUAL_BLOCK", !.lost = @ + 1]
  <2>1. x \in Vi /\ x.undo = v.undo /\ x.lost = v.lost + 1 /\ x.mode = "VISUAL_BLOCK"
    <3>1. v.lost + 1 \in Nat /\ "VISUAL_BLOCK" \in Mode
      BY <1>1, Fields DEF Mode
    <3>2. QED
      BY <1>1, <3>1 DEF Vi
  <2>2. Escaped(v) = x
    BY <1>3 DEF Escaped
  <2> HIDE DEF x
  <2>3. QED
    BY <1>1, <1>3, <2>1, <2>2, Fields DEF Sound, Net, Insert
<1>4. CASE ~Insert(v.mode)
  BY <1>4, ModeSound DEF Escaped, Insert
<1>5. QED
  BY <1>2, <1>3, <1>4 DEF Insert

\* Typed text is kept, and goes into the register.
LEMMA AppendedSound ==
  ASSUME NEW n \in Nat, NEW v, Sound(v, n), NEW r \in Keys
  PROVE  Sound(Appended(v, r), n)
<1>1. v \in Vi /\ Net(v) = n
  BY DEF Sound
<1>2. v.text \o r \in Keys
  BY <1>1, Fields, JoinedKeys
<1> DEFINE w == [v EXCEPT !.text = @ \o r, !.reg = v.text \o r]
<1>3. w \in Vi
  BY <1>1, <1>2 DEF Vi
<1>4. Net(w) = Net(v)
  BY <1>1 DEF Vi, Net
<1>5. QED
  BY <1>1, <1>3, <1>4 DEF Sound, Appended

Causes == {"no", "rest", "list", "word", "moved", "outside", "readonly"}

\* The history of an insertion opens and closes no group.
LEMMA HistorySound ==
  ASSUME NEW n \in Nat, NEW v, Sound(v, n), NEW r \in Keys, NEW t \in Keys,
         NEW cause \in Causes
  PROVE  Sound([v EXCEPT !.text = t, !.shown = r, !.astray = cause], n)
<1>1. v \in Vi /\ Net(v) = n
  BY DEF Sound
<1> DEFINE w == [v EXCEPT !.text = t, !.shown = r, !.astray = cause]
<1>2. w \in Vi
  BY <1>1 DEF Vi, Causes
<1>3. Net(w) = Net(v)
  BY <1>1 DEF Vi, Net
<1>4. QED
  BY <1>1, <1>2, <1>3 DEF Sound

\* A cause remains the one that was first.
LEMMA AstrayIsCause ==
  ASSUME NEW v \in Vi, NEW cause \in Causes
  PROVE  v.astray \in Causes /\ Astray(v, cause) \in Causes
  BY DEF Vi, Causes, Astray

\* What is shown remains keys.
LEMMA ShownIsKeys ==
  ASSUME NEW v \in Vi, NEW r \in Keys
  PROVE  Shown(v, r) \in Keys
  BY Fields DEF Shown

\* Text is inserted, and an escape at its end closes the group.
LEMMA InsertedSound ==
  ASSUME NEW n \in Nat, NEW v, Sound(v, n), NEW r \in Keys, r # <<>>
  PROVE  Sound(Inserted(v, r), n)
<1>1. v \in Vi
  BY DEF Sound
<1>2. v.shown \o Front(r) \in Keys /\ v.shown \o r \in Keys
  BY <1>1, PartsOfKeys, JoinedKeys, Fields
<1>3. Shown(v, v.shown \o Front(r)) \in Keys /\ Shown(v, v.shown \o r) \in Keys
  BY <1>1, <1>2, ShownIsKeys
<1>4. CASE Ends(r)
  <2> DEFINE g == IF v.text # <<>> THEN v.text ELSE v.reg
             h == Shown(v, v.shown \o Front(r))
             a == IF Len(r) > 1 /\ ~v.dot THEN Astray(v, "rest") ELSE v.astray
             w == [v EXCEPT !.reg = g, !.shown = h, !.astray = a]
  <2>1. g \in Keys /\ h \in Keys /\ a \in Causes
    BY <1>1, <1>3, Fields, AstrayIsCause DEF Causes
  <2>2. Inserted(v, r) = Escaped(w)
    BY <1>4 DEF Inserted
  <2> HIDE DEF g, h, a
  <2>3. w \in Vi /\ Net(w) = Net(v)
    BY <1>1, <2>1 DEF Vi, Net, Causes
  <2>4. QED
    BY <2>2, <2>3, EscapedSound DEF Sound
<1>5. CASE ~Ends(r)
  <2> DEFINE h == Shown(v, v.shown \o r)
             u == Appended(v, r)
             w == [u EXCEPT !.shown = h]
  <2>1. Sound(u, n)
    BY AppendedSound
  <2>2. u.shown = v.shown
    BY <1>1 DEF Appended, Vi
  <2>3. Inserted(v, r) = w
    BY <1>5, <2>2 DEF Inserted
  <2> HIDE DEF u, h
  <2>4. h \in Keys
    BY <1>3 DEF h
  <2>5. w \in Vi /\ Net(w) = Net(u)
    BY <2>1, <2>4 DEF Sound, Vi, Net
  <2>6. QED
    BY <2>1, <2>3, <2>5 DEF Sound
<1>6. QED
  BY <1>4, <1>5

-----------------------------------------------------------------------------
(* The calls in progress.                                                  *)

RepeatsOf(q) == {i \in DOMAIN q : q[i].op = "repeat"}

InProgress(q) == Cardinality(RepeatsOf(q))

\* The repeats among calls can be counted.
LEMMA RepeatsFinite ==
  ASSUME NEW q \in Seq(Call)
  PROVE  /\ IsFiniteSet(RepeatsOf(q)) /\ InProgress(q) \in Nat
         /\ RepeatsOf(q) \subseteq 1..Len(q) /\ Len(q) \in Nat
<1>1. Len(q) \in Nat /\ RepeatsOf(q) \subseteq 1..Len(q)
  BY DEF RepeatsOf
<1>2. IsFiniteSet(1..Len(q))
  BY <1>1, FS_Interval
<1>3. IsFiniteSet(RepeatsOf(q))
  BY <1>1, <1>2, FS_Subset
<1>4. QED
  BY <1>1, <1>3, FS_CardinalityType DEF InProgress

\* A call is made.
LEMMA CallMade ==
  ASSUME NEW q \in Seq(Call), NEW c \in Call
  PROVE  /\ Append(q, c) \in Seq(Call)
         /\ InProgress(Append(q, c)) = InProgress(q) + (IF c.op = "repeat" THEN 1 ELSE 0)
<1> DEFINE l == Len(q) + 1
<1>1. /\ Append(q, c) \in Seq(Call) /\ DOMAIN Append(q, c) = 1..l
      /\ DOMAIN q = 1..Len(q) /\ Len(q) \in Nat
      /\ \A i \in 1..Len(q) : Append(q, c)[i] = q[i]
      /\ Append(q, c)[l] = c
  OBVIOUS
<1>2. IsFiniteSet(RepeatsOf(q)) /\ l \notin RepeatsOf(q) /\ InProgress(q) \in Nat
  BY <1>1, RepeatsFinite
<1>3. CASE c.op = "repeat"
  <2>1. RepeatsOf(Append(q, c)) = RepeatsOf(q) \cup {l}
    BY <1>1, <1>3 DEF RepeatsOf
  <2>2. QED
    BY <1>1, <1>2, <1>3, <2>1, FS_AddElement DEF InProgress
<1>4. CASE c.op # "repeat"
  <2>1. RepeatsOf(Append(q, c)) = RepeatsOf(q)
    BY <1>1, <1>4 DEF RepeatsOf
  <2>2. QED
    BY <1>1, <1>2, <1>4, <2>1 DEF InProgress
<1>5. QED
  BY <1>3, <1>4

\* A call returns.
LEMMA CallReturned ==
  ASSUME calls \in Seq(Call), calls # <<>>
  PROVE  /\ Below \in Seq(Call) /\ Top \in Call
         /\ InProgress(Below) \in Nat
         /\ InProgress(calls) = InProgress(Below) + (IF Top.op = "repeat" THEN 1 ELSE 0)
<1>1. /\ Below \in Seq(Call) /\ Top \in Call /\ calls = Append(Below, Top)
  BY DEF Below, Top
<1>2. QED
  BY <1>1, CallMade, RepeatsFinite

\* The call on top parses on.
LEMMA RestOfCall ==
  ASSUME calls \in Seq(Call), calls # <<>>, NEW r \in Keys
  PROVE  Rest(r) \in Seq(Call) /\ InProgress(Rest(r)) = InProgress(calls)
<1>1. /\ Below \in Seq(Call) /\ Top \in Call
      /\ InProgress(calls) = InProgress(Below) + (IF Top.op = "repeat" THEN 1 ELSE 0)
  BY CallReturned
<1>2. [Top EXCEPT !.rest = r] \in Call /\ [Top EXCEPT !.rest = r].op = Top.op
  BY <1>1 DEF Call
<1>3. QED
  BY <1>1, <1>2, CallMade DEF Rest

-----------------------------------------------------------------------------
(* The inductive invariant, and what the steps have in common.             *)

IInv == TypeOK /\ UndoBalanced

\* In a program that runs, the groups in use are those of the repeats.
LEMMA Balance ==
  ASSUME TypeOK
  PROVE  UndoBalanced <=> (alive => Net(vi) = InProgress(calls))
<1>1. vi \in Vi /\ calls \in Seq(Call)
  BY DEF TypeOK
<1>2. Repeats = RepeatsOf(calls) /\ InProgress(calls) \in Nat
  BY <1>1, RepeatsFinite DEF Repeats, RepeatsOf
<1>3. vi.undo \in Nat /\ vi.lost \in Nat
  BY <1>1, Fields
<1>4. QED
  BY <1>2, <1>3 DEF UndoBalanced, Net, InProgress

\* The same after a step.
LEMMA BalanceAfter ==
  ASSUME vi' \in Vi, calls' \in Seq(Call), Net(vi') = InProgress(calls')
  PROVE  UndoBalanced'
<1>1. Repeats' = RepeatsOf(calls') /\ InProgress(calls') \in Nat
  BY RepeatsFinite DEF Repeats, RepeatsOf
<1>2. vi'.undo \in Nat /\ vi'.lost \in Nat
  BY Fields
<1>3. QED
  BY <1>1, <1>2 DEF UndoBalanced, Net, InProgress

\* vi::command parses on.
LEMMA GoStep ==
  ASSUME IInv, alive, calls # <<>>, NEW v, Sound(v, InProgress(calls)),
         NEW r \in Keys, Go(v, r), UNCHANGED <<quiet, user>>
  PROVE  IInv'
<1>1. /\ vi' = v /\ calls' = Rest(r)
      /\ UNCHANGED <<user, buffer, readonly, ac, alive, session, typed, fresh, escapes>>
  BY DEF Go, quiet, history
<1>2. calls' \in Seq(Call) /\ InProgress(calls') = InProgress(calls)
  BY <1>1, RestOfCall DEF IInv, TypeOK
<1>3. vi' \in Vi /\ Net(vi') = InProgress(calls')
  BY <1>1, <1>2 DEF Sound
<1>4. TypeOK'
  BY <1>1, <1>2, <1>3 DEF IInv, TypeOK
<1>5. QED
  BY <1>2, <1>3, <1>4, BalanceAfter DEF IInv

\* vi::command returns.
LEMMA ReturnStep ==
  ASSUME IInv, alive, calls # <<>>, Top.op = "command",
         NEW v, Sound(v, InProgress(calls)), NEW b \in Keys, NEW ok \in BOOLEAN,
         Return(v, b, ok), UNCHANGED <<quiet, user>>
  PROVE  IInv'
<1>1. /\ calls' = Below
      /\ buffer' \in Keys
      /\ vi' \in {v, [v EXCEPT !.icmd = <<>>]}
      /\ UNCHANGED <<user, readonly, ac, alive, session, typed, fresh, escapes>>
  BY JoinedKeys DEF Return, quiet, history
<1>2. /\ calls' \in Seq(Call) /\ InProgress(calls') = InProgress(calls)
      /\ InProgress(calls) \in Nat
  BY <1>1, CallReturned DEF IInv, TypeOK
<1>3. Sound(vi', InProgress(calls))
  <2>1. Sound([v EXCEPT !.icmd = <<>>], InProgress(calls))
    BY <1>2, JoinedKeys, KeptSound
  <2>2. QED
    BY <1>1, <2>1
<1>4. vi' \in Vi /\ Net(vi') = InProgress(calls')
  BY <1>2, <1>3 DEF Sound
<1>5. TypeOK'
  BY <1>1, <1>2, <1>4 DEF IInv, TypeOK
<1>6. QED
  BY <1>2, <1>4, <1>5, BalanceAfter DEF IInv

\* The call on top, while it runs.
LEMMA RunningTop ==
  ASSUME IInv, alive, calls # <<>>
  PROVE  /\ Top \in Call /\ Top.rest \in Keys /\ Full \in Keys /\ buffer \in Keys
         /\ Top.n \in Nat
         /\ InProgress(calls) \in Nat
         /\ Sound(vi, InProgress(calls))
<1>1. calls \in Seq(Call) /\ buffer \in Keys /\ vi \in Vi
  BY DEF IInv, TypeOK
<1>2. Top \in Call
  BY <1>1, CallReturned
<1>3. Top.rest \in Keys /\ Full \in Keys /\ Top.n \in Nat
  BY <1>1, <1>2 DEF Call, Full
<1>4. Sound(vi, InProgress(calls))
  BY <1>1, Balance DEF IInv, Sound
<1>5. QED
  BY <1>1, <1>2, <1>3, <1>4, RepeatsFinite

\* The count, and what was typed after it.
LEMMA ParsingTop ==
  ASSUME IInv, Parsing
  PROVE  /\ alive /\ calls # <<>> /\ Top.op = "command" /\ ~Insert(vi.mode)
         /\ Top.rest \in Keys /\ Full \in Keys /\ buffer \in Keys
         /\ InProgress(calls) \in Nat
         /\ Sound(Counted, InProgress(calls)) /\ Counted.mode = vi.mode
         /\ Sound(Cleared, InProgress(calls))
         /\ Typing \in Keys
         /\ Typing # <<>> => K1 \in Key /\ Tail(Typing) \in Keys
<1> DEFINE n == InProgress(calls)
<1>1. alive /\ calls # <<>> /\ Top.op = "command" /\ ~Insert(vi.mode)
  BY DEF Parsing, Running
<1>2. /\ Top.rest \in Keys /\ Full \in Keys /\ buffer \in Keys
      /\ n \in Nat /\ Sound(vi, n)
  BY <1>1, RunningTop
<1> HIDE DEF n
<1>3. Sound([vi EXCEPT !.count = 1], n) /\ [vi EXCEPT !.count = 1].mode = vi.mode
  BY <1>2, JoinedKeys, KeptSound DEF Sound, Vi
<1>4. Sound(Counted, n)
  BY <1>2, <1>3, FilteredSound DEF Counted
<1>5. Counted.mode = vi.mode
  BY <1>3 DEF Counted, Filtered, Sound, Vi
<1>6. Sound(Cleared, n)
  BY <1>2, <1>4, JoinedKeys, KeptSound DEF Cleared
<1>7. Typing \in Keys
  BY <1>2, CountIsKeys DEF Typing
<1>8. Typing # <<>> => K1 \in Key /\ Tail(Typing) \in Keys
  BY <1>7, PartsOfKeys DEF K1
<1>9. QED
  BY <1>1, <1>2, <1>4, <1>5, <1>6, <1>7, <1>8 DEF n

-----------------------------------------------------------------------------
(* vi::command, a command at a time.                                       *)

\* Text.
LEMMA InsertsStep ==
  ASSUME IInv, CommandInserts, UNCHANGED user
  PROVE  IInv'
<1> DEFINE v == Inserted(vi, Top.rest)
           b == InsertedBuffer(vi, Top.rest)
<1>1. alive /\ calls # <<>> /\ Top.op = "command" /\ Top.rest # <<>>
  BY DEF CommandInserts, Running
<1>2. Top.rest \in Keys /\ buffer \in Keys /\ InProgress(calls) \in Nat
  BY <1>1, RunningTop
<1>3. Sound(v, InProgress(calls))
  BY <1>1, <1>2, RunningTop, InsertedSound
<1>4. b \in Keys
  BY <1>2, JoinedKeys DEF InsertedBuffer, EscapedBuffer
<1>5. /\ \/ Return(v, b, TRUE)
         \/ vi' = v /\ buffer' = b /\ calls' = Rest(<<>>)
      /\ UNCHANGED <<quiet, user>>
  BY DEF CommandInserts
<1> HIDE DEF v, b
<1>6. CASE Return(v, b, TRUE)
  BY <1>1, <1>3, <1>4, <1>5, <1>6, ReturnStep
<1>7. CASE vi' = v /\ buffer' = b /\ calls' = Rest(<<>>)
  <2>1. calls' \in Seq(Call) /\ InProgress(calls') = InProgress(calls)
    BY <1>1, <1>7, JoinedKeys, RestOfCall DEF IInv, TypeOK
  <2>2. vi' \in Vi /\ Net(vi') = InProgress(calls')
    BY <1>3, <1>7, <2>1 DEF Sound
  <2>3. TypeOK'
    BY <1>4, <1>5, <1>7, <2>1, <2>2 DEF IInv, TypeOK, quiet, history
  <2>4. QED
    BY <2>1, <2>2, <2>3, BalanceAfter DEF IInv
<1>8. QED
  BY <1>5, <1>6, <1>7

\* Two escapes.
LEMMA CancelsStep ==
  ASSUME IInv, CommandCancels, UNCHANGED user
  PROVE  IInv'
<1>1. alive /\ calls # <<>> /\ Top.op = "command"
  BY DEF CommandCancels, Running
<1> DEFINE v == Escaped(vi)
           w == IF Below = <<>> THEN [v EXCEPT !.icmd = <<>>] ELSE v
<1>2. Sound(v, InProgress(calls))
  BY <1>1, RunningTop, EscapedSound
<1>3. Return(w, <<>>, TRUE) /\ UNCHANGED <<quiet, user>>
  BY DEF CommandCancels
<1>4. Sound(w, InProgress(calls))
  <2> HIDE DEF v
  <2>1. Sound([v EXCEPT !.icmd = <<>>], InProgress(calls))
    BY <1>1, <1>2, RunningTop, JoinedKeys, KeptSound
  <2>2. QED
    BY <1>2, <2>1
<1> HIDE DEF w
<1>5. QED
  BY <1>1, <1>3, <1>4, JoinedKeys, ReturnStep

\* Keys that are no command, a motion, and x, dd or yy.
LEMMA KeysStep ==
  ASSUME IInv, OnlyCount \/ Motion \/ NoCommand \/ Double, UNCHANGED user
  PROVE  IInv'
<1> DEFINE n == InProgress(calls)
<1>1. Parsing /\ UNCHANGED <<quiet, user>>
  BY DEF OnlyCount, Motion, NoCommand, Double, Operator
<1>2. /\ alive /\ calls # <<>> /\ Top.op = "command" /\ n \in Nat
      /\ Sound(Counted, n) /\ Sound(Cleared, n) /\ buffer \in Keys
  BY <1>1, ParsingTop
<1>3. Sound([Cleared EXCEPT !.count = 1], n)
  BY <1>2, JoinedKeys, KeptSound
<1> HIDE DEF n
<1>4. CASE OnlyCount
  <2>1. Return(Counted, buffer, FALSE)
    BY <1>4 DEF OnlyCount
  <2>2. QED
    BY <1>1, <1>2, <2>1, ReturnStep DEF n
<1>5. CASE Motion
  <2>1. CASE Go([Cleared EXCEPT !.count = 1], Tail(Typing))
    <3>1. Tail(Typing) \in Keys
      BY <1>1, <1>5, ParsingTop DEF Motion
    <3>2. QED
      BY <1>1, <1>2, <1>3, <2>1, <3>1, GoStep DEF n
  <2>2. CASE Return(Cleared, <<>>, FALSE)
    BY <1>1, <1>2, <2>2, JoinedKeys, ReturnStep DEF n
  <2>3. QED
    BY <1>5, <2>1, <2>2 DEF Motion
<1>6. CASE NoCommand
  <2>1. Return(Cleared, buffer, FALSE)
    BY <1>6 DEF NoCommand
  <2>2. QED
    BY <1>1, <1>2, <2>1, ReturnStep DEF n
<1>7. CASE Double
  <2>1. Go(Counted, <<>>)
    BY <1>7 DEF Double
  <2>2. QED
    BY <1>1, <1>2, <2>1, JoinedKeys, GoStep DEF n
<1>8. QED
  BY <1>4, <1>5, <1>6, <1>7

\* A key that changes the mode.
LEMMA ModeStep ==
  ASSUME IInv, ChangeMode \/ OperatorOnSelection, UNCHANGED user
  PROVE  IInv'
<1> DEFINE n == InProgress(calls)
<1>1. Parsing /\ Typing # <<>> /\ UNCHANGED <<quiet, user>>
  BY DEF ChangeMode, OperatorOnSelection
<1>2. /\ alive /\ calls # <<>> /\ Top.op = "command" /\ n \in Nat
      /\ Sound(Counted, n) /\ ~Insert(Counted.mode) /\ buffer \in Keys
      /\ K1 \in Key /\ Tail(Typing) \in Keys
  BY <1>1, ParsingTop
<1> HIDE DEF n
<1>3. CASE ChangeMode
  <2> DEFINE v == Transited(Counted, K1)
  <2>1. Go(v, Tail(Typing)) /\ K1 \in Transitions
    BY <1>3 DEF ChangeMode
  <2>2. Sound(v, n)
    BY <1>2, <2>1, EnteredSound, ModeSound, EscapedSound DEF Transited, Transitions
  <2> HIDE DEF v
  <2>3. QED
    BY <1>1, <1>2, <2>1, <2>2, GoStep DEF n
<1>4. CASE OperatorOnSelection
  <2> DEFINE e == Escaped(Counted)
             v == IF K1 = "c" THEN Entered(e, "i") ELSE e
  <2>1. Go(v, <<>>) \/ Return(v, buffer, FALSE)
    BY <1>4 DEF OperatorOnSelection
  <2>2. Sound(e, n)
    BY <1>2, EscapedSound
  <2> HIDE DEF e
  <2>3. Sound(v, n)
    BY <1>2, <2>2, EnteredSound DEF Key
  <2> HIDE DEF v
  <2>4. QED
    BY <1>1, <1>2, <2>1, <2>3, JoinedKeys, GoStep, ReturnStep DEF n
<1>5. QED
  BY <1>3, <1>4

-----------------------------------------------------------------------------
(* Operators that take a motion.                                           *)

\* Before the motion, and after its count.
LEMMA OperatorTop ==
  ASSUME IInv, Operator
  PROVE  /\ alive /\ calls # <<>> /\ Top.op = "command"
         /\ InProgress(calls) \in Nat /\ buffer \in Keys
         /\ Operand \in Keys /\ Uncounted(Operand) \in Keys
         /\ Uncounted(Operand) # <<>> => Tail(Uncounted(Operand)) \in Keys
         /\ Sound(Counted, InProgress(calls)) /\ Sound(Before, InProgress(calls))
         /\ Sound(Moving, InProgress(calls))
         /\ K1 # "c" => ~Insert(Moving.mode)
<1> DEFINE n == InProgress(calls)
<1>1. Parsing /\ Typing # <<>>
  BY DEF Operator
<1>2. /\ alive /\ calls # <<>> /\ Top.op = "command" /\ n \in Nat
      /\ Sound(Counted, n) /\ ~Insert(Counted.mode) /\ buffer \in Keys
      /\ Tail(Typing) \in Keys
  BY <1>1, ParsingTop
<1> HIDE DEF n
<1>3. Operand \in Keys /\ Uncounted(Operand) \in Keys
  BY <1>2, CountIsKeys DEF Operand
<1>4. Uncounted(Operand) # <<>> => Tail(Uncounted(Operand)) \in Keys
  BY <1>3, PartsOfKeys
<1>5. Sound(Before, n)
  BY <1>2, EnteredSound DEF Before, Key
<1>6. Sound(Moving, n)
  BY <1>2, <1>3, <1>5, FilteredSound DEF Moving
<1>7. K1 # "c" => Moving.mode = Counted.mode
  BY <1>2 DEF Moving, Before, Filtered, Sound, Vi
<1>8. QED
  BY <1>2, <1>3, <1>4, <1>5, <1>6, <1>7 DEF n

\* A motion becomes part of the insert command.
LEMMA MovedSound ==
  ASSUME NEW n \in Nat, NEW v, Sound(v, n)
  PROVE  Sound(Moved(v), n)
<1>1. v \in Vi /\ Net(v) = n
  BY DEF Sound
<1> DEFINE i == IF v.icmd = <<>> THEN v.icmd ELSE Append(v.icmd, "w")
           w == [v EXCEPT !.icmd = i, !.count = 1]
<1>2. i \in Keys
  BY <1>1, Fields, JoinedKeys DEF Key
<1>3. Moved(v) = w
  BY DEF Moved
<1> HIDE DEF i
<1>4. 1 \in 1..Many
  BY DEF Many
<1>5. w \in Vi /\ Net(w) = Net(v)
  BY <1>1, <1>2, <1>4 DEF Vi, Net
<1>6. QED
  BY <1>1, <1>3, <1>5 DEF Sound

\* c, d and y with a motion, or with none.
LEMMA OperatorStep ==
  ASSUME IInv, OperatorKeepsMotion \/ Change \/ Delete \/ Yank \/ NoOperand, UNCHANGED user
  PROVE  IInv'
<1> DEFINE n == InProgress(calls)
<1>1. Operator /\ UNCHANGED <<quiet, user>>
  BY DEF OperatorKeepsMotion, Change, Delete, Yank, NoOperand
<1>2. /\ alive /\ calls # <<>> /\ Top.op = "command" /\ n \in Nat /\ buffer \in Keys
      /\ Operand \in Keys
      /\ Uncounted(Operand) # <<>> => Tail(Uncounted(Operand)) \in Keys
      /\ Sound(Before, n) /\ Sound(Moving, n)
      /\ K1 # "c" => ~Insert(Moving.mode)
  BY <1>1, OperatorTop
<1> DEFINE r == Tail(Uncounted(Operand))
<1> HIDE DEF n
<1>3. IsMotion => r \in Keys
  BY <1>2 DEF IsMotion
<1> HIDE DEF r
<1>4. Sound(Moved(Moving), n) /\ Sound(Escaped(Moving), n)
  BY <1>2, MovedSound, EscapedSound
<1>5. CASE OperatorKeepsMotion
  <2>1. Go(Before, Operand) \/ Return(Before, buffer, FALSE)
    BY <1>5 DEF OperatorKeepsMotion
  <2>2. QED
    BY <1>1, <1>2, <2>1, GoStep, ReturnStep DEF n
<1>6. CASE Change
  <2>1. (Go(Moved(Moving), r) /\ IsMotion) \/ Return(Escaped(Moving), <<>>, FALSE)
    BY <1>6 DEF Change, r
  <2>2. QED
    BY <1>1, <1>2, <1>3, <1>4, <2>1, JoinedKeys, GoStep, ReturnStep DEF n
<1>7. CASE Delete
  <2>1. \/ Go(Moving, <<>>)
        \/ Go(Moved(Moving), r) /\ IsMotion
        \/ Return(Moving, <<>>, FALSE)
    BY <1>7 DEF Delete, r
  <2>2. QED
    BY <1>1, <1>2, <1>3, <1>4, <2>1, JoinedKeys, GoStep, ReturnStep DEF n
<1>8. CASE Yank
  <2> DEFINE v == IF Visual(vi.mode) THEN Moving ELSE Transited(Moving, "v")
  <2>1. (Go(Moved(Escaped(v)), r) /\ IsMotion) \/ Return(v, <<>>, FALSE)
    BY <1>8 DEF Yank, r
  <2>2. K1 # "c"
    BY <1>8 DEF Yank
  <2>3. Sound(Transited(Moving, "v"), n)
    BY <1>2, <2>2, ModeSound DEF Transited
  <2>4. Sound(v, n)
    BY <1>2, <2>3
  <2> HIDE DEF v
  <2>5. Sound(Moved(Escaped(v)), n)
    BY <1>2, <2>4, MovedSound, EscapedSound
  <2>6. QED
    BY <1>1, <1>2, <1>3, <2>1, <2>4, <2>5, JoinedKeys, GoStep, ReturnStep DEF n
<1>9. CASE NoOperand
  <2>1. Return(Moving, buffer, FALSE)
    BY <1>9 DEF NoOperand
  <2>2. QED
    BY <1>1, <1>2, <2>1, ReturnStep DEF n
<1>10. QED
  BY <1>5, <1>6, <1>7, <1>8, <1>9

-----------------------------------------------------------------------------
(* Other commands, and the repeat command.                                 *)

\* Where other_command runs.
LEMMA OtherTop ==
  ASSUME IInv, IsOther
  PROVE  /\ alive /\ calls # <<>> /\ Top.op = "command"
         /\ InProgress(calls) \in Nat /\ buffer \in Keys
         /\ Sound(Other.v, InProgress(calls)) /\ Sound(Other.failed, InProgress(calls))
         /\ Other.rest \in Keys /\ Other.tries \in {1, 2}
<1> DEFINE n == InProgress(calls)
<1>1. Parsing
  BY DEF IsOther
<1>2. /\ alive /\ calls # <<>> /\ Top.op = "command" /\ n \in Nat /\ buffer \in Keys
      /\ Sound(Counted, n) /\ Sound(Cleared, n)
  BY <1>1, ParsingTop
<1>3. CASE K1 \in {"x", "~", "."}
  BY <1>2, <1>3, JoinedKeys DEF Other
<1>4. CASE K1 \notin {"x", "~", "."}
  <2>1. Operator /\ Uncounted(Operand) # <<>>
    BY <1>4 DEF IsOther, Doubled
  <2>2. Sound(Moving, n) /\ Tail(Uncounted(Operand)) \in Keys
    BY <2>1, OperatorTop
  <2> DEFINE r == IF Doubled(Uncounted(Operand)) THEN <<>> ELSE Tail(Uncounted(Operand))
  <2>3. r \in Keys
    BY <2>2, JoinedKeys
  <2>4. /\ Other.v = Moving /\ Other.failed = Moving /\ Other.rest = r
        /\ Other.tries = 1
    BY <1>4 DEF Other
  <2> HIDE DEF r
  <2>5. QED
    BY <1>2, <2>2, <2>3, <2>4
<1>5. QED
  BY <1>3, <1>4

\* x, dd or yy.
LEMMA EditStep ==
  ASSUME IInv, Edit, UNCHANGED user
  PROVE  IInv'
<1>1. IsOther /\ Go(Other.v, Other.rest) /\ UNCHANGED <<quiet, user>>
  BY DEF Edit
<1>2. QED
  BY <1>1, OtherTop, GoStep

\* The groups that ~ leaves open are lost.
LEMMA TildeStep ==
  ASSUME IInv, Tilde, UNCHANGED user
  PROVE  IInv'
<1> DEFINE n == InProgress(calls)
           left == IF readonly THEN 0 ELSE Other.tries
           f == Other.failed
           v == [f EXCEPT !.undo = @ + left, !.lost = @ + left]
<1>1. /\ IsOther /\ UNCHANGED <<quiet, user>>
      /\ Go(Other.v, Other.rest) \/ Return(v, buffer, FALSE)
  BY DEF Tilde
<1>2. /\ alive /\ calls # <<>> /\ Top.op = "command" /\ n \in Nat /\ buffer \in Keys
      /\ Sound(Other.v, n) /\ Sound(f, n) /\ Other.rest \in Keys
      /\ left \in Nat
  BY <1>1, OtherTop
<1> HIDE DEF n, f, left
<1>3. f \in Vi /\ Net(f) = n /\ f.undo + left \in Nat /\ f.lost + left \in Nat
  BY <1>2, Fields DEF Sound
<1>4. v \in Vi
  BY <1>3 DEF Vi
<1>5. v.undo = f.undo + left /\ v.lost = f.lost + left /\ v.mode = f.mode
  BY <1>3 DEF Vi
<1> HIDE DEF v
<1>6. Sound(v, n)
  BY <1>2, <1>3, <1>4, <1>5, Fields DEF Sound, Net
<1>7. QED
  BY <1>1, <1>2, <1>6, GoStep, ReturnStep DEF n

\* A repeat opens a group that is its own.
LEMMA StartRepeatStep ==
  ASSUME IInv, StartRepeat, UNCHANGED user
  PROVE  IInv'
<1> DEFINE n == InProgress(calls)
           o == Other.v
           v == [o EXCEPT !.dot = TRUE, !.undo = @ + 1]
           c == [op |-> "repeat", full |-> <<>>, rest |-> <<>>, n |-> 0]
<1>1. IsOther /\ UNCHANGED <<readonly, ac, history, user>>
  BY DEF StartRepeat
<1>2. /\ alive /\ calls # <<>> /\ Top.op = "command" /\ n \in Nat /\ buffer \in Keys
      /\ Sound(o, n) /\ Other.rest \in Keys
  BY <1>1, OtherTop
<1>3. \/ Go(o, Other.rest) /\ UNCHANGED alive
      \/ vi' = v /\ calls' = Append(Rest(Other.rest), c) /\ UNCHANGED <<buffer, alive>>
      \/ alive' = FALSE /\ UNCHANGED <<vi, buffer, calls>>
  BY DEF StartRepeat
<1>4. c \in Call /\ c.op = "repeat"
  BY JoinedKeys DEF Call
<1> HIDE DEF n, o, c
<1>5. CASE Go(o, Other.rest) /\ UNCHANGED alive
  BY <1>1, <1>2, <1>5, GoStep DEF n, quiet
<1>6. CASE vi' = v /\ calls' = Append(Rest(Other.rest), c) /\ UNCHANGED <<buffer, alive>>
  <2>1. o \in Vi /\ Net(o) = n /\ o.undo + 1 \in Nat
    BY <1>2, Fields DEF Sound
  <2>2. v \in Vi /\ v.undo = o.undo + 1 /\ v.lost = o.lost /\ v.mode = o.mode
    BY <2>1 DEF Vi
  <2> HIDE DEF v
  <2>3. Net(v) = n + 1
    BY <1>2, <2>1, <2>2, Fields DEF Net
  <2>4. Rest(Other.rest) \in Seq(Call) /\ InProgress(Rest(Other.rest)) = n
    BY <1>2, RestOfCall DEF IInv, TypeOK, n
  <2>5. calls' \in Seq(Call) /\ InProgress(calls') = n + 1
    BY <1>4, <1>6, <2>4, CallMade
  <2>6. TypeOK'
    BY <1>1, <1>2, <1>6, <2>2, <2>5 DEF IInv, TypeOK, history
  <2>7. QED
    BY <1>6, <2>2, <2>3, <2>5, <2>6, BalanceAfter DEF IInv
<1>7. CASE alive' = FALSE /\ UNCHANGED <<vi, buffer, calls>>
  BY <1>1, <1>7 DEF IInv, TypeOK, UndoBalanced, history
<1>8. QED
  BY <1>3, <1>5, <1>6, <1>7

\* Once more the last command.
LEMMA RepeatStep ==
  ASSUME IInv, Repeat, UNCHANGED user
  PROVE  IInv'
<1> DEFINE t == [Top EXCEPT !.n = @ + 1]
           q == Append(Below, t)
           c == Command(vi.last)
<1>1. /\ alive /\ calls # <<>> /\ Top.op = "repeat" /\ calls' = Append(q, c)
      /\ UNCHANGED <<vi, buffer, user, readonly, ac, alive, session, typed, fresh, escapes>>
  BY DEF Repeat, Repeating, quiet, history
<1>2. /\ Top \in Call /\ Below \in Seq(Call) /\ InProgress(calls) = InProgress(Below) + 1
      /\ InProgress(calls) \in Nat
  BY <1>1, CallReturned, RepeatsFinite DEF IInv, TypeOK
<1>3. t \in Call /\ t.op = "repeat"
  <2>1. Top.n \in Nat /\ Top.n + 1 \in Nat
    BY <1>2 DEF Call
  <2> DEFINE n == Top.n + 1
             u == Top
  <2>2. t = [u EXCEPT !.n = n]
    OBVIOUS
  <2>3. u \in Call /\ u.op = "repeat" /\ n \in Nat
    BY <1>1, <1>2, <2>1
  <2> HIDE DEF n, u, t
  <2>4. QED
    BY <2>2, <2>3 DEF Call
<1>4. c \in Call /\ c.op = "command"
  BY Fields DEF IInv, TypeOK, Command, Call
<1> HIDE DEF t, c
<1>5. q \in Seq(Call) /\ InProgress(q) = InProgress(calls)
  BY <1>2, <1>3, CallMade
<1> HIDE DEF q
<1>6. calls' \in Seq(Call) /\ InProgress(calls') = InProgress(calls)
  BY <1>1, <1>2, <1>4, <1>5, CallMade
<1>7. vi' \in Vi /\ Net(vi') = InProgress(calls')
  BY <1>1, <1>6, Balance DEF IInv, TypeOK
<1>8. TypeOK'
  BY <1>1, <1>6 DEF IInv, TypeOK
<1>9. QED
  BY <1>6, <1>7, <1>8, BalanceAfter DEF IInv

\* The end of a repeat closes its group.
LEMMA EndRepeatStep ==
  ASSUME IInv, EndRepeat, UNCHANGED user
  PROVE  IInv'
<1> DEFINE v == [vi EXCEPT !.dot = FALSE, !.undo = @ - 1]
<1>1. /\ alive /\ calls # <<>> /\ Top.op = "repeat" /\ vi' = v /\ calls' = Below
      /\ UNCHANGED <<buffer, user, readonly, ac, alive, session, typed, fresh, escapes>>
  BY DEF EndRepeat, Repeating, quiet, history
<1>2. /\ Below \in Seq(Call) /\ InProgress(Below) \in Nat
      /\ InProgress(calls) = InProgress(Below) + 1
  BY <1>1, CallReturned DEF IInv, TypeOK
<1>3. vi \in Vi /\ Net(vi) = InProgress(Below) + 1
  BY <1>1, <1>2, Balance DEF IInv, TypeOK
<1>4. vi.undo - 1 \in Nat
  BY <1>2, <1>3, Fields DEF Net
<1>5. v \in Vi /\ v.undo = vi.undo - 1 /\ v.lost = vi.lost /\ v.mode = vi.mode
  BY <1>3, <1>4 DEF Vi
<1> HIDE DEF v
<1>6. Net(v) = InProgress(Below)
  <2>1. vi.undo \in Nat /\ vi.lost \in Nat
    BY <1>3, Fields
  <2>2. Net(v) = Net(vi) - 1
    BY <1>5, <2>1 DEF Net, Insert
  <2>3. QED
    BY <1>2, <1>3, <2>2
<1>7. TypeOK'
  BY <1>1, <1>2, <1>5 DEF IInv, TypeOK
<1>8. QED
  BY <1>1, <1>2, <1>5, <1>6, <1>7, BalanceAfter DEF IInv

\* The command becomes the last one, and is recorded.
LEMMA ParsedStep ==
  ASSUME IInv, Parsed, UNCHANGED user
  PROVE  IInv'
<1> DEFINE n == InProgress(calls)
           v == IF vi.dot THEN vi ELSE Lasting(vi, Full)
           w == IF Insert(v.mode) THEN v ELSE [v EXCEPT !.rec = @ \o Full]
<1>1. /\ alive /\ calls # <<>> /\ Top.op = "command"
      /\ Return(w, buffer, TRUE) /\ UNCHANGED <<quiet, user>>
  BY DEF Parsed
<1>2. n \in Nat /\ Sound(vi, n) /\ Full \in Keys /\ buffer \in Keys
  BY <1>1, RunningTop
<1> HIDE DEF n
<1>3. Sound(v, n)
  BY <1>2, LastingSound
<1> HIDE DEF v
<1>4. v.rec \o Full \in Keys
  BY <1>2, <1>3, Fields, JoinedKeys DEF Sound
<1>5. Sound(w, n)
  <2>1. Sound([v EXCEPT !.rec = v.rec \o Full], n)
    BY <1>2, <1>3, <1>4, KeptSound
  <2>2. QED
    BY <1>3, <2>1
<1> HIDE DEF w
<1>6. QED
  BY <1>1, <1>2, <1>5, ReturnStep DEF n

-----------------------------------------------------------------------------
(* The keyboard.                                                           *)

\* Between two commands nothing is in progress; what is typed, and how the
\* insertion is edited, opens and closes no group but by an escape.
LEMMA ReadyStep ==
  ASSUME IInv, Ready, UNCHANGED <<user, alive>>, Sound(vi', InProgress(calls)),
         buffer' \in Keys, readonly' \in BOOLEAN, ac' \in [word : Nat, list : BOOLEAN],
         \/ calls' = calls
         \/ \E c \in Call : c.op = "command" /\ calls' = <<c>>,
         session' \in Keys, typed' \in Nat, fresh' \in BOOLEAN, escapes' \in 0..3
  PROVE  IInv'
<1>1. calls = <<>> /\ calls \in Seq(Call) /\ InProgress(calls) \in Nat
  BY RepeatsFinite DEF IInv, TypeOK, Ready
<1>2. calls' \in Seq(Call) /\ InProgress(calls') = InProgress(calls)
  <2>1. CASE calls' = calls
    BY <1>1, <2>1
  <2>2. CASE \E c \in Call : c.op = "command" /\ calls' = <<c>>
    <3>1. PICK c \in Call : c.op = "command" /\ calls' = <<c>>
      BY <2>2
    <3>2. calls' = Append(calls, c)
      BY <1>1, <3>1
    <3>3. /\ Append(calls, c) \in Seq(Call)
          /\ InProgress(Append(calls, c))
             = InProgress(calls) + (IF c.op = "repeat" THEN 1 ELSE 0)
      BY <1>1, CallMade
    <3>4. (IF c.op = "repeat" THEN 1 ELSE 0) = 0
      BY <3>1
    <3>5. InProgress(Append(calls, c)) = InProgress(calls)
      <4> DEFINE k == InProgress(calls)
      <4>1. k \in Nat /\ InProgress(Append(calls, c)) = k + 0
        BY <1>1, <3>3, <3>4
      <4> HIDE DEF k
      <4>2. InProgress(Append(calls, c)) = k
        BY <4>1
      <4>3. QED
        BY <4>2 DEF k
    <3>6. QED
      BY <3>2, <3>3, <3>5
  <2>3. QED
    BY <2>1, <2>2
<1>3. vi' \in Vi /\ Net(vi') = InProgress(calls')
  BY <1>2 DEF Sound
<1>4. TypeOK'
  BY <1>2, <1>3 DEF IInv, TypeOK
<1>5. QED
  BY <1>2, <1>3, <1>4, BalanceAfter DEF IInv

\* What the types say between two commands.
LEMMA ReadyTypes ==
  ASSUME IInv, Ready
  PROVE  /\ user \in Users /\ user.keys \subseteq Key /\ user.texts \subseteq Key
         /\ vi \in Vi /\ buffer \in Keys /\ readonly \in BOOLEAN
         /\ ac \in [word : Nat, list : BOOLEAN] /\ ac.word \in Nat /\ ac.list \in BOOLEAN
         /\ session \in Keys /\ typed \in Nat /\ fresh \in BOOLEAN /\ escapes \in 0..3
         /\ InProgress(calls) \in Nat /\ Sound(vi, InProgress(calls))
<1>1. /\ user \in Users /\ vi \in Vi /\ calls \in Seq(Call)
      /\ buffer \in Keys /\ readonly \in BOOLEAN
      /\ ac \in [word : Nat, list : BOOLEAN] /\ ac.word \in Nat /\ ac.list \in BOOLEAN
      /\ session \in Keys /\ typed \in Nat /\ fresh \in BOOLEAN /\ escapes \in 0..3
  BY DEF IInv, TypeOK
<1>2. user.keys \subseteq Key /\ user.texts \subseteq Key
  BY <1>1, KeysAssumption
<1>3. Sound(vi, InProgress(calls))
  BY <1>1, Balance DEF IInv, Ready, Sound
<1>4. QED
  BY <1>1, <1>2, <1>3, RepeatsFinite

\* The history of the keys.
LEMMA NoticedTypes ==
  ASSUME IInv, Ready, NEW k \in Key, Noticed(k)
  PROVE  session' \in Keys /\ typed' \in Nat /\ fresh' \in BOOLEAN /\ escapes' \in 0..3
<1>1. session \in Keys /\ typed \in Nat /\ fresh \in BOOLEAN /\ escapes \in 0..3
  BY ReadyTypes
<1>2. <<k>> \in Keys /\ <<"esc">> \in Keys /\ Append(session, k) \in Keys
  BY <1>1 DEF Keys, Key
<1>3. session' \in Keys
  BY <1>2 DEF Noticed
<1>4. typed' \in Nat
  BY <1>1 DEF Noticed
<1>5. fresh' \in BOOLEAN
  BY <1>1 DEF Noticed
<1>6. escapes' \in 0..3
  BY <1>1 DEF Noticed
<1>7. QED
  BY <1>3, <1>4, <1>5, <1>6

\* A key that is text.
LEMMA TypeTextStep ==
  ASSUME IInv, NEW k \in user.texts, TypeText(k), UNCHANGED user
  PROVE  IInv'
<1>1. Ready /\ Noticed(k) /\ UNCHANGED <<user, readonly, calls, alive>>
  BY DEF TypeText
<1>2. k \in Key /\ vi \in Vi /\ buffer \in Keys
  BY <1>1, ReadyTypes
<1>3. Append(buffer, k) \in Keys /\ Append(buffer, k) # <<>>
  BY <1>2 DEF Keys
<1>4. Sound(Inserted(vi, Append(buffer, k)), InProgress(calls))
  BY <1>1, <1>3, ReadyTypes, InsertedSound
<1>5. ac' \in [word : Nat, list : BOOLEAN]
  <2>1. CASE Heard(k) /\ user.edits
    <3>1. ac' \in [word : {0, ac.word} \cup {1, ac.word + 1}, list : BOOLEAN]
      BY <2>1 DEF Heard
    <3>2. QED
      BY <1>1, <3>1, ReadyTypes
  <2>2. CASE UNCHANGED ac
    BY <1>1, <2>2, ReadyTypes
  <2>3. QED
    BY <2>1, <2>2 DEF TypeText, Heard
<1>6. Sound(vi', InProgress(calls)) /\ buffer' \in Keys
  BY <1>1, <1>4, JoinedKeys, ReadyTypes DEF TypeText
<1>7. session' \in Keys /\ typed' \in Nat /\ fresh' \in BOOLEAN /\ escapes' \in 0..3
  BY <1>1, <1>2, NoticedTypes
<1>8. QED
  BY <1>1, <1>5, <1>6, <1>7, ReadyTypes, ReadyStep

\* A key that is tried as a command.
LEMMA TypeKeyStep ==
  ASSUME IInv, NEW k \in user.keys, TypeKey(k), UNCHANGED user
  PROVE  IInv'
<1>1. /\ Ready /\ Noticed(k) /\ UNCHANGED <<user, readonly, ac, alive>>
      /\ buffer' = Append(buffer, k) /\ calls' = <<Command(buffer')>>
      /\ vi' \in {vi, [vi EXCEPT !.rec = <<>>]}
  BY DEF TypeKey
<1>2. k \in Key /\ buffer' \in Keys
  BY <1>1, ReadyTypes, JoinedKeys
<1>3. Command(buffer') \in Call /\ Command(buffer').op = "command"
  BY <1>2 DEF Command, Call
<1>4. Sound(vi', InProgress(calls))
  <2>1. Sound(vi, InProgress(calls)) /\ InProgress(calls) \in Nat
    BY <1>1, ReadyTypes
  <2>2. Sound([vi EXCEPT !.rec = <<>>], InProgress(calls))
    BY <2>1, JoinedKeys, KeptSound
  <2>3. QED
    BY <1>1, <2>1, <2>2
<1>5. session' \in Keys /\ typed' \in Nat /\ fresh' \in BOOLEAN /\ escapes' \in 0..3
  BY <1>1, <1>2, NoticedTypes
<1>6. QED
  BY <1>1, <1>2, <1>3, <1>4, <1>5, ReadyTypes, ReadyStep

\* An insertion is edited.
LEMMA EditedStep ==
  ASSUME IInv, Backspace \/ MoveCaret \/ Complete \/ CloseList, UNCHANGED user
  PROVE  IInv'
<1> DEFINE n == InProgress(calls)
<1>1. /\ Ready /\ UNCHANGED <<user, buffer, readonly, calls, alive>>
      /\ Unnoticed /\ escapes' \in {0, escapes}
  BY DEF Backspace, MoveCaret, Complete, CloseList
<1>2. /\ vi \in Vi /\ Sound(vi, n) /\ n \in Nat
      /\ ac \in [word : Nat, list : BOOLEAN] /\ ac.word \in Nat /\ ac.list \in BOOLEAN
  BY <1>1, ReadyTypes
<1>3. session' \in Keys /\ typed' \in Nat /\ fresh' \in BOOLEAN /\ escapes' \in 0..3
  <2>1. <<"esc">> \in Keys
    BY DEF Keys, Key
  <2>2. QED
    BY <1>1, <2>1, ReadyTypes DEF Unnoticed
<1>4. ac' \in [word : Nat, list : BOOLEAN]
  <2>1. CASE Backspace
    <3> DEFINE m == IF ac.word = 0 THEN 0 ELSE ac.word - 1
    <3>1. PICK again \in {FALSE, ac.word > 1} : ac' = [word |-> m, list |-> again]
      BY <2>1 DEF Backspace
    <3>2. m \in Nat
      BY <1>2
    <3>3. again \in BOOLEAN
      <4> DEFINE b == ac.word > 1
      <4>1. b \in BOOLEAN
        BY <1>2
      <4> HIDE DEF b
      <4>2. {FALSE, b} \subseteq BOOLEAN
        BY <4>1, Zenon
      <4>3. again \in {FALSE, b}
        BY <3>1 DEF b
      <4>4. QED
        BY <4>2, <4>3, Zenon
    <3> HIDE DEF m
    <3>4. QED
      BY <3>1, <3>2, <3>3
  <2>2. CASE MoveCaret \/ CloseList
    BY <1>2, <2>2 DEF MoveCaret, CloseList
  <2>3. CASE Complete
    BY <2>3 DEF Complete
  <2>4. QED
    BY <2>1, <2>2, <2>3
<1> HIDE DEF n
<1>5. Sound(vi', n)
  <2>1. /\ vi.text \in Keys /\ vi.shown \in Keys
        /\ vi = [vi EXCEPT !.text = vi.text, !.shown = vi.shown]
    BY <1>2, Fields DEF Vi
  <2>2. CASE Backspace
    <3> DEFINE t == IF ac.list THEN vi.text ELSE Shorter(vi.text)
               h == IF Insert(vi.mode) THEN Shown(vi, Shorter(vi.shown)) ELSE vi.shown
               a == IF ~Insert(vi.mode) THEN Astray(vi, "outside")
                    ELSE IF ac.list THEN Astray(vi, "list") ELSE vi.astray
    <3>1. Shorter(vi.text) \in Keys /\ Shorter(vi.shown) \in Keys
      BY <2>1, PartsOfKeys DEF Shorter
    <3>2. t \in Keys /\ h \in Keys
      BY <1>2, <2>1, <3>1, ShownIsKeys
    <3>3. a \in Causes
      BY <1>2, AstrayIsCause DEF Causes
    <3>4. vi' = [vi EXCEPT !.text = t, !.shown = h, !.astray = a]
      BY <2>2 DEF Backspace
    <3> HIDE DEF t, h, a
    <3>5. QED
      BY <1>2, <3>2, <3>3, <3>4, HistorySound
  <2>3. CASE MoveCaret
    <3> DEFINE a == Astray(vi, "moved")
    <3>1. a \in Causes
      BY <1>2, AstrayIsCause DEF Causes
    <3>2. vi' = [vi EXCEPT !.astray = a]
      BY <2>3 DEF MoveCaret
    <3> HIDE DEF a
    <3>3. [vi EXCEPT !.astray = a] \in Vi /\ Net([vi EXCEPT !.astray = a]) = Net(vi)
      BY <1>2, <3>1 DEF Vi, Causes, Net
    <3>4. QED
      BY <1>2, <3>2, <3>3 DEF Sound
  <2>4. CASE Complete
    <3>1. PICK rest \in {<<>>, <<"t">>} : vi' = Completed(rest)
      BY <2>4 DEF Complete
    <3>2. rest \in Keys
      <4>1. <<"t">> \in Keys
        BY DEF Keys, Key
      <4>2. QED
        BY <4>1, <3>1, JoinedKeys
    <3> DEFINE u == Appended(vi, rest)
               h == Shown(vi, u.shown \o rest)
               a == IF ac.word > LastWord(vi.shown) THEN Astray(vi, "word") ELSE u.astray
               w == [u EXCEPT !.shown = h, !.astray = a]
    <3>3. Sound(u, n)
      BY <1>2, <3>2, AppendedSound
    <3>4. u \in Vi /\ u.shown \in Keys /\ u.astray \in Causes
      BY <3>3, Fields DEF Sound, Vi, Causes
    <3>5. a \in Causes
      BY <1>2, <3>4, AstrayIsCause DEF Causes
    <3>6. h \in Keys
      BY <1>2, <3>2, <3>4, JoinedKeys, ShownIsKeys
    <3>7. vi' = w
      BY <3>1 DEF Completed
    <3> HIDE DEF u, h, a
    <3>8. w \in Vi /\ Net(w) = Net(u)
      BY <3>4, <3>5, <3>6 DEF Vi, Causes, Net
    <3>9. QED
      BY <3>3, <3>7, <3>8 DEF Sound
  <2>5. CASE CloseList
    BY <1>2, <2>5 DEF CloseList
  <2>6. QED
    BY <2>2, <2>3, <2>4, <2>5
<1>6. QED
  BY <1>1, <1>2, <1>3, <1>4, <1>5, ReadyTypes, ReadyStep DEF n

\* The document is made readonly, or writable.
LEMMA ReadonlyStep ==
  ASSUME IInv, ToggleReadonly, UNCHANGED user
  PROVE  IInv'
<1> DEFINE a == IF Insert(vi.mode) THEN Astray(vi, "readonly") ELSE vi.astray
           v == [vi EXCEPT !.astray = a]
<1>1. /\ Ready /\ readonly' = ~readonly /\ vi' = v
      /\ UNCHANGED <<user, buffer, ac, calls, alive, session, typed, fresh, escapes>>
  BY DEF ToggleReadonly, history
<1>2. vi \in Vi /\ Sound(vi, InProgress(calls)) /\ readonly' \in BOOLEAN
  BY <1>1, ReadyTypes
<1>3. a \in Causes
  BY <1>2, AstrayIsCause DEF Causes
<1> HIDE DEF a
<1>4. v \in Vi /\ Net(v) = Net(vi)
  BY <1>2, <1>3 DEF Vi, Causes, Net
<1> HIDE DEF v
<1>5. Sound(vi', InProgress(calls))
  BY <1>1, <1>2, <1>4 DEF Sound
<1>6. QED
  BY <1>1, <1>2, <1>5, ReadyTypes, ReadyStep

-----------------------------------------------------------------------------
(* Every step, and the theorems.                                           *)

\* Nothing is open at first.
LEMMA InitInv == Init => IInv
<1> SUFFICES ASSUME Init PROVE IInv
  OBVIOUS
<1>1. vi \in Vi /\ Net(vi) = 0
  BY JoinedKeys DEF Init, Vi, Mode, Many, Net, Insert
<1>2. calls = <<>> /\ calls \in Seq(Call) /\ RepeatsOf(calls) = {}
  BY DEF Init, RepeatsOf
<1>3. ac \in [word : Nat, list : BOOLEAN] /\ escapes \in 0..3
  BY DEF Init
<1>4. TypeOK
  BY <1>1, <1>2, <1>3, JoinedKeys DEF Init, TypeOK
<1>5. InProgress(calls) = 0
  BY <1>2, FS_EmptySet DEF InProgress
<1>6. QED
  BY <1>1, <1>4, <1>5, Balance DEF IInv

\* Every step of vi::command keeps the inductive invariant.
LEMMA ExecuteStep ==
  ASSUME IInv, Execute, UNCHANGED user
  PROVE  IInv'
<1>1. CASE CommandInserts \/ CommandCancels
  BY <1>1, InsertsStep, CancelsStep
<1>2. CASE OnlyCount \/ Motion \/ NoCommand \/ Double
  BY <1>2, KeysStep
<1>3. CASE OperatorOnSelection \/ ChangeMode
  BY <1>3, ModeStep
<1>4. CASE OperatorKeepsMotion \/ Change \/ Delete \/ Yank \/ NoOperand
  BY <1>4, OperatorStep
<1>5. CASE Edit \/ Tilde \/ StartRepeat
  BY <1>5, EditStep, TildeStep, StartRepeatStep
<1>6. CASE Repeat \/ EndRepeat \/ Parsed
  BY <1>6, RepeatStep, EndRepeatStep, ParsedStep
<1>7. QED
  BY <1>1, <1>2, <1>3, <1>4, <1>5, <1>6 DEF Execute

\* Every step does.
LEMMA NextInv == IInv /\ [Next]_vars => IInv'
<1> SUFFICES ASSUME IInv, [Next]_vars PROVE IInv'
  OBVIOUS
<1>1. CASE Execute /\ UNCHANGED user
  BY <1>1, ExecuteStep
<1>2. CASE (\E k \in user.texts : TypeText(k)) /\ UNCHANGED user
  BY <1>2, TypeTextStep
<1>3. CASE (\E k \in user.keys : TypeKey(k)) /\ UNCHANGED user
  BY <1>3, TypeKeyStep
<1>4. CASE ToggleReadonly /\ UNCHANGED user
  BY <1>4, ReadonlyStep
<1>5. CASE (Backspace \/ MoveCaret \/ Complete \/ CloseList) /\ UNCHANGED user
  BY <1>5, EditedStep
<1>6. CASE UNCHANGED vars
  BY <1>6 DEF vars, IInv, TypeOK, UndoBalanced, Repeats
<1>7. QED
  BY <1>1, <1>2, <1>3, <1>4, <1>5, <1>6 DEF Next, Crashed

\* The inductive invariant holds throughout.
THEOREM InductiveInvariant == Spec => []IInv
<1>1. QED
  BY InitInv, NextInv, PTL DEF Spec

\* The variables keep their types: whatever is typed and however calls nest,
\* what vi keeps are keys, and no group is closed that was not opened.
THEOREM TypeCorrect == Spec => []TypeOK
<1>1. IInv => TypeOK
  BY DEF IInv
<1>2. QED
  BY <1>1, InductiveInvariant, PTL

\* Each undo group that vi opened is that of the insertion or of a repeat in
\* progress, has been closed, or is one of those left open for good.
THEOREM UndoBalancedAlways == Spec => []UndoBalanced
<1>1. IInv => UndoBalanced
  BY DEF IInv
<1>2. QED
  BY <1>1, InductiveInvariant, PTL

-----------------------------------------------------------------------------
(* What vi keeps of an insertion: the text and what was shown of it agree  *)
(* while it lasts; between insertions the register agrees with them too,   *)
(* and only a repeat that is in progress makes vi leave all three alone.   *)

\* The insertion has not gone astray.
Followed(v) == user.edits /\ v.astray = "no"

Agrees(v) == Followed(v) => v.text = v.shown

Ended(v) == Agrees(v) /\ (Followed(v) /\ v.shown # <<>> => v.reg = v.shown)

\* The groups in use after a step.
LEMMA BalanceThen ==
  ASSUME IInv'
  PROVE  alive' => Net(vi') = InProgress(calls')
<1>1. vi' \in Vi /\ calls' \in Seq(Call)
  BY DEF IInv, TypeOK
<1>2. Repeats' = RepeatsOf(calls') /\ InProgress(calls') \in Nat
  BY <1>1, RepeatsFinite DEF Repeats, RepeatsOf
<1>3. vi'.undo \in Nat /\ vi'.lost \in Nat
  BY <1>1, Fields
<1>4. QED
  BY <1>2, <1>3 DEF IInv, UndoBalanced, Net, InProgress

\* Sound, and of an insertion that has ended, in a state of n repeats.
Held(v, n) == Sound(v, n) /\ Ended(v) /\ (v.dot => n # 0)

Kept == Agrees(vi) /\ (Insert(vi.mode) \/ Ended(vi))

Dotted == alive /\ vi.dot => InProgress(calls) # 0

KInv == IInv /\ Kept /\ Dotted

\* What leaves the insertion alone.
LEMMA SameHeld ==
  ASSUME NEW n \in Nat, NEW v, Held(v, n), NEW w, Sound(w, n),
         w.text = v.text, w.shown = v.shown, w.reg = v.reg,
         w.astray = v.astray, w.dot = v.dot
  PROVE  Held(w, n)
  BY DEF Held, Ended, Agrees, Followed

\* The keys that are kept, the count and the mode do.
LEMMA KeptHeld ==
  ASSUME NEW n \in Nat, NEW v, Held(v, n), NEW r \in Keys
  PROVE  /\ Held([v EXCEPT !.icmd = r], n)
         /\ Held([v EXCEPT !.rec = r], n)
         /\ Held([v EXCEPT !.last = r], n)
         /\ Held([v EXCEPT !.count = 1], n)
<1>1. Sound(v, n) /\ v \in Vi
  BY DEF Held, Sound
<1>2. /\ Sound([v EXCEPT !.icmd = r], n) /\ Sound([v EXCEPT !.rec = r], n)
      /\ Sound([v EXCEPT !.last = r], n) /\ Sound([v EXCEPT !.count = 1], n)
  BY <1>1, KeptSound
<1>3. ASSUME NEW w \in {[v EXCEPT !.icmd = r], [v EXCEPT !.rec = r],
                        [v EXCEPT !.last = r], [v EXCEPT !.count = 1]}
      PROVE  /\ w.text = v.text /\ w.shown = v.shown /\ w.reg = v.reg
             /\ w.astray = v.astray /\ w.dot = v.dot
  BY <1>1 DEF Vi
<1>4. QED
  BY <1>2, <1>3, SameHeld

\* A change of the mode, unless it is one of insertions, does.
LEMMA ModeHeld ==
  ASSUME NEW n \in Nat, NEW v, Held(v, n), ~Insert(v.mode),
         NEW m \in {"COMMAND", "VISUAL", "VISUAL_BLOCK"}
  PROVE  Held([v EXCEPT !.mode = m], n)
<1> DEFINE w == [v EXCEPT !.mode = m]
<1>1. Sound(v, n) /\ v \in Vi
  BY DEF Held, Sound
<1>2. Sound(w, n)
  BY <1>1, ModeSound
<1>3. /\ w.text = v.text /\ w.shown = v.shown /\ w.reg = v.reg
      /\ w.astray = v.astray /\ w.dot = v.dot
  BY <1>1 DEF Vi
<1> HIDE DEF w
<1>4. Held(w, n)
  BY <1>2, <1>3, SameHeld
<1>5. QED
  BY <1>4 DEF w

\* A count does.
LEMMA FilteredHeld ==
  ASSUME NEW n \in Nat, NEW v, Held(v, n), NEW r \in Keys
  PROVE  Held(Filtered(v, r), n)
<1> DEFINE w == Filtered(v, r)
<1>1. Sound(v, n) /\ v \in Vi
  BY DEF Held, Sound
<1>2. Sound(w, n)
  BY <1>1, FilteredSound
<1>3. /\ w.text = v.text /\ w.shown = v.shown /\ w.reg = v.reg
      /\ w.astray = v.astray /\ w.dot = v.dot
  BY <1>1 DEF Vi, Filtered
<1> HIDE DEF w
<1>4. Held(w, n)
  BY <1>2, <1>3, SameHeld
<1>5. QED
  BY <1>4 DEF w

\* The last command does.
LEMMA LastingHeld ==
  ASSUME NEW n \in Nat, NEW v, Held(v, n), NEW r \in Keys
  PROVE  Held(Lasting(v, r), n)
  BY KeptHeld DEF Lasting

\* A motion does.
LEMMA MovedHeld ==
  ASSUME NEW n \in Nat, NEW v, Held(v, n)
  PROVE  Held(Moved(v), n)
<1> DEFINE w == Moved(v)
<1>1. Sound(v, n) /\ v \in Vi
  BY DEF Held, Sound
<1>2. Sound(w, n)
  BY <1>1, MovedSound
<1>3. /\ w.text = v.text /\ w.shown = v.shown /\ w.reg = v.reg
      /\ w.astray = v.astray /\ w.dot = v.dot
  BY <1>1 DEF Vi, Moved
<1> HIDE DEF w
<1>4. Held(w, n)
  BY <1>2, <1>3, SameHeld
<1>5. QED
  BY <1>4 DEF w

\* An insertion begins with nothing, or, repeated, with what there was.
LEMMA EnteredHeld ==
  ASSUME NEW n \in Nat, NEW v, Held(v, n), NEW k \in Key
  PROVE  Held(Entered(v, k), n)
<1> DEFINE u == IF v.dot THEN v
                ELSE [v EXCEPT !.text = <<>>, !.shown = <<>>, !.astray = "no"]
           o == [u EXCEPT !.undo = @ + 1]
           w == Entered(v, k)
<1>1. Sound(v, n) /\ v \in Vi /\ Ended(v) /\ (v.dot => n # 0)
  BY DEF Held, Sound
<1>2. Sound(w, n)
  BY <1>1, EnteredSound
<1>3. u \in Vi /\ u.dot = v.dot /\ Ended(u)
  <2>1. CASE v.dot
    BY <1>1, <2>1
  <2>2. CASE ~v.dot
    <3> DEFINE c == [v EXCEPT !.text = <<>>, !.shown = <<>>, !.astray = "no"]
    <3>1. c \in Vi /\ c.dot = v.dot /\ c.text = <<>> /\ c.shown = <<>>
      BY <1>1, JoinedKeys DEF Vi
    <3>2. u = c
      BY <2>2
    <3> HIDE DEF c, u
    <3>3. QED
      BY <3>1, <3>2 DEF Ended, Agrees
  <2>3. QED
    BY <2>1, <2>2
<1> HIDE DEF u
<1>4. /\ o.text = u.text /\ o.shown = u.shown /\ o.reg = u.reg
      /\ o.astray = u.astray /\ o.dot = u.dot /\ DOMAIN o = DOMAIN u
  BY <1>3 DEF Vi
<1>5. Opened(v) = o
  BY DEF Opened, u
<1> HIDE DEF o
<1>6. w \in {v, [o EXCEPT !.mode = "INSERT", !.icmd = Append(@, k)],
             [o EXCEPT !.mode = "INSERT_BLOCK"]}
  BY <1>5 DEF Entered
<1>7. CASE w = v
  BY <1>1, <1>2, <1>7, SameHeld DEF Held
<1>8. CASE w # v
  <2>1. /\ w.text = o.text /\ w.shown = o.shown /\ w.reg = o.reg
        /\ w.astray = o.astray /\ w.dot = o.dot
    BY <1>3, <1>4, <1>6, <1>8 DEF Vi
  <2> HIDE DEF w
  <2>2. Ended(w) /\ w.dot = v.dot
    BY <1>3, <1>4, <2>1 DEF Ended, Agrees, Followed
  <2>3. Held(w, n)
    BY <1>1, <1>2, <2>2 DEF Held
  <2>4. QED
    BY <2>3 DEF w
<1>9. QED
  BY <1>7, <1>8

\* An escape leaves the text and the register as they are.
LEMMA EscapedHeld ==
  ASSUME NEW n \in Nat, NEW v, Held(v, n)
  PROVE  Held(Escaped(v), n)
<1> DEFINE w == Escaped(v)
<1>1. Sound(v, n) /\ v \in Vi
  BY DEF Held, Sound
<1>2. Sound(w, n)
  BY <1>1, EscapedSound
<1>3. /\ w.text = v.text /\ w.shown = v.shown /\ w.reg = v.reg
      /\ w.astray = v.astray /\ w.dot = v.dot
  <2>1. CASE v.mode = "INSERT"
    <3> DEFINE c == v.icmd \o v.reg \o <<"esc">>
               l == IF Repeatable(c) THEN [v EXCEPT !.last = c] ELSE v
               x == IF v.dot THEN v ELSE [l EXCEPT !.rec = l.rec \o c]
    <3>1. w = [x EXCEPT !.mode = "COMMAND", !.icmd = <<>>, !.undo = @ - 1]
      BY <2>1 DEF Escaped, Closed, Lasting
    <3>2. /\ l.text = v.text /\ l.shown = v.shown /\ l.reg = v.reg
          /\ l.astray = v.astray /\ l.dot = v.dot /\ DOMAIN l = DOMAIN v
      BY <1>1 DEF Vi
    <3> HIDE DEF l
    <3>3. /\ x.text = v.text /\ x.shown = v.shown /\ x.reg = v.reg
          /\ x.astray = v.astray /\ x.dot = v.dot /\ DOMAIN x = DOMAIN v
      BY <3>2
    <3> HIDE DEF x
    <3>4. QED
      BY <1>1, <3>1, <3>3 DEF Vi
  <2>2. CASE v.mode = "INSERT_BLOCK"
    BY <1>1, <2>2 DEF Vi, Escaped
  <2>3. CASE v.mode # "INSERT" /\ v.mode # "INSERT_BLOCK"
    BY <1>1, <2>3 DEF Vi, Escaped
  <2>4. QED
    BY <2>1, <2>2, <2>3
<1> HIDE DEF w
<1>4. Held(w, n)
  BY <1>2, <1>3, SameHeld
<1>5. QED
  BY <1>4 DEF w

\* Typed text goes into the three of them, and an escape at its end makes the
\* register what the text is; other text in front of that is a cause.
LEMMA InsertedHeld ==
  ASSUME NEW n \in Nat, NEW v, Sound(v, n), Agrees(v), v.dot => n # 0,
         NEW r \in Keys, r # <<>>
  PROVE  \/ Held(Inserted(v, r), n)
         \/ /\ ~Ends(r) /\ Sound(Inserted(v, r), n)
            /\ Inserted(v, r) = v
<1>1. v \in Vi /\ v.shown \in Keys /\ v.text \in Keys /\ v.reg \in Keys /\ v.dot \in BOOLEAN
  BY Fields DEF Sound
<1>2. Sound(Inserted(v, r), n)
  BY InsertedSound
<1>3. CASE Ends(r)
  <2> DEFINE g == IF v.text # <<>> THEN v.text ELSE v.reg
             h == Shown(v, v.shown \o Front(r))
             a == IF Len(r) > 1 /\ ~v.dot THEN Astray(v, "rest") ELSE v.astray
             w == [v EXCEPT !.reg = g, !.shown = h, !.astray = a]
  <2>1. Inserted(v, r) = Escaped(w)
    BY <1>3 DEF Inserted
  <2>2. h \in Keys /\ g \in Keys /\ a \in Causes
    <3>1. v.shown \o Front(r) \in Keys
      BY <1>1, PartsOfKeys, JoinedKeys
    <3>2. QED
      BY <1>1, <3>1, ShownIsKeys, AstrayIsCause DEF Causes
  <2>3. user.edits /\ a = "no" => v.astray = "no" /\ h = v.shown
    <3>1. SUFFICES ASSUME user.edits, a = "no"
                   PROVE  v.astray = "no" /\ h = v.shown
      OBVIOUS
    <3>2. v.astray = "no"
      BY <3>1 DEF Astray
    <3>3. v.dot \/ Len(r) <= 1
      BY <3>1, <3>2 DEF Astray, Keys
    <3>4. CASE v.dot
      BY <3>2, <3>4 DEF Shown
    <3>5. CASE Len(r) <= 1
      <4>1. Front(r) = <<>>
        BY <3>5 DEF Front, Keys
      <4>2. v.shown \o <<>> = v.shown
        BY <1>1 DEF Keys
      <4>3. QED
        BY <3>2, <4>1, <4>2 DEF Shown
    <3>6. QED
      BY <3>2, <3>3, <3>4, <3>5
  <2> HIDE DEF g, h, a
  <2>4. /\ w \in Vi /\ Net(w) = Net(v) /\ w.text = v.text /\ w.shown = h /\ w.reg = g
        /\ w.astray = a /\ w.dot = v.dot
    BY <1>1, <2>2 DEF Vi, Net, Causes
  <2> HIDE DEF w
  <2>5. Ended(w)
    <3>1. SUFFICES ASSUME Followed(w)
                   PROVE  w.text = w.shown /\ (w.shown # <<>> => w.reg = w.shown)
      BY DEF Ended, Agrees
    <3>2. v.astray = "no" /\ h = v.shown /\ v.text = v.shown
      BY <2>3, <2>4, <3>1 DEF Followed, Agrees
    <3>3. QED
      BY <2>4, <3>2 DEF g
  <2>6. Held(w, n)
    BY <2>4, <2>5 DEF Held, Sound
  <2>7. QED
    BY <2>1, <2>6, EscapedHeld
<1>4. CASE ~Ends(r)
  <2> DEFINE u == Appended(v, r)
             h == Shown(v, v.shown \o r)
             w == [u EXCEPT !.shown = h]
  <2>1. u.shown = v.shown
    BY <1>1 DEF Appended, Vi
  <2>2. Inserted(v, r) = w
    BY <1>4, <2>1 DEF Inserted
  <2>3. CASE v.dot
    <3>1. u = v /\ h = v.shown
      BY <2>3 DEF Appended, Shown
    <3>2. w = v
      BY <1>1, <3>1 DEF Vi
    <3>3. QED
      BY <1>2, <1>4, <2>2, <3>2
  <2>4. CASE ~v.dot
    <3>1. /\ u.text = v.text \o r /\ u.reg = v.text \o r /\ u.astray = v.astray
          /\ u.dot = v.dot /\ DOMAIN u = DOMAIN v
      BY <1>1, <2>4 DEF Appended, Vi
    <3> HIDE DEF u
    <3>2. /\ w.text = v.text \o r /\ w.reg = v.text \o r /\ w.astray = v.astray
          /\ w.dot = v.dot /\ w.shown = h
      BY <1>1, <3>1 DEF Vi
    <3> HIDE DEF w
    <3>3. Ended(w)
      <4>1. SUFFICES ASSUME Followed(w) PROVE w.text = w.shown /\ w.reg = w.shown
        BY DEF Ended, Agrees
      <4>2. h = v.shown \o r /\ v.text = v.shown
        BY <2>4, <3>2, <4>1 DEF Followed, Agrees, Shown
      <4>3. QED
        BY <3>2, <4>2
    <3>4. QED
      BY <1>2, <2>2, <3>2, <3>3 DEF Held
  <2>5. QED
    BY <1>1, <2>3, <2>4
<1>5. QED
  BY <1>3, <1>4

\* vi::command parses on, or returns.
LEMMA HeldSteps ==
  ASSUME KInv, alive, calls # <<>>, NEW v, Held(v, InProgress(calls)),
         UNCHANGED <<quiet, user>>,
         \/ \E r \in Keys : Go(v, r)
         \/ /\ Top.op = "command"
            /\ \E b \in Keys, ok \in BOOLEAN : Return(v, b, ok)
  PROVE  KInv'
<1> DEFINE n == InProgress(calls)
<1>1. IInv /\ Sound(v, n) /\ calls \in Seq(Call) /\ alive' = alive /\ user' = user
  BY DEF KInv, IInv, TypeOK, Held, quiet
<1>2. n \in Nat
  BY <1>1, RepeatsFinite
<1>3. IInv'
  BY <1>1, GoStep, ReturnStep
<1>4. vi' \in {v, [v EXCEPT !.icmd = <<>>]}
  BY DEF Go, Return
<1>5. Held(vi', n)
  <2>1. Held(v, n)
    OBVIOUS
  <2> HIDE DEF n
  <2>2. Held([v EXCEPT !.icmd = <<>>], n)
    BY <1>2, <2>1, JoinedKeys, KeptHeld
  <2>3. QED
    BY <1>4, <2>1, <2>2
<1>6. InProgress(calls') = n
  <2>1. CASE \E r \in Keys : Go(v, r)
    BY <1>1, <2>1, RestOfCall DEF Go
  <2>2. CASE Top.op = "command" /\ calls' = Below
    <3>1. InProgress(calls) = InProgress(Below) + 0 /\ InProgress(Below) \in Nat
      BY <1>1, <2>2, CallReturned
    <3>2. QED
      BY <1>2, <2>2, <3>1
  <2>3. QED
    BY <2>1, <2>2 DEF Return
<1>7. Ended(vi)' /\ (vi'.dot => InProgress(calls') # 0)
  BY <1>1, <1>5, <1>6 DEF Held, Ended, Agrees, Followed
<1>8. Kept'
  BY <1>7 DEF Kept, Ended
<1>9. Dotted'
  BY <1>7 DEF Dotted
<1>10. QED
  BY <1>3, <1>8, <1>9 DEF KInv

\* Outside insert mode nothing is in between.
LEMMA ParsingHeld ==
  ASSUME KInv, alive, ~Insert(vi.mode)
  PROVE  Held(vi, InProgress(calls)) /\ InProgress(calls) \in Nat
<1>1. vi \in Vi /\ calls \in Seq(Call) /\ Net(vi) = InProgress(calls)
  BY Balance DEF KInv, IInv, TypeOK
<1>2. QED
  BY <1>1, RepeatsFinite DEF KInv, Kept, Dotted, Held, Sound

\* Where a command is parsed, the count and what goes before a motion have
\* changed nothing.
LEMMA ParsingTopHeld ==
  ASSUME KInv, Parsing
  PROVE  /\ alive /\ calls # <<>> /\ Top.op = "command" /\ ~Insert(vi.mode)
         /\ InProgress(calls) \in Nat /\ buffer \in Keys /\ IInv
         /\ Counted.mode = vi.mode
         /\ Held(Counted, InProgress(calls)) /\ Held(Cleared, InProgress(calls))
         /\ Typing # <<>> => K1 \in Key /\ Tail(Typing) \in Keys
<1> DEFINE n == InProgress(calls)
<1>1. IInv
  BY DEF KInv
<1>2. /\ alive /\ calls # <<>> /\ Top.op = "command" /\ ~Insert(vi.mode)
      /\ Top.rest \in Keys /\ buffer \in Keys /\ n \in Nat /\ Counted.mode = vi.mode
      /\ Typing # <<>> => K1 \in Key /\ Tail(Typing) \in Keys
  BY <1>1, ParsingTop
<1>3. Held(vi, n)
  BY <1>2, ParsingHeld
<1> HIDE DEF n
<1>4. Held([vi EXCEPT !.count = 1], n)
  BY <1>2, <1>3, JoinedKeys, KeptHeld
<1>5. Held(Counted, n)
  BY <1>2, <1>4, FilteredHeld DEF Counted
<1>6. Held(Cleared, n)
  BY <1>2, <1>5, JoinedKeys, KeptHeld DEF Cleared
<1>7. QED
  BY <1>1, <1>2, <1>5, <1>6 DEF n

\* Nor has a count of the motion.
LEMMA OperatorTopHeld ==
  ASSUME KInv, Operator
  PROVE  Held(Before, InProgress(calls)) /\ Held(Moving, InProgress(calls))
<1> DEFINE n == InProgress(calls)
<1>1. Parsing /\ IInv
  BY DEF Operator, KInv
<1>2. n \in Nat /\ Held(Counted, n) /\ Operand \in Keys
  BY <1>1, ParsingTopHeld, OperatorTop
<1> HIDE DEF n
<1>3. Held(Before, n)
  BY <1>2, EnteredHeld DEF Before, Key
<1>4. Held(Moving, n)
  BY <1>2, <1>3, FilteredHeld DEF Moving
<1>5. QED
  BY <1>3, <1>4 DEF n

\* Keys that are no command, a motion, a key that changes the mode, and two
\* escapes.
LEMMA KeysHeld ==
  ASSUME KInv, UNCHANGED user,
         \/ CommandCancels \/ OnlyCount \/ Motion \/ NoCommand \/ Double
         \/ ChangeMode \/ OperatorOnSelection
  PROVE  KInv'
<1> DEFINE n == InProgress(calls)
<1>1. CASE CommandCancels
  <2>1. /\ alive /\ calls # <<>> /\ Top.op = "command" /\ ~Insert(vi.mode)
        /\ Return(IF Below = <<>> THEN [Escaped(vi) EXCEPT !.icmd = <<>>] ELSE Escaped(vi),
                  <<>>, TRUE)
        /\ UNCHANGED <<quiet, user>>
    BY <1>1 DEF CommandCancels, Running
  <2> DEFINE v == Escaped(vi)
             w == IF Below = <<>> THEN [v EXCEPT !.icmd = <<>>] ELSE v
  <2>2. Held(v, n) /\ n \in Nat
    BY <2>1, ParsingHeld, EscapedHeld
  <2>3. Held(w, n)
    <3> HIDE DEF v, n
    <3>1. Held([v EXCEPT !.icmd = <<>>], n)
      BY <2>2, JoinedKeys, KeptHeld
    <3>2. QED
      BY <2>2, <3>1
  <2> HIDE DEF w
  <2>4. Return(w, <<>>, TRUE)
    BY <2>1 DEF w
  <2>5. QED
    BY <2>1, <2>3, <2>4, JoinedKeys, HeldSteps
<1>2. CASE ~CommandCancels
  <2>1. Parsing /\ UNCHANGED <<quiet, user>>
    BY <1>2 DEF OnlyCount, Motion, NoCommand, Double, Operator, ChangeMode,
                OperatorOnSelection
  <2>2. /\ alive /\ calls # <<>> /\ Top.op = "command" /\ n \in Nat
        /\ ~Insert(Counted.mode) /\ buffer \in Keys
        /\ Held(Counted, n) /\ Held(Cleared, n)
        /\ Typing # <<>> => K1 \in Key /\ Tail(Typing) \in Keys
    BY <2>1, ParsingTopHeld
  <2> HIDE DEF n
  <2>3. Held([Cleared EXCEPT !.count = 1], n)
    BY <2>2, JoinedKeys, KeptHeld
  <2>4. Held(Escaped(Counted), n)
    BY <2>2, EscapedHeld
  <2>5. Held(Entered(Escaped(Counted), "i"), n)
    BY <2>2, <2>4, EnteredHeld DEF Key
  <2>6. K1 \in Transitions /\ Typing # <<>> => Held(Transited(Counted, K1), n)
    BY <2>2, <2>4, EnteredHeld, ModeHeld DEF Transited, Transitions
  <2>7. PICK v : /\ Held(v, n)
                 /\ \/ \E r \in Keys : Go(v, r)
                    \/ \E b \in Keys, ok \in BOOLEAN : Return(v, b, ok)
    <3>1. CASE OnlyCount
      BY <2>2, <3>1 DEF OnlyCount
    <3>2. CASE Motion
      BY <2>2, <2>3, <3>2, JoinedKeys DEF Motion
    <3>3. CASE NoCommand
      BY <2>2, <3>3 DEF NoCommand
    <3>4. CASE Double
      BY <2>2, <3>4, JoinedKeys DEF Double
    <3>5. CASE ChangeMode
      BY <2>2, <2>6, <3>5 DEF ChangeMode
    <3>6. CASE OperatorOnSelection
      <4> DEFINE w == IF K1 = "c" THEN Entered(Escaped(Counted), "i")
                      ELSE Escaped(Counted)
      <4>1. Go(w, <<>>) \/ Return(w, buffer, FALSE)
        BY <3>6 DEF OperatorOnSelection
      <4>2. Held(w, n)
        BY <2>4, <2>5
      <4> HIDE DEF w
      <4>3. QED
        BY <2>2, <4>1, <4>2, JoinedKeys
    <3>7. QED
      BY <1>2, <3>1, <3>2, <3>3, <3>4, <3>5, <3>6
  <2>8. QED
    BY <2>1, <2>2, <2>7, HeldSteps DEF n
<1>3. QED
  BY <1>1, <1>2

\* Operators that take a motion.
LEMMA OperatorHeld ==
  ASSUME KInv, OperatorKeepsMotion \/ Change \/ Delete \/ Yank \/ NoOperand, UNCHANGED user
  PROVE  KInv'
<1> DEFINE n == InProgress(calls)
           r == Tail(Uncounted(Operand))
<1>1. Operator /\ IInv /\ UNCHANGED <<quiet, user>>
  BY DEF OperatorKeepsMotion, Change, Delete, Yank, NoOperand, KInv
<1>2. /\ alive /\ calls # <<>> /\ Top.op = "command" /\ n \in Nat /\ buffer \in Keys
      /\ Operand \in Keys
      /\ Uncounted(Operand) # <<>> => Tail(Uncounted(Operand)) \in Keys
      /\ K1 # "c" => ~Insert(Moving.mode)
  BY <1>1, OperatorTop
<1>3. Held(Before, n) /\ Held(Moving, n)
  BY <1>1, OperatorTopHeld
<1> HIDE DEF n
<1>4. IsMotion => r \in Keys
  BY <1>2 DEF IsMotion
<1> HIDE DEF r
<1>5. Held(Moved(Moving), n) /\ Held(Escaped(Moving), n)
  BY <1>2, <1>3, MovedHeld, EscapedHeld
<1>6. PICK v : /\ Held(v, n)
               /\ \/ \E s \in Keys : Go(v, s)
                  \/ \E b \in Keys, ok \in BOOLEAN : Return(v, b, ok)
  <2>1. CASE OperatorKeepsMotion
    BY <1>2, <1>3, <2>1 DEF OperatorKeepsMotion
  <2>2. CASE Change
    <3>1. (Go(Moved(Moving), r) /\ IsMotion) \/ Return(Escaped(Moving), <<>>, FALSE)
      BY <2>2 DEF Change, r
    <3>2. QED
      BY <1>4, <1>5, <3>1, JoinedKeys
  <2>3. CASE Delete
    <3>1. \/ Go(Moving, <<>>)
          \/ Go(Moved(Moving), r) /\ IsMotion
          \/ Return(Moving, <<>>, FALSE)
      BY <2>3 DEF Delete, r
    <3>2. QED
      BY <1>3, <1>4, <1>5, <3>1, JoinedKeys
  <2>4. CASE Yank
    <3> DEFINE w == IF Visual(vi.mode) THEN Moving ELSE Transited(Moving, "v")
    <3>1. (Go(Moved(Escaped(w)), r) /\ IsMotion) \/ Return(w, <<>>, FALSE)
      BY <2>4 DEF Yank, r
    <3>2. Held(Transited(Moving, "v"), n)
      BY <1>2, <1>3, <2>4, ModeHeld DEF Transited, Yank
    <3>3. Held(w, n)
      BY <1>3, <3>2
    <3> HIDE DEF w
    <3>4. Held(Moved(Escaped(w)), n)
      BY <1>2, <3>3, MovedHeld, EscapedHeld
    <3>5. QED
      BY <1>4, <3>1, <3>3, <3>4, JoinedKeys
  <2>5. CASE NoOperand
    BY <1>2, <1>3, <2>5 DEF NoOperand
  <2>6. QED
    BY <2>1, <2>2, <2>3, <2>4, <2>5
<1>7. QED
  BY <1>1, <1>2, <1>6, HeldSteps DEF n

\* Where other_command runs.
LEMMA OtherTopHeld ==
  ASSUME KInv, IsOther
  PROVE  Held(Other.v, InProgress(calls)) /\ Held(Other.failed, InProgress(calls))
<1>1. Held(Counted, InProgress(calls)) /\ Held(Cleared, InProgress(calls))
  BY ParsingTopHeld DEF IsOther
<1>2. CASE K1 \in {"x", "~", "."}
  BY <1>1, <1>2 DEF Other
<1>3. CASE K1 \notin {"x", "~", "."}
  <2>1. Operator
    BY <1>3 DEF IsOther
  <2>2. Held(Moving, InProgress(calls))
    BY <2>1, OperatorTopHeld
  <2>3. Other.v = Moving /\ Other.failed = Moving
    BY <1>3 DEF Other
  <2>4. QED
    BY <2>2, <2>3
<1>4. QED
  BY <1>2, <1>3

\* Other commands, and the end of a command.
LEMMA OtherHeld ==
  ASSUME KInv, Edit \/ Tilde \/ Parsed, UNCHANGED user
  PROVE  KInv'
<1> DEFINE n == InProgress(calls)
<1>1. IInv /\ UNCHANGED <<quiet, user>> /\ vi \in Vi
  BY DEF KInv, IInv, TypeOK, Edit, Tilde, Parsed
<1>2. CASE Parsed
  <2> DEFINE v == IF vi.dot THEN vi ELSE Lasting(vi, Full)
             x == [v EXCEPT !.rec = @ \o Full]
             w == IF Insert(v.mode) THEN v ELSE x
  <2>1. alive /\ calls # <<>> /\ Top.op = "command" /\ Return(w, buffer, TRUE)
    BY <1>2 DEF Parsed
  <2>2. n \in Nat /\ Sound(vi, n) /\ Full \in Keys /\ buffer \in Keys
    BY <1>1, <2>1, RunningTop
  <2>3. CASE Insert(vi.mode)
    <3>1. Sound(v, n)
      BY <2>2, LastingSound
    <3>2. v = vi \/ v = [vi EXCEPT !.last = Full]
      BY DEF Lasting
    <3>3. /\ v.mode = vi.mode /\ v.text = vi.text /\ v.shown = vi.shown
          /\ v.astray = vi.astray /\ v.dot = vi.dot /\ v.reg = vi.reg
      BY <1>1, <3>2 DEF Vi
    <3> HIDE DEF v
    <3>4. Return(v, buffer, TRUE) /\ Insert(v.mode)
      BY <2>1, <2>3, <3>3
    <3>5. IInv'
      BY <1>1, <2>1, <2>2, <3>1, <3>4, ReturnStep
    <3>6. vi' = v /\ calls' = Below
      BY <3>4 DEF Return
    <3>7. InProgress(calls') = n
      <4>1. InProgress(calls) = InProgress(Below) + 0 /\ InProgress(Below) \in Nat
        BY <1>1, <2>1, CallReturned DEF IInv, TypeOK
      <4>2. QED
        BY <2>2, <3>6, <4>1
    <3>8. Kept' /\ Dotted'
      BY <1>1, <2>1, <3>3, <3>4, <3>6, <3>7
      DEF KInv, Kept, Dotted, Agrees, Followed, Insert
    <3>9. QED
      BY <3>5, <3>8 DEF KInv
  <2>4. CASE ~Insert(vi.mode)
    <3>1. Held(vi, n)
      BY <2>1, <2>4, ParsingHeld
    <3> HIDE DEF n
    <3>2. Held(v, n)
      BY <2>2, <3>1, LastingHeld
    <3> HIDE DEF v
    <3>3. v.rec \o Full \in Keys
      BY <2>2, <3>2, Fields, JoinedKeys DEF Held, Sound
    <3>4. Held(x, n)
      BY <2>2, <3>2, <3>3, KeptHeld
    <3> HIDE DEF x
    <3>5. Held(w, n)
      BY <3>2, <3>4
    <3> HIDE DEF w
    <3>6. QED
      BY <1>1, <2>1, <2>2, <3>5, HeldSteps DEF n
  <2>5. QED
    BY <2>3, <2>4
<1>3. CASE Edit \/ Tilde
  <2> DEFINE left == IF readonly THEN 0 ELSE Other.tries
             f == Other.failed
             w == [f EXCEPT !.undo = @ + left, !.lost = @ + left]
  <2>1. /\ IsOther
        /\ Go(Other.v, Other.rest) \/ Return(w, buffer, FALSE)
    BY <1>3 DEF Edit, Tilde
  <2>2. /\ alive /\ calls # <<>> /\ Top.op = "command" /\ n \in Nat /\ buffer \in Keys
        /\ Other.rest \in Keys /\ left \in Nat
    BY <1>1, <2>1, OtherTop
  <2>3. Held(Other.v, n) /\ Held(f, n)
    BY <1>1, <2>1, OtherTopHeld
  <2> HIDE DEF n, f, left
  <2>4. f \in Vi /\ Net(f) = n /\ f.undo + left \in Nat /\ f.lost + left \in Nat
    BY <2>2, <2>3, Fields DEF Held, Sound
  <2>5. /\ w \in Vi /\ w.undo = f.undo + left /\ w.lost = f.lost + left /\ w.mode = f.mode
        /\ w.text = f.text /\ w.shown = f.shown /\ w.reg = f.reg
        /\ w.astray = f.astray /\ w.dot = f.dot
    BY <2>4 DEF Vi
  <2> HIDE DEF w
  <2>6. Sound(w, n)
    BY <2>2, <2>4, <2>5, Fields DEF Sound, Net
  <2>7. Held(w, n)
    BY <2>2, <2>3, <2>5, <2>6, SameHeld
  <2>8. QED
    BY <1>1, <2>1, <2>2, <2>3, <2>7, HeldSteps DEF n
<1>4. QED
  BY <1>2, <1>3

\* The repeat command.
LEMMA RepeatHeld ==
  ASSUME KInv, StartRepeat \/ Repeat \/ EndRepeat, UNCHANGED user
  PROVE  KInv'
<1> DEFINE n == InProgress(calls)
<1>1. IInv /\ vi \in Vi /\ alive /\ user' = user
  BY DEF KInv, IInv, TypeOK, StartRepeat, Repeat, EndRepeat, Repeating, IsOther,
         Parsing, Running
<1>2. IInv'
  BY <1>1, StartRepeatStep, RepeatStep, EndRepeatStep
<1>3. alive' => Net(vi') = InProgress(calls') /\ Net(vi) = n
  <2>1. alive => Net(vi) = n
    BY <1>1, Balance DEF IInv
  <2>2. alive' => Net(vi') = InProgress(calls')
    BY <1>2, BalanceThen
  <2>3. QED
    BY <1>1, <2>1, <2>2
<1>4. CASE StartRepeat
  <2> DEFINE o == Other.v
             v == [o EXCEPT !.dot = TRUE, !.undo = @ + 1]
  <2>1. /\ IsOther /\ UNCHANGED <<readonly, ac, history, user>>
        /\ \/ Go(o, Other.rest) /\ UNCHANGED alive
           \/ vi' = v /\ alive' = alive
           \/ alive' = FALSE /\ vi' = vi
    BY <1>4 DEF StartRepeat
  <2>2. /\ n \in Nat /\ calls # <<>> /\ Other.rest \in Keys
        /\ Held(o, n) /\ ~Insert(vi.mode)
    BY <1>1, <2>1, OtherTop, OtherTopHeld DEF IsOther, Parsing
  <2> HIDE DEF o
  <2>3. CASE Go(o, Other.rest) /\ UNCHANGED alive
    BY <1>1, <2>1, <2>2, <2>3, HeldSteps DEF quiet
  <2>4. CASE vi' = v /\ alive' = alive
    <3>1. /\ v.text = o.text /\ v.shown = o.shown /\ v.reg = o.reg /\ v.astray = o.astray
          /\ v.undo = o.undo + 1 /\ v.lost = o.lost /\ v.mode = o.mode /\ o \in Vi
          /\ Net(o) = n
      BY <2>2 DEF Held, Sound, Vi
    <3> HIDE DEF v
    <3>2. Kept'
      BY <1>1, <2>2, <2>4, <3>1 DEF Held, Kept, Ended, Agrees, Followed
    <3>3. Net(v) = n + 1
      BY <2>2, <3>1, Fields DEF Net
    <3>4. Dotted'
      BY <1>1, <1>3, <2>2, <2>4, <3>3 DEF Dotted
    <3>5. QED
      BY <1>2, <3>2, <3>4 DEF KInv
  <2>5. CASE alive' = FALSE /\ vi' = vi
    BY <1>1, <1>2, <2>5 DEF KInv, Kept, Ended, Dotted, Agrees, Followed
  <2>6. QED
    BY <2>1, <2>3, <2>4, <2>5
<1>5. CASE Repeat
  <2>1. vi' = vi /\ alive' = alive
    BY <1>5 DEF Repeat, quiet
  <2>2. QED
    BY <1>1, <1>2, <1>3, <2>1 DEF KInv, Kept, Ended, Dotted, Agrees, Followed
<1>6. CASE EndRepeat
  <2>1. vi' = [vi EXCEPT !.dot = FALSE, !.undo = @ - 1]
    BY <1>6 DEF EndRepeat
  <2>2. /\ vi'.text = vi.text /\ vi'.shown = vi.shown /\ vi'.reg = vi.reg
        /\ vi'.astray = vi.astray /\ vi'.mode = vi.mode /\ vi'.dot = FALSE
    BY <1>1, <2>1 DEF Vi
  <2>3. QED
    BY <1>1, <1>2, <2>2 DEF KInv, Kept, Ended, Dotted, Agrees, Followed
<1>7. QED
  BY <1>4, <1>5, <1>6

\* What is inserted, with an escape at its end or not.
LEMMA AfterInserted ==
  ASSUME KInv, alive, Insert(vi.mode), user' = user, NEW r \in Keys, r # <<>>,
         \/ vi' = Inserted(vi, r)
         \/ vi' = [Inserted(vi, r) EXCEPT !.icmd = <<>>]
  PROVE  Kept' /\ (vi'.dot => InProgress(calls) # 0)
<1> DEFINE n == InProgress(calls)
           x == Inserted(vi, r)
<1>1. vi \in Vi /\ calls \in Seq(Call) /\ Net(vi) = n
  BY Balance DEF KInv, IInv, TypeOK
<1>2. n \in Nat /\ Sound(vi, n) /\ Agrees(vi) /\ (vi.dot => n # 0)
  BY <1>1, RepeatsFinite DEF KInv, Kept, Dotted, Sound
<1>3. \/ Held(x, n)
      \/ x = vi
  BY <1>2, InsertedHeld
<1>4. \/ vi' = x
      \/ vi' = [x EXCEPT !.icmd = <<>>]
  OBVIOUS
<1> HIDE DEF n, x
<1>5. CASE Held(x, n)
  <2>1. Held([x EXCEPT !.icmd = <<>>], n)
    BY <1>2, <1>5, JoinedKeys, KeptHeld
  <2>2. Held(vi', n)
    BY <1>4, <1>5, <2>1
  <2>3. QED
    BY <2>2 DEF Held, Kept, Ended, Agrees, Followed, n
<1>6. CASE x = vi
  <2>1. /\ vi'.text = vi.text /\ vi'.shown = vi.shown /\ vi'.mode = vi.mode
        /\ vi'.astray = vi.astray /\ vi'.dot = vi.dot /\ vi'.reg = vi.reg
    BY <1>1, <1>4, <1>6 DEF Vi
  <2>2. QED
    BY <1>2, <2>1 DEF Kept, Ended, Agrees, Followed, n
<1>7. QED
  BY <1>3, <1>5, <1>6

\* Text in a command.
LEMMA InsertsHeld ==
  ASSUME KInv, CommandInserts, UNCHANGED user
  PROVE  KInv'
<1> DEFINE v == Inserted(vi, Top.rest)
<1>1. IInv /\ IInv'
  BY InsertsStep DEF KInv
<1>2. /\ alive /\ calls # <<>> /\ Top.op = "command" /\ Top.rest # <<>>
      /\ Insert(vi.mode) /\ user' = user /\ alive' = alive
  BY DEF CommandInserts, Running, quiet
<1>3. Top.rest \in Keys /\ InProgress(calls) \in Nat
  BY <1>1, <1>2, RunningTop
<1>4. vi' = v \/ vi' = [v EXCEPT !.icmd = <<>>]
  BY DEF CommandInserts, Return
<1>5. Kept' /\ (vi'.dot => InProgress(calls) # 0)
  BY <1>2, <1>3, <1>4, AfterInserted
<1>6. InProgress(calls') = InProgress(calls)
  <2>1. calls' = Below \/ calls' = Rest(<<>>)
    BY DEF CommandInserts, Return
  <2>2. InProgress(Rest(<<>>)) = InProgress(calls)
    BY <1>1, <1>2, JoinedKeys, RestOfCall DEF IInv, TypeOK
  <2>3. InProgress(calls) = InProgress(Below) + 0 /\ InProgress(Below) \in Nat
    BY <1>1, <1>2, CallReturned DEF IInv, TypeOK
  <2>4. QED
    BY <1>3, <2>1, <2>2, <2>3
<1>7. QED
  BY <1>1, <1>5, <1>6 DEF KInv, Dotted

\* Between two commands no repeat is in progress.
LEMMA ReadyDot ==
  ASSUME KInv, Ready
  PROVE  vi \in Vi /\ ~vi.dot /\ alive /\ InProgress(calls) = 0
<1>1. vi \in Vi /\ RepeatsOf(calls) = {}
  BY DEF KInv, IInv, TypeOK, Ready, RepeatsOf
<1>2. InProgress(calls) = 0
  BY <1>1, FS_EmptySet DEF InProgress
<1>3. QED
  BY <1>1, <1>2 DEF KInv, Dotted, Ready

\* Then the text, the register and what is shown are all that matters.
LEMMA ReadyHeld ==
  ASSUME KInv, Ready, IInv', Kept', ~vi'.dot
  PROVE  KInv'
  BY DEF KInv, Dotted

\* Nothing has no length.
LEMMA EmptyHasLength == Len(<<>>) = 0
  OBVIOUS

\* What is typed keeps them.
LEMMA TypedHeld ==
  ASSUME KInv, UNCHANGED user,
         \/ \E k \in user.texts : TypeText(k)
         \/ \E k \in user.keys : TypeKey(k)
         \/ CloseList
  PROVE  KInv'
<1>1. IInv' /\ IInv /\ Ready
  BY TypeTextStep, TypeKeyStep, EditedStep DEF KInv, TypeText, TypeKey, CloseList
<1>2. vi \in Vi /\ ~vi.dot /\ alive
  BY <1>1, ReadyDot
<1>3. CASE vi' = vi \/ vi' = [vi EXCEPT !.rec = <<>>]
  <2>1. /\ vi'.text = vi.text /\ vi'.shown = vi.shown /\ vi'.mode = vi.mode
        /\ vi'.astray = vi.astray /\ vi'.dot = vi.dot /\ vi'.reg = vi.reg
    BY <1>2, <1>3 DEF Vi
  <2>2. Kept'
    BY <2>1 DEF KInv, Kept, Ended, Agrees, Followed
  <2>3. QED
    BY <1>1, <1>2, <2>1, <2>2, ReadyHeld
<1>4. CASE \E k \in user.texts : Insert(vi.mode) /\ vi' = Inserted(vi, Append(buffer, k))
  <2>1. PICK k \in user.texts : Insert(vi.mode) /\ vi' = Inserted(vi, Append(buffer, k))
    BY <1>4
  <2>2. k \in Key /\ buffer \in Keys
    BY <1>1, ReadyTypes
  <2>3. Append(buffer, k) \in Keys /\ Append(buffer, k) # <<>>
    <3>1. Append(buffer, k) \in Keys
      BY <2>2, JoinedKeys
    <3>2. Len(Append(buffer, k)) # 0
      BY <2>2 DEF Keys
    <3>3. QED
      BY <3>1, <3>2, EmptyHasLength, Zenon
  <2>4. Kept' /\ (vi'.dot => InProgress(calls) # 0)
    BY <1>2, <2>1, <2>3, AfterInserted
  <2>5. InProgress(calls) = 0
    BY <1>1, ReadyDot
  <2>6. QED
    BY <1>1, <2>4, <2>5 DEF KInv, Dotted
<1>5. QED
  BY <1>3, <1>4 DEF TypeText, TypeKey, CloseList

\* How an insertion is edited keeps them, or is a cause to go astray.
LEMMA EditedHeld ==
  ASSUME KInv, Backspace \/ MoveCaret \/ Complete \/ ToggleReadonly, UNCHANGED user
  PROVE  KInv'
<1>1. IInv' /\ IInv /\ Ready /\ user' = user
  BY EditedStep, ReadonlyStep DEF KInv, Backspace, MoveCaret, Complete, ToggleReadonly
<1>2. vi \in Vi /\ ~vi.dot /\ alive
  BY <1>1, ReadyDot
<1>3. Agrees(vi) /\ (Insert(vi.mode) \/ Ended(vi))
  BY DEF KInv, Kept
<1>4. CASE Backspace
  <2> DEFINE t == IF ac.list THEN vi.text ELSE Shorter(vi.text)
             h == IF Insert(vi.mode) THEN Shown(vi, Shorter(vi.shown)) ELSE vi.shown
             a == IF ~Insert(vi.mode) THEN Astray(vi, "outside")
                  ELSE IF ac.list THEN Astray(vi, "list") ELSE vi.astray
  <2>1. user.edits /\ vi' = [vi EXCEPT !.text = t, !.shown = h, !.astray = a]
    BY <1>4 DEF Backspace
  <2>2. a = "no" => /\ vi.astray = "no" /\ Insert(vi.mode)
                    /\ t = Shorter(vi.text) /\ h = Shorter(vi.shown)
    BY <1>2, <2>1 DEF Astray, Shown
  <2> HIDE DEF t, h, a
  <2>3. /\ vi'.text = t /\ vi'.shown = h /\ vi'.astray = a /\ vi'.mode = vi.mode
        /\ vi'.dot = vi.dot
    BY <1>2, <2>1 DEF Vi
  <2>4. Kept'
    <3>1. CASE a = "no"
      BY <1>1, <1>3, <2>2, <2>3, <3>1 DEF Kept, Agrees, Followed
    <3>2. CASE a # "no"
      BY <1>1, <2>3, <3>2 DEF Kept, Ended, Agrees, Followed
    <3>3. QED
      BY <3>1, <3>2
  <2>5. QED
    BY <1>1, <1>2, <2>3, <2>4, ReadyHeld
<1>5. CASE MoveCaret
  <2> DEFINE a == Astray(vi, "moved")
  <2>1. user.edits /\ vi' = [vi EXCEPT !.astray = a] /\ a # "no"
    BY <1>5 DEF MoveCaret, Astray
  <2> HIDE DEF a
  <2>2. vi'.astray # "no" /\ vi'.dot = vi.dot
    BY <1>2, <2>1 DEF Vi
  <2>3. Kept'
    BY <2>2 DEF Kept, Ended, Agrees, Followed
  <2>4. QED
    BY <1>1, <1>2, <2>2, <2>3, ReadyHeld
<1>6. CASE ToggleReadonly
  <2> DEFINE a == IF Insert(vi.mode) THEN Astray(vi, "readonly") ELSE vi.astray
  <2>1. vi' = [vi EXCEPT !.astray = a]
    BY <1>6 DEF ToggleReadonly
  <2>2. user.edits /\ a = "no" => vi.astray = "no"
    BY DEF Astray
  <2>3. user.edits /\ a = "no" => ~Insert(vi.mode)
    BY DEF Astray
  <2> HIDE DEF a
  <2>4. /\ vi'.text = vi.text /\ vi'.shown = vi.shown /\ vi'.astray = a
        /\ vi'.mode = vi.mode /\ vi'.dot = vi.dot /\ vi'.reg = vi.reg
    BY <1>2, <2>1 DEF Vi
  <2>5. Kept'
    BY <1>1, <1>3, <2>2, <2>3, <2>4 DEF Kept, Ended, Agrees, Followed
  <2>6. QED
    BY <1>1, <1>2, <2>4, <2>5, ReadyHeld
<1>7. CASE Complete
  <2>1. PICK rest \in {<<>>, <<"t">>} : vi' = Completed(rest)
    BY <1>7 DEF Complete
  <2> DEFINE u == [vi EXCEPT !.text = @ \o rest, !.reg = vi.text \o rest]
             h == Shown(vi, vi.shown \o rest)
             a == IF ac.word > LastWord(vi.shown) THEN Astray(vi, "word") ELSE vi.astray
  <2>2. /\ u.text = vi.text \o rest /\ u.reg = vi.text \o rest /\ u.dot = vi.dot
        /\ u.shown = vi.shown /\ u.astray = vi.astray /\ DOMAIN u = DOMAIN vi
        /\ Appended(vi, rest) = u
    BY <1>2 DEF Vi, Appended
  <2> HIDE DEF u
  <2>3. vi' = [u EXCEPT !.shown = h, !.astray = a]
    BY <2>1, <2>2 DEF Completed
  <2>4. user.edits /\ a = "no" => vi.astray = "no" /\ h = vi.shown \o rest
    BY <1>2 DEF Astray, Shown
  <2> HIDE DEF h, a
  <2>5. /\ vi'.text = vi.text \o rest /\ vi'.reg = vi.text \o rest
        /\ vi'.shown = h /\ vi'.astray = a /\ vi'.dot = vi.dot
    BY <1>2, <2>2, <2>3 DEF Vi
  <2>6. Kept'
    BY <1>1, <1>3, <2>4, <2>5 DEF Kept, Ended, Agrees, Followed
  <2>7. QED
    BY <1>1, <1>2, <2>5, <2>6, ReadyHeld
<1>8. QED
  BY <1>4, <1>5, <1>6, <1>7

\* Every step keeps them.
LEMMA NextKept == KInv /\ [Next]_vars => KInv'
<1> SUFFICES ASSUME KInv, [Next]_vars PROVE KInv'
  OBVIOUS
<1>1. CASE Execute /\ UNCHANGED user
  <2>1. CASE CommandInserts
    BY <1>1, <2>1, InsertsHeld
  <2>2. CASE \/ CommandCancels \/ OnlyCount \/ Motion \/ NoCommand \/ Double
             \/ ChangeMode \/ OperatorOnSelection
    BY <1>1, <2>2, KeysHeld
  <2>3. CASE OperatorKeepsMotion \/ Change \/ Delete \/ Yank \/ NoOperand
    BY <1>1, <2>3, OperatorHeld
  <2>4. CASE Edit \/ Tilde \/ Parsed
    BY <1>1, <2>4, OtherHeld
  <2>5. CASE StartRepeat \/ Repeat \/ EndRepeat
    BY <1>1, <2>5, RepeatHeld
  <2>6. QED
    BY <1>1, <2>1, <2>2, <2>3, <2>4, <2>5 DEF Execute
<1>2. CASE /\ \/ \E k \in user.texts : TypeText(k)
              \/ \E k \in user.keys : TypeKey(k)
              \/ CloseList
           /\ UNCHANGED user
  BY <1>2, TypedHeld
<1>3. CASE (Backspace \/ MoveCaret \/ Complete \/ ToggleReadonly) /\ UNCHANGED user
  BY <1>3, EditedHeld
<1>4. CASE UNCHANGED vars
  <2>1. IInv' /\ UNCHANGED <<user, vi, alive, calls>>
    BY <1>4, NextInv DEF KInv, vars
  <2>2. QED
    BY <2>1 DEF KInv, Kept, Dotted, Ended, Agrees, Followed
<1>5. QED
  BY <1>1, <1>2, <1>3, <1>4 DEF Next, Crashed

\* They hold at first.
LEMMA InitKept == Init => KInv
<1> SUFFICES ASSUME Init PROVE Kept /\ Dotted
  BY InitInv DEF KInv
<1>1. vi.text = <<>> /\ vi.shown = <<>> /\ vi.dot = FALSE
  BY DEF Init
<1>2. QED
  BY <1>1 DEF Kept, Dotted, Ended, Agrees

\* While an insertion has not gone astray, what vi keeps of it is what it has put
\* into the text, however keys, backspaces, completions and repeats were mixed;
\* and back in command mode the register has it.
THEOREM InsertedIsKeptAlways == Spec => []InsertedIsKept
<1>1. KInv => InsertedIsKept
  BY DEF KInv, Kept, Ended, Agrees, Followed, InsertedIsKept, NewSession, Insert
<1>2. QED
  BY <1>1, InitKept, NextKept, PTL DEF Spec

-----------------------------------------------------------------------------
(* An insertion, typed key by key, from its first key to the escape.       *)

\* The sessions that can become an insertion, and those that enter insert mode.
Begun(s) == s # <<>> /\ s[1] \in {"i", "c"}

Openings == {<<"i">>, <<"c", "w">>}

\* The call of vi::command for the keys s, of which r are still to be parsed.
Trial(s, r) == <<[op |-> "command", full |-> s, rest |-> r, n |-> 0]>>

\* What vi has of an insertion that lasts, the keys s of it having been typed.
Lasts(v, s) ==
  /\ v.mode = "INSERT" /\ v.rec = <<>>
  /\ Begun(s) /\ (s[1] = "c" => Len(s) > 1 /\ s[2] = "w")
  /\ s = v.icmd \o v.text
  /\ IF v.text = <<>> THEN v.icmd \in Openings ELSE v.reg = v.text

\* Before it: nothing is left of what was typed earlier.
Unbegun(v) == v.mode = "COMMAND" /\ v.icmd = <<>> /\ v.rec = <<>>

\* The stages: c waits for its motion; the opening is tried; with a selection,
\* its motion remains; it has been tried; text is inserted; the escape is tried;
\* the insertion has ended, or never began.
Waits == calls = <<>> /\ session = <<"c">> /\ buffer = session /\ Unbegun(vi)
IsTried ==
  /\ session \in Openings \cup {<<"c">>} /\ buffer = session
  /\ calls = Trial(session, session) /\ Unbegun(vi)
KeepsMotion ==
  /\ session = <<"c", "w">> /\ buffer = session /\ calls = Trial(session, <<"w">>)
  /\ \/ vi.mode = "COMMAND"
     \/ vi.mode = "INSERT" /\ vi.icmd = <<"c">> /\ vi.text = <<>> /\ vi.rec = <<>>
WasTried ==
  /\ session \in Openings /\ buffer = session /\ calls = Trial(session, <<>>)
  /\ vi.mode = "COMMAND" \/ Lasts(vi, session)
TakesText == calls = <<>> /\ buffer = <<>> /\ Lasts(vi, session)
IsLeft ==
  /\ buffer = <<"esc">> /\ calls = Trial(buffer, buffer)
  /\ \E s \in Keys : Lasts(vi, s) /\ session = Append(s, "esc")
HasEnded ==
  /\ calls = <<>> /\ buffer = <<>> /\ vi.mode = "COMMAND"
  /\ Insertion(session) => vi.last = session /\ vi.rec = session

Stage == \/ Waits \/ IsTried \/ KeepsMotion \/ WasTried
         \/ TakesText \/ IsLeft \/ HasEnded

Staged == /\ alive /\ fresh /\ Begun(session) => Stage
          /\ session = <<>> => Ready /\ NewSession

RInv == KInv /\ Staged

\* Keys that do not begin with a count have none.
LEMMA Countless ==
  ASSUME NEW r \in Keys, r # <<>>, r[1] # "2"
  PROVE  Count(r) = <<>> /\ Uncounted(r) = r
<1>1. Digits(r) \in 0..Len(r) /\ \A i \in 1..Digits(r) : r[i] = "2"
  BY DigitsEnd
<1>2. Len(r) \in Nat /\ r \in Seq(Key)
  BY DEF Keys
<1>3. Digits(r) = 0
  BY <1>1, <1>2
<1>4. SubSeq(r, 1, 0) = <<>>
  BY <1>2
<1>5. SubSeq(r, 1, Len(r)) = r
  BY <1>2
<1>6. QED
  BY <1>3, <1>4, <1>5 DEF Count, Uncounted

\* The keys of the openings.
LEMMA OpeningKeys ==
  /\ \A k \in {"i", "c", "w", "esc"} :
       /\ <<k>> \in Keys /\ <<k>> # <<>> /\ Len(<<k>>) = 1 /\ <<k>>[1] = k
       /\ Head(<<k>>) = k /\ Tail(<<k>>) = <<>> /\ Append(<<>>, k) = <<k>>
  /\ <<"c", "w">> \in Keys /\ <<"c", "w">> # <<>> /\ Len(<<"c", "w">>) = 2
  /\ <<"c", "w">>[1] = "c" /\ <<"c", "w">>[2] = "w"
  /\ Head(<<"c", "w">>) = "c" /\ Tail(<<"c", "w">>) = <<"w">>
  /\ Append(<<"c">>, "w") = <<"c", "w">> /\ <<"c">> \o <<"w">> = <<"c", "w">>
<1>1. ASSUME NEW k \in Key
      PROVE  /\ <<k>> \in Keys /\ <<k>> # <<>> /\ Len(<<k>>) = 1 /\ <<k>>[1] = k
             /\ Head(<<k>>) = k /\ Tail(<<k>>) = <<>> /\ Append(<<>>, k) = <<k>>
  BY DEF Keys
<1>2. ASSUME NEW k \in Key, NEW l \in Key
      PROVE  /\ <<k, l>> \in Keys /\ <<k, l>> # <<>> /\ Len(<<k, l>>) = 2
             /\ <<k, l>>[1] = k /\ <<k, l>>[2] = l
             /\ Head(<<k, l>>) = k /\ Tail(<<k, l>>) = <<l>>
             /\ Append(<<k>>, l) = <<k, l>> /\ <<k>> \o <<l>> = <<k, l>>
  <2>1. <<k, l>> \in Keys
    BY DEF Keys
  <2>2. <<k, l>> # <<>> /\ Len(<<k, l>>) = 2 /\ <<k, l>>[1] = k /\ <<k, l>>[2] = l
    OBVIOUS
  <2>3. Head(<<k, l>>) = k
    OBVIOUS
  <2>4. Tail(<<k, l>>) = <<l>>
    OBVIOUS
  <2>5. Append(<<k>>, l) = <<k, l>>
    <3> DEFINE a == Append(<<k>>, l)
               p == <<k, l>>
    <3>1. <<k>> \in Seq(Key) /\ Len(<<k>>) = 1 /\ <<k>>[1] = k
      OBVIOUS
    <3>2. a \in Seq(Key) /\ Len(a) = 2 /\ a[1] = k /\ a[2] = l
      BY <3>1, AppendProperties
    <3>3. p \in Seq(Key) /\ Len(p) = 2 /\ p[1] = k /\ p[2] = l
      OBVIOUS
    <3> HIDE DEF a, p
    <3>4. \A i \in 1..2 : a[i] = p[i]
      BY <3>2, <3>3
    <3>5. a = p
      BY <3>2, <3>3, <3>4, SeqEqual
    <3>6. QED
      BY <3>5 DEF a, p
  <2>6. <<k>> \o <<l>> = <<k, l>>
    <3>1. <<k>> \in Seq(Key)
      OBVIOUS
    <3>2. <<k>> \o <<l>> = Append(<<k>>, l)
      BY <3>1, AppendIsConcat
    <3>3. QED
      BY <2>5, <3>2
  <2>7. QED
    BY <2>1, <2>2, <2>3, <2>4, <2>5, <2>6
<1>3. {"i", "c", "w", "esc"} \subseteq Key
  BY DEF Key
<1>4. QED
  BY <1>1, <1>2, <1>3

\* No opening is an insertion yet, nor is one with an escape only.
LEMMA OpeningsAreShort ==
  ASSUME NEW s \in Openings
  PROVE  ~Insertion(s) /\ ~Insertion(Append(s, "esc"))
<1>1. s = <<"i">> \/ s = <<"c", "w">>
  BY DEF Openings
<1>2. CASE s = <<"i">>
  BY <1>2 DEF Insertion
<1>3. CASE s = <<"c", "w">>
  BY <1>3 DEF Insertion
<1>4. QED
  BY <1>1, <1>2, <1>3

\* The call, on its own.
LEMMA TrialTop ==
  ASSUME NEW s \in Keys, NEW r \in Keys, calls = Trial(s, r)
  PROVE  /\ calls # <<>> /\ Len(calls) = 1 /\ Top.op = "command" /\ Top.rest = r
         /\ Full = buffer /\ Below = <<>>
         /\ \A q \in Keys : Rest(q) = Trial(s, q)
<1> DEFINE c == [op |-> "command", full |-> s, rest |-> r, n |-> 0]
<1>1. calls = <<c>> /\ c.op = "command" /\ c.rest = r
  BY DEF Trial
<1>2. \A q \in Keys : [c EXCEPT !.rest = q]
        = [op |-> "command", full |-> s, rest |-> q, n |-> 0]
  OBVIOUS
<1> HIDE DEF c
<1>3. calls # <<>> /\ Len(calls) = 1 /\ calls[1] = c
  BY <1>1
<1>4. Top = c /\ Full = buffer
  BY <1>3 DEF Top, Full
<1>5. Below = <<>>
  BY <1>3 DEF Below
<1>6. ASSUME NEW q \in Keys
      PROVE  Rest(q) = Trial(s, q)
  <2>1. Rest(q) = Append(<<>>, [c EXCEPT !.rest = q])
    BY <1>4, <1>5 DEF Rest
  <2>2. QED
    BY <1>2, <2>1 DEF Trial
<1>7. QED
  BY <1>1, <1>3, <1>4, <1>5, <1>6

\* No repeat is in progress then.
LEMMA TrialDot ==
  ASSUME KInv, alive, NEW s, NEW r, calls = Trial(s, r)
  PROVE  vi \in Vi /\ ~vi.dot
<1>1. RepeatsOf(calls) = {}
  BY DEF RepeatsOf, Trial
<1>2. InProgress(calls) = 0
  BY <1>1, FS_EmptySet DEF InProgress
<1>3. QED
  BY <1>2 DEF KInv, IInv, TypeOK, Dotted

\* An insertion is entered, unless the document is readonly.
LEMMA EnteredLasts ==
  ASSUME NEW v \in Vi, v.mode = "COMMAND", ~v.dot, NEW k \in Key
  PROVE  /\ Entered(v, k) \in Vi
         /\ \/ Entered(v, k).mode = "COMMAND"
            \/ /\ Entered(v, k).mode = "INSERT" /\ Entered(v, k).text = <<>>
               /\ Entered(v, k).icmd = Append(v.icmd, k) /\ Entered(v, k).rec = v.rec
<1> DEFINE u == [v EXCEPT !.text = <<>>, !.shown = <<>>, !.astray = "no"]
           o == [u EXCEPT !.undo = @ + 1]
           w == [o EXCEPT !.mode = "INSERT", !.icmd = Append(@, k)]
<1>1. CASE readonly
  BY <1>1 DEF Entered
<1>2. CASE ~readonly
  <2>1. u \in Vi /\ u.text = <<>> /\ u.icmd = v.icmd /\ u.rec = v.rec
    BY JoinedKeys DEF Vi
  <2> HIDE DEF u
  <2>2. o \in Vi /\ o.text = <<>> /\ o.icmd = v.icmd /\ o.rec = v.rec
    BY <2>1 DEF Vi
  <2>3. Opened(v) = o
    BY DEF Opened, u
  <2>4. Entered(v, k) = w
    BY <1>2, <2>3 DEF Entered
  <2> HIDE DEF o
  <2>5. Append(o.icmd, k) \in Keys
    BY <2>2, JoinedKeys, Fields
  <2>6. w.mode = "INSERT" /\ w.text = <<>> /\ w.icmd = Append(v.icmd, k) /\ w.rec = v.rec
    BY <2>2 DEF Vi
  <2>7. w \in Vi
    BY <2>2, <2>5 DEF Vi, Mode
  <2>8. QED
    BY <2>4, <2>6, <2>7
<1>3. QED
  BY <1>1, <1>2

\* Text is added to it.
LEMMA InsertedLasts ==
  ASSUME NEW v \in Vi, ~v.dot, NEW r \in Keys, ~Ends(r)
  PROVE  /\ Inserted(v, r).text = v.text \o r /\ Inserted(v, r).reg = v.text \o r
         /\ Inserted(v, r).mode = v.mode /\ Inserted(v, r).icmd = v.icmd
         /\ Inserted(v, r).rec = v.rec
<1> DEFINE u == [v EXCEPT !.text = v.text \o r, !.reg = v.text \o r]
<1>1. u.shown = v.shown
  BY DEF Vi
<1>2. Appended(v, r) = u
  BY DEF Appended, Vi
<1>3. Inserted(v, r) = [u EXCEPT !.shown = Shown(v, u.shown \o r)]
  BY <1>1, <1>2 DEF Inserted
<1>4. /\ u.text = v.text \o r /\ u.reg = v.text \o r /\ u.mode = v.mode
      /\ u.icmd = v.icmd /\ u.rec = v.rec /\ DOMAIN u = DOMAIN v
  BY DEF Vi
<1> HIDE DEF u
<1>5. QED
  BY <1>3, <1>4 DEF Vi

\* An escape makes it the last command, and records it.
LEMMA LeftLasts ==
  ASSUME NEW v \in Vi, ~v.dot, NEW s \in Keys, Lasts(v, s)
  PROVE  /\ Inserted(v, <<"esc">>).mode = "COMMAND"
         /\ v.text # <<>> => /\ Inserted(v, <<"esc">>).last = Append(s, "esc")
                             /\ Inserted(v, <<"esc">>).rec = Append(s, "esc")
<1> DEFINE e == <<"esc">>
           g == IF v.text # <<>> THEN v.text ELSE v.reg
           h == Shown(v, v.shown \o Front(e))
           a == IF Len(e) > 1 /\ ~v.dot THEN Astray(v, "rest") ELSE v.astray
           w == [v EXCEPT !.reg = g, !.shown = h, !.astray = a]
<1>1. Ends(e) /\ Inserted(v, e) = Escaped(w)
  <2>1. Ends(e)
    BY DEF Ends, Last
  <2>2. QED
    BY <2>1 DEF Inserted
<1> HIDE DEF h, a
<1>2. /\ w.mode = "INSERT" /\ w.reg = g /\ w.icmd = v.icmd /\ w.rec = <<>> /\ ~w.dot
      /\ DOMAIN w = DOMAIN v
  BY DEF Vi, Lasts
<1> HIDE DEF w, g
<1> DEFINE c == w.icmd \o w.reg \o e
           l == IF Repeatable(c) THEN [w EXCEPT !.last = c] ELSE w
           x == [l EXCEPT !.rec = l.rec \o c]
<1>3. Inserted(v, e) = [x EXCEPT !.mode = "COMMAND", !.icmd = <<>>, !.undo = @ - 1]
  BY <1>1, <1>2 DEF Escaped, Closed, Lasting
<1>4. DOMAIN l = DOMAIN v /\ l.rec = <<>> /\ (Repeatable(c) => l.last = c)
  BY <1>2 DEF Vi
<1> HIDE DEF l, c, e
<1>5. x.rec = <<>> \o c /\ x.last = l.last /\ DOMAIN x = DOMAIN v
  BY <1>4 DEF Vi
<1> HIDE DEF x
<1>6. /\ Inserted(v, e).mode = "COMMAND" /\ Inserted(v, e).rec = <<>> \o c
      /\ Inserted(v, e).last = l.last
  BY <1>3, <1>5 DEF Vi
<1>7. ASSUME v.text # <<>>
      PROVE  c = Append(s, "esc") /\ c \in Keys /\ Repeatable(c) /\ <<>> \o c = c
  <2>1. s = v.icmd \o v.text /\ s # <<>> /\ s[1] \in {"i", "c"}
    BY DEF Lasts, Begun
  <2>2. c = s \o e /\ g = v.text
    BY <1>2, <1>7, <2>1 DEF c, g
  <2>3. s \in Seq(Key) /\ Len(s) \in Nat /\ Len(s) > 0
    <3>1. s \in Seq(Key) /\ s # <<>>
      BY <2>1 DEF Keys
    <3>2. QED
      BY <3>1, EmptySeq
  <2>4. c = Append(s, "esc")
    BY <2>2, <2>3, AppendIsConcat DEF e, Key
  <2>5. c \in Keys /\ c[1] = s[1] /\ Len(c) = Len(s) + 1
    BY <2>3, <2>4, AppendProperties DEF Keys, Key
  <2>6. c # <<>>
    BY <2>3, <2>5, EmptyHasLength
  <2>7. Uncounted(c) = c
    BY <2>1, <2>5, <2>6, Countless
  <2>8. Repeatable(c)
    <3>1. Head(c) = c[1]
      BY <2>5, <2>6 DEF Keys
    <3>2. QED
      BY <2>1, <2>5, <2>6, <2>7, <3>1 DEF Repeatable
  <2>9. <<>> \o c = c
    BY <2>5 DEF Keys
  <2>10. QED
    BY <2>4, <2>5, <2>8, <2>9
<1>8. QED
  BY <1>4, <1>6, <1>7 DEF e

\* Which commands a call tries, outside insert mode.
LEMMA Tries ==
  ASSUME Execute, Top.op = "command", Top.rest # <<>>, ~Insert(vi.mode),
         ~Cancels, Typing # <<>>
  PROVE  \/ K1 \in Transitions /\ ChangeMode
         \/ K1 = "w" /\ Motion
         \/ K1 \in {"c", "d", "y"} /\ Single /\ Visual(vi.mode)
         \/ K1 \in {"t", "c", "d", "y"} /\ NoCommand
         \/ /\ K1 \in {"c", "d", "y"} /\ ~Single
            /\ \/ OperatorKeepsMotion \/ Change
               \/ K1 = "d" \/ K1 = "y"
               \/ ~IsMotion
         \/ K1 \in {"x", "~", "."}
<1>1. ~CommandInserts /\ ~CommandCancels /\ ~OnlyCount /\ ~Parsed
  BY DEF CommandInserts, CommandCancels, OnlyCount, Parsed
<1>2. ~Repeat /\ ~EndRepeat
  BY DEF Repeat, EndRepeat, Repeating
<1>3. CASE OperatorOnSelection
  BY <1>3 DEF OperatorOnSelection
<1>4. CASE ChangeMode
  BY <1>4 DEF ChangeMode
<1>5. CASE Motion
  BY <1>5 DEF Motion
<1>6. CASE NoCommand
  BY <1>6 DEF NoCommand
<1>7. CASE Double
  <2>1. Operator /\ Doubled(Typing)
    BY <1>7 DEF Double
  <2>2. K1 \in {"d", "y"} /\ ~Single
    BY <2>1 DEF Operator, Doubled, K1
  <2>3. QED
    BY <2>2
<1>8. CASE OperatorKeepsMotion
  BY <1>8 DEF OperatorKeepsMotion, Operator
<1>9. CASE Change
  BY <1>9 DEF Change, Operator
<1>10. CASE Delete \/ Yank \/ NoOperand
  BY <1>10 DEF Delete, Yank, NoOperand, Operator
<1>11. CASE Edit \/ Tilde \/ StartRepeat
  <2>1. IsOther
    BY <1>11 DEF Edit, Tilde, StartRepeat
  <2>2. CASE K1 \in {"x", "~", "."}
    BY <2>2
  <2>3. CASE K1 \notin {"x", "~", "."}
    <3>1. /\ Operator /\ Uncounted(Operand) # <<>>
          /\ \/ Head(Uncounted(Operand)) \in {"x", "~", "."}
             \/ Doubled(Uncounted(Operand))
      BY <2>1, <2>3 DEF IsOther
    <3>2. ~IsMotion
      BY <3>1 DEF IsMotion, Doubled
    <3>3. QED
      BY <3>1, <3>2 DEF Operator
  <2>4. QED
    BY <2>2, <2>3
<1>12. QED
  BY <1>1, <1>2, <1>3, <1>4, <1>5, <1>6, <1>7, <1>8, <1>9, <1>10, <1>11 DEF Execute

\* An escape leads to command mode, but from an insertion in a block to that.
LEMMA EscapedMode ==
  ASSUME NEW v \in Vi
  PROVE  /\ v.mode # "INSERT_BLOCK" => Escaped(v).mode = "COMMAND"
         /\ v.mode = "INSERT_BLOCK" => Escaped(v).mode = "VISUAL_BLOCK"
<1>1. CASE v.mode = "INSERT"
  <2> DEFINE c == v.icmd \o v.reg \o <<"esc">>
             l == IF Repeatable(c) THEN [v EXCEPT !.last = c] ELSE v
             x == IF v.dot THEN v ELSE [l EXCEPT !.rec = l.rec \o c]
  <2>1. Escaped(v) = [x EXCEPT !.mode = "COMMAND", !.icmd = <<>>, !.undo = @ - 1]
    BY <1>1 DEF Escaped, Closed, Lasting
  <2> HIDE DEF c
  <2>2. DOMAIN x = DOMAIN v
    OBVIOUS
  <2> HIDE DEF x
  <2>3. QED
    BY <1>1, <2>1, <2>2 DEF Vi
<1>2. CASE v.mode # "INSERT"
  BY <1>2 DEF Escaped, Vi
<1>3. QED
  BY <1>1, <1>2

\* An insertion without text, yet.
LEMMA OpeningLasts ==
  ASSUME NEW v, v.mode = "INSERT", v.rec = <<>>, v.text = <<>>,
         NEW s \in Openings, v.icmd = s
  PROVE  Lasts(v, s)
<1>1. s = <<"i">> \/ s = <<"c", "w">>
  BY DEF Openings
<1>2. Begun(s) /\ (s[1] = "c" => Len(s) > 1 /\ s[2] = "w") /\ s \in Seq(Key)
  <2>1. CASE s = <<"i">>
    <3>1. s \in Keys /\ s # <<>> /\ s[1] = "i"
      BY <2>1, OpeningKeys, Zenon
    <3>2. QED
      BY <3>1 DEF Begun, Keys
  <2>2. CASE s = <<"c", "w">>
    <3>1. s \in Keys /\ s # <<>> /\ s[1] = "c" /\ s[2] = "w" /\ Len(s) = 2
      BY <2>2, OpeningKeys, Zenon
    <3>2. QED
      BY <3>1 DEF Begun, Keys
  <2>3. QED
    BY <1>1, <2>1, <2>2
<1>3. s \o <<>> = s
  BY <1>2, ConcatEmptySeq
<1>4. QED
  BY <1>2, <1>3 DEF Lasts

\* The program executes; the history is of the keyboard.
LEMMA ExecuteHistory ==
  ASSUME Execute
  PROVE  alive /\ calls # <<>> /\ session' = session /\ fresh' = fresh
  BY DEF Execute, CommandInserts, CommandCancels, OnlyCount, OperatorOnSelection,
         ChangeMode, Motion, NoCommand, Double, OperatorKeepsMotion, Change, Delete,
         Yank, NoOperand, Edit, Tilde, StartRepeat, Repeat, EndRepeat, Parsed,
         quiet, history

\* A call for keys without a count, which are no two escapes.
LEMMA TrialParses ==
  ASSUME KInv, alive, buffer \in Keys, NEW s \in Keys, NEW r \in Keys,
         calls = Trial(s, r), Len(buffer) < 3, r # <<>>, r[1] # "2"
  PROVE  /\ ~Cancels /\ Typing = r
         /\ Counted = [vi EXCEPT !.count = 1] /\ Counted \in Vi
         /\ Counted.mode = vi.mode /\ Counted.icmd = vi.icmd /\ Counted.rec = vi.rec
         /\ ~Counted.dot
<1>1. Top.rest = r /\ Full = buffer /\ Len(buffer) \in Nat
  BY TrialTop DEF Keys
<1>2. Count(r) = <<>> /\ Uncounted(r) = r
  BY Countless
<1>3. vi \in Vi /\ ~vi.dot
  BY TrialDot
<1>4. Typing = r /\ Counted = [vi EXCEPT !.count = 1]
  BY <1>1, <1>2 DEF Typing, Counted, Filtered
<1>5. /\ [vi EXCEPT !.count = 1] \in Vi /\ [vi EXCEPT !.count = 1].mode = vi.mode
      /\ [vi EXCEPT !.count = 1].icmd = vi.icmd /\ [vi EXCEPT !.count = 1].rec = vi.rec
      /\ [vi EXCEPT !.count = 1].dot = vi.dot
  BY <1>3 DEF Vi, Many
<1>6. ~Cancels
  BY <1>1 DEF Cancels
<1>7. QED
  BY <1>3, <1>4, <1>5, <1>6

\* The keys that are tried.
LEMMA TriedKeys ==
  ASSUME NEW s \in Openings \cup {<<"c">>}
  PROVE  /\ s \in {<<"i">>, <<"c">>, <<"c", "w">>}
         /\ s \in Keys /\ s # <<>> /\ Len(s) < 3 /\ s[1] \in {"i", "c"}
<1>1. s \in {<<"i">>, <<"c">>, <<"c", "w">>}
  BY DEF Openings
<1>2. s \in Keys /\ s # <<>> /\ Len(s) \in {1, 2} /\ s[1] \in {"i", "c"}
  <2>1. CASE s = <<"i">>
    BY <2>1, OpeningKeys, Zenon
  <2>2. CASE s = <<"c">>
    BY <2>2, OpeningKeys, Zenon
  <2>3. CASE s = <<"c", "w">>
    BY <2>3, OpeningKeys, Zenon
  <2>4. QED
    BY <1>1, <2>1, <2>2, <2>3
<1>3. Len(s) < 3
  BY <1>2
<1>4. QED
  BY <1>1, <1>2, <1>3

\* The opening is tried.
LEMMA TriedStep ==
  ASSUME KInv, Execute, IsTried
  PROVE  Stage'
<1>1. /\ alive /\ session' = session /\ buffer = session /\ calls = Trial(session, session)
      /\ vi.mode = "COMMAND" /\ vi.icmd = <<>> /\ vi.rec = <<>>
  BY ExecuteHistory DEF IsTried, Unbegun
<1>2. /\ session \in {<<"i">>, <<"c">>, <<"c", "w">>}
      /\ session \in Keys /\ session # <<>> /\ Len(session) < 3 /\ session[1] \in {"i", "c"}
  BY TriedKeys DEF IsTried
<1>3. /\ Top.op = "command" /\ Top.rest = session /\ Below = <<>>
      /\ \A q \in Keys : Rest(q) = Trial(session, q)
  BY <1>1, <1>2, TrialTop
<1>4. /\ ~Insert(vi.mode) /\ ~Visual(vi.mode) /\ ~Cancels /\ Typing = session
      /\ Counted \in Vi /\ Counted.mode = "COMMAND" /\ Counted.icmd = <<>>
      /\ Counted.rec = <<>> /\ ~Counted.dot
  BY <1>1, <1>2, TrialParses DEF Insert, Visual
<1>5. \/ K1 \in Transitions /\ ChangeMode
      \/ K1 = "w" /\ Motion
      \/ K1 \in {"t", "c", "d", "y"} /\ NoCommand
      \/ /\ K1 \in {"c", "d", "y"} /\ ~Single
         /\ OperatorKeepsMotion \/ Change \/ K1 = "d" \/ K1 = "y" \/ ~IsMotion
      \/ K1 \in {"x", "~", "."}
  BY <1>2, <1>3, <1>4, Tries
<1>6. CASE session = <<"i">>
  <2>1. K1 = "i" /\ Single /\ Tail(Typing) = <<>>
    BY <1>4, <1>6, OpeningKeys, Zenon DEF K1, Single
  <2>2. ChangeMode
    BY <1>5, <2>1
  <2>3. Go(Transited(Counted, "i"), <<>>)
    BY <2>1, <2>2 DEF ChangeMode
  <2> DEFINE v == Entered(Counted, "i")
  <2>4. vi' = v /\ calls' = Trial(session, <<>>) /\ buffer' = session
    BY <1>1, <1>3, <2>3, JoinedKeys DEF Go, Transited
  <2>5. \/ v.mode = "COMMAND"
        \/ v.mode = "INSERT" /\ v.text = <<>> /\ v.icmd = Append(<<>>, "i") /\ v.rec = <<>>
    <3>1. "i" \in Key
      BY DEF Key
    <3>2. QED
      BY <1>4, <3>1, EnteredLasts
  <2> HIDE DEF v
  <2>6. session \in Openings /\ Append(<<>>, "i") = session
    BY <1>6, OpeningKeys, Zenon DEF Openings
  <2>7. v.mode = "COMMAND" \/ Lasts(v, session)
    BY <2>5, <2>6, OpeningLasts
  <2>8. WasTried'
    BY <1>1, <2>4, <2>6, <2>7 DEF WasTried
  <2>9. QED
    BY <2>8 DEF Stage
<1>7. CASE session = <<"c">>
  <2>1. K1 = "c" /\ Single
    BY <1>4, <1>7, OpeningKeys, Zenon DEF K1, Single
  <2>2. NoCommand
    BY <1>5, <2>1 DEF Transitions
  <2>3. vi' = Cleared /\ calls' = <<>> /\ buffer' = session
    BY <1>1, <1>3, <2>2 DEF NoCommand, Return
  <2>4. Unbegun(Cleared)
    BY <1>4 DEF Cleared, Unbegun, Vi
  <2>5. Waits'
    BY <1>1, <1>7, <2>3, <2>4 DEF Waits
  <2>6. QED
    BY <2>5 DEF Stage
<1>8. CASE session = <<"c", "w">>
  <2> DEFINE v == Entered(Counted, "c")
  <2>1. K1 = "c" /\ Operand = <<"w">>
    BY <1>4, <1>8, OpeningKeys, Zenon DEF K1, Operand
  <2>2. ~Single
    <3>1. Len(session) = 2
      BY <1>8, OpeningKeys, Zenon
    <3>2. QED
      BY <1>4, <3>1 DEF Single
  <2>3. <<"w">> \in Keys /\ <<"w">> # <<>> /\ <<"w">>[1] = "w" /\ Head(<<"w">>) = "w"
        /\ Tail(<<"w">>) = <<>> /\ Append(<<"c">>, "w") = session
        /\ Append(<<>>, "c") = <<"c">>
    BY <1>8, OpeningKeys, Zenon
  <2>4. Count(Operand) = <<>> /\ Uncounted(Operand) = <<"w">>
    BY <2>1, <2>3, Countless
  <2>5. IsMotion
    BY <2>3, <2>4 DEF IsMotion
  <2>6. OperatorKeepsMotion \/ Change
    BY <1>5, <2>1, <2>2, <2>5 DEF Transitions, NoCommand
  <2>7. Before = v /\ Moving = v
    BY <2>1, <2>4 DEF Before, Moving, Filtered
  <2>8. /\ v \in Vi
        /\ \/ v.mode = "COMMAND"
           \/ v.mode = "INSERT" /\ v.text = <<>> /\ v.icmd = <<"c">> /\ v.rec = <<>>
    <3>1. "c" \in Key
      BY DEF Key
    <3>2. QED
      BY <1>4, <2>3, <3>1, EnteredLasts
  <2> HIDE DEF v
  <2>9. session \in Openings
    BY <1>8 DEF Openings
  <2>10. CASE Go(v, <<"w">>)
    <3>1. vi' = v /\ calls' = Trial(session, <<"w">>) /\ buffer' = session
      BY <1>1, <1>3, <2>3, <2>10 DEF Go
    <3>2. KeepsMotion'
      BY <1>1, <1>8, <2>8, <3>1 DEF KeepsMotion
    <3>3. QED
      BY <3>2 DEF Stage
  <2>11. CASE Go(Moved(v), <<>>)
    <3>1. vi' = Moved(v) /\ calls' = Trial(session, <<>>) /\ buffer' = session
      BY <1>1, <1>3, <2>11, JoinedKeys DEF Go
    <3>2. CASE v.mode = "COMMAND"
      <4>1. Moved(v).mode = "COMMAND"
        BY <2>8, <3>2 DEF Moved, Vi
      <4>2. QED
        BY <1>1, <2>9, <3>1, <4>1 DEF WasTried, Stage
    <3>3. CASE v.mode = "INSERT" /\ v.text = <<>> /\ v.icmd = <<"c">> /\ v.rec = <<>>
      <4>1. <<"c">> # <<>>
        BY OpeningKeys, Zenon
      <4>2. Moved(v) = [v EXCEPT !.icmd = session, !.count = 1]
        BY <2>3, <3>3, <4>1 DEF Moved
      <4>3. /\ Moved(v).mode = "INSERT" /\ Moved(v).text = <<>> /\ Moved(v).rec = <<>>
            /\ Moved(v).icmd = session
        BY <2>8, <3>3, <4>2 DEF Vi
      <4>4. Lasts(Moved(v), session)
        BY <2>9, <4>3, OpeningLasts
      <4>5. QED
        BY <1>1, <2>9, <3>1, <4>4 DEF WasTried, Stage
    <3>4. QED
      BY <2>8, <3>2, <3>3
  <2>12. CASE Return(Escaped(v), <<>>, FALSE)
    <3>1. vi' = Escaped(v) /\ calls' = <<>> /\ buffer' = <<>>
      BY <1>3, <2>12 DEF Return
    <3>2. Escaped(v).mode = "COMMAND"
      BY <2>8, EscapedMode
    <3>3. ~Insertion(session)
      BY <2>9, OpeningsAreShort
    <3>4. QED
      BY <1>1, <3>1, <3>2, <3>3 DEF HasEnded, Stage
  <2>13. Go(v, <<"w">>) \/ Go(Moved(v), <<>>) \/ Return(Escaped(v), <<>>, FALSE)
    <3>1. CASE OperatorKeepsMotion
      BY <2>1, <2>7, <3>1 DEF OperatorKeepsMotion
    <3>2. CASE Change
      <4>1. Tail(Uncounted(Operand)) = <<>>
        BY <2>3, <2>4
      <4>2. QED
        BY <2>7, <3>2, <4>1 DEF Change
    <3>3. QED
      BY <2>6, <3>1, <3>2
  <2>14. QED
    BY <2>10, <2>11, <2>12, <2>13
<1>9. QED
  BY <1>2, <1>6, <1>7, <1>8

\* In insert mode what remains is text.
LEMMA OnlyInserts ==
  ASSUME Execute, Top.op = "command", Top.rest # <<>>, Insert(vi.mode)
  PROVE  CommandInserts
  BY DEF Execute, CommandCancels, OnlyCount, OperatorOnSelection,
         ChangeMode, Motion, NoCommand, Double, OperatorKeepsMotion, Change, Delete,
         Yank, NoOperand, Operator, Edit, Tilde, StartRepeat, IsOther, Parsing, Repeat,
         EndRepeat, Repeating, Parsed

\* When nothing remains the command ends.
LEMMA OnlyParsed ==
  ASSUME Execute, Top.op = "command", Top.rest = <<>>
  PROVE  Parsed
  BY DEF Execute, CommandInserts, CommandCancels, OnlyCount, OperatorOnSelection,
         ChangeMode, Motion, NoCommand, Double, OperatorKeepsMotion, Change, Delete,
         Yank, NoOperand, Operator, Edit, Tilde, StartRepeat, IsOther, Parsing, Running,
         Repeat, EndRepeat, Repeating

\* The motion that remains: a motion, or text.
LEMMA MotionStep ==
  ASSUME KInv, Execute, KeepsMotion
  PROVE  Stage'
<1>1. /\ alive /\ session' = session /\ session = <<"c", "w">> /\ buffer = session
      /\ calls = Trial(session, <<"w">>)
      /\ \/ vi.mode = "COMMAND"
         \/ vi.mode = "INSERT" /\ vi.icmd = <<"c">> /\ vi.text = <<>> /\ vi.rec = <<>>
  BY ExecuteHistory DEF KeepsMotion
<1> DEFINE r == <<"w">>
<1>2. /\ r \in Keys /\ r # <<>> /\ r[1] = "w" /\ Head(r) = "w" /\ Tail(r) = <<>>
      /\ Len(r) = 1 /\ session \in Keys /\ Len(session) = 2 /\ <<"c">> \o r = session
      /\ <<"c">> # <<>> /\ Last(r) = "w"
  <2>1. Last(r) = "w"
    BY DEF Last
  <2>2. QED
    BY <1>1, <2>1, OpeningKeys, Zenon
<1>3. session \in Openings /\ ~Insertion(session)
  BY <1>1, OpeningsAreShort DEF Openings
<1> HIDE DEF r
<1>4. /\ Top.op = "command" /\ Top.rest = r /\ Below = <<>> /\ Full = buffer
      /\ \A q \in Keys : Rest(q) = Trial(session, q)
  BY <1>1, <1>2, TrialTop DEF r
<1>5. vi \in Vi /\ ~vi.dot
  BY <1>1, TrialDot
<1>6. CASE vi.mode = "COMMAND"
  <2>1. Len(buffer) < 3
    BY <1>1, <1>2
  <2>2. /\ ~Insert(vi.mode) /\ ~Visual(vi.mode) /\ ~Cancels /\ Typing = r
        /\ Counted \in Vi /\ Counted.mode = "COMMAND"
    <3>1. calls = Trial(session, r) /\ r[1] # "2" /\ buffer \in Keys
      BY <1>1, <1>2 DEF r
    <3>2. QED
      BY <1>1, <1>2, <1>6, <2>1, <3>1, TrialParses DEF Insert, Visual
  <2>3. K1 = "w"
    BY <1>2, <2>2 DEF K1
  <2>4. Motion
    BY <1>2, <1>4, <2>2, <2>3, Tries DEF Transitions
  <2>5. \/ Go([Cleared EXCEPT !.count = 1], <<>>)
        \/ Return(Cleared, <<>>, FALSE)
    BY <1>2, <2>2, <2>4 DEF Motion
  <2>6. Cleared.mode = "COMMAND" /\ [Cleared EXCEPT !.count = 1].mode = "COMMAND"
    BY <2>2 DEF Cleared, Vi
  <2>7. CASE Go([Cleared EXCEPT !.count = 1], <<>>)
    <3>1. vi'.mode = "COMMAND" /\ calls' = Trial(session, <<>>) /\ buffer' = session
      BY <1>1, <1>4, <2>6, <2>7, JoinedKeys DEF Go
    <3>2. QED
      BY <1>1, <1>3, <3>1 DEF WasTried, Stage
  <2>8. CASE Return(Cleared, <<>>, FALSE)
    <3>1. vi'.mode = "COMMAND" /\ calls' = <<>> /\ buffer' = <<>>
      BY <1>4, <2>6, <2>8 DEF Return
    <3>2. QED
      BY <1>1, <1>3, <3>1 DEF HasEnded, Stage
  <2>9. QED
    BY <2>5, <2>7, <2>8
<1>7. CASE vi.mode = "INSERT" /\ vi.icmd = <<"c">> /\ vi.text = <<>> /\ vi.rec = <<>>
  <2>1. Insert(vi.mode)
    BY <1>7 DEF Insert
  <2>2. CommandInserts
    BY <1>2, <1>4, <2>1, OnlyInserts
  <2>3. ~Entry /\ ~Ends(r)
    <3>1. r # session
      BY <1>2
    <3>2. QED
      BY <1>1, <1>2, <1>4, <3>1 DEF Entry, Ends
  <2>4. vi' = Inserted(vi, r) /\ buffer' = session /\ calls' = Trial(session, <<>>)
    BY <1>1, <1>4, <2>2, <2>3, JoinedKeys DEF CommandInserts, InsertedBuffer
  <2>5. /\ vi'.text = <<>> \o r /\ vi'.reg = <<>> \o r /\ vi'.mode = "INSERT"
        /\ vi'.icmd = <<"c">> /\ vi'.rec = <<>>
    BY <1>2, <1>5, <1>7, <2>3, <2>4, InsertedLasts
  <2>6. <<>> \o r = r
    BY <1>2, ConcatEmptySeq DEF Keys
  <2>7. Begun(session) /\ (session[1] = "c" => Len(session) > 1 /\ session[2] = "w")
    <3>1. session[1] = "c" /\ session[2] = "w" /\ session # <<>>
      BY <1>1, OpeningKeys, Zenon
    <3>2. QED
      BY <1>2, <3>1 DEF Begun
  <2>8. Lasts(vi', session)
    BY <1>2, <2>5, <2>6, <2>7 DEF Lasts
  <2>9. QED
    BY <1>1, <1>3, <2>4, <2>8 DEF WasTried, Stage
<1>8. QED
  BY <1>1, <1>6, <1>7

\* The opening has been tried.
LEMMA WasTriedStep ==
  ASSUME KInv, Execute, WasTried
  PROVE  Stage'
<1>1. /\ alive /\ session' = session /\ session \in Openings /\ buffer = session
      /\ calls = Trial(session, <<>>)
      /\ vi.mode = "COMMAND" \/ Lasts(vi, session)
  BY ExecuteHistory DEF WasTried
<1>2. session \in Keys /\ <<>> \in Keys /\ ~Insertion(session)
  BY <1>1, TriedKeys, OpeningsAreShort, JoinedKeys
<1>3. Top.op = "command" /\ Top.rest = <<>> /\ Below = <<>> /\ Full = buffer
  BY <1>1, <1>2, TrialTop
<1>4. vi \in Vi /\ ~vi.dot
  BY <1>1, TrialDot
<1>5. Parsed
  BY <1>3, OnlyParsed
<1> DEFINE v == Lasting(vi, Full)
           w == IF Insert(v.mode) THEN v ELSE [v EXCEPT !.rec = v.rec \o Full]
<1>6. Return(w, buffer, TRUE)
  BY <1>4, <1>5 DEF Parsed
<1>7. /\ v.mode = vi.mode /\ v.rec = vi.rec /\ v.icmd = vi.icmd /\ v.text = vi.text
      /\ v.reg = vi.reg /\ DOMAIN v = DOMAIN vi
  BY <1>4 DEF Lasting, Vi
<1> HIDE DEF v
<1>8. calls' = <<>> /\ buffer' = <<>>
  BY <1>3, <1>6 DEF Return
<1>9. CASE vi.mode = "COMMAND"
  <2>1. w.mode = "COMMAND" /\ [w EXCEPT !.icmd = <<>>].mode = "COMMAND"
    BY <1>4, <1>7, <1>9 DEF Vi, Insert
  <2>2. vi' \in {w, [w EXCEPT !.icmd = <<>>]}
    BY <1>6 DEF Return
  <2> HIDE DEF w
  <2>3. vi'.mode = "COMMAND"
    BY <2>1, <2>2
  <2>4. QED
    BY <1>1, <1>2, <1>8, <2>3 DEF HasEnded, Stage
<1>10. CASE Lasts(vi, session)
  <2>1. Insert(v.mode)
    BY <1>7, <1>10 DEF Insert, Lasts
  <2>2. vi' = v
    BY <1>6, <2>1 DEF Return
  <2>3. Lasts(vi', session)
    BY <1>7, <1>10, <2>2 DEF Lasts
  <2>4. QED
    BY <1>1, <1>8, <2>3 DEF TakesText, Stage
<1>11. QED
  BY <1>1, <1>9, <1>10

\* The escape is tried.
LEMMA LeftStep ==
  ASSUME KInv, Execute, IsLeft
  PROVE  Stage'
<1>1. /\ alive /\ session' = session /\ buffer = <<"esc">> /\ calls = Trial(buffer, buffer)
  BY ExecuteHistory DEF IsLeft
<1>2. PICK s \in Keys : Lasts(vi, s) /\ session = Append(s, "esc")
  BY DEF IsLeft
<1>3. buffer \in Keys /\ buffer # <<>>
  BY <1>1, OpeningKeys, Zenon
<1>4. Top.op = "command" /\ Top.rest = buffer /\ Below = <<>> /\ Full = buffer
  BY <1>1, <1>3, TrialTop
<1>5. vi \in Vi /\ ~vi.dot
  BY <1>1, TrialDot
<1>6. Insert(vi.mode) /\ vi.mode = "INSERT"
  BY <1>2 DEF Insert, Lasts
<1>7. CommandInserts
  BY <1>3, <1>4, <1>6, OnlyInserts
<1>8. Ends(buffer)
  BY <1>1 DEF Ends, Last
<1>9. Return(Inserted(vi, buffer), <<>>, TRUE)
  BY <1>4, <1>6, <1>7, <1>8 DEF CommandInserts, Entry, InsertedBuffer, EscapedBuffer
<1>10. vi' = Inserted(vi, buffer) /\ calls' = <<>> /\ buffer' = <<>>
  BY <1>4, <1>9 DEF Return, Ends
<1>11. /\ vi'.mode = "COMMAND"
       /\ vi.text # <<>> => vi'.last = session /\ vi'.rec = session
  BY <1>1, <1>2, <1>5, <1>10, LeftLasts
<1>12. vi.text = <<>> => ~Insertion(session)
  <2>1. SUFFICES ASSUME vi.text = <<>> PROVE ~Insertion(session)
    OBVIOUS
  <2>2. vi.icmd \in Openings /\ s = vi.icmd \o <<>>
    BY <1>2, <2>1 DEF Lasts
  <2>3. vi.icmd \o <<>> = vi.icmd
    BY <1>5, Fields, ConcatEmptySeq DEF Keys
  <2>4. s \in Openings
    BY <2>2, <2>3
  <2>5. QED
    BY <1>2, <2>4, OpeningsAreShort
<1>13. QED
  BY <1>1, <1>10, <1>11, <1>12 DEF HasEnded, Stage

\* A key after two parts is a key after the second.
LEMMA AppendInConcat ==
  ASSUME NEW r \in Seq(Key), NEW s \in Seq(Key), NEW k \in Key
  PROVE  Append(r \o s, k) = r \o Append(s, k)
<1>1. r \o s \in Seq(Key) /\ <<k>> \in Seq(Key)
  BY ConcatProperties
<1>2. Append(r \o s, k) = (r \o s) \o <<k>> /\ Append(s, k) = s \o <<k>>
  BY <1>1, AppendIsConcat
<1>3. (r \o s) \o <<k>> = r \o (s \o <<k>>)
  BY <1>1, ConcatAssociative
<1>4. QED
  BY <1>2, <1>3

\* Between two commands.
LEMMA ReadyStage ==
  ASSUME KInv, Ready, Stage
  PROVE  \/ Waits /\ vi.mode = "COMMAND" /\ ~NewSession
         \/ TakesText /\ vi.mode = "INSERT" /\ ~NewSession
         \/ HasEnded /\ vi.mode = "COMMAND" /\ NewSession
<1>1. ~IsTried /\ ~KeepsMotion /\ ~WasTried /\ ~IsLeft
  BY DEF Ready, IsTried, KeepsMotion, WasTried, IsLeft, Trial
<1>2. <<"c">> # <<>>
  BY OpeningKeys, Zenon
<1>3. QED
  BY <1>1, <1>2 DEF Stage, Waits, TakesText, HasEnded, Lasts, Unbegun, NewSession

\* A session that goes on was one that had begun.
LEMMA GoesOn ==
  ASSUME IInv, Ready, NEW k \in Key, Noticed(k), Staged, ~NewSession, fresh',
         Begun(session')
  PROVE  /\ fresh /\ Begun(session) /\ Stage /\ Tracked(session')
         /\ session \in Keys /\ session' = Append(session, k)
<1>1. session \in Keys /\ session # <<>> /\ alive
  BY ReadyTypes DEF Staged, Ready
<1>2. ~Begun(<<"esc">>)
  BY DEF Begun
<1>3. fresh /\ session' = Append(session, k) /\ Tracked(session')
  BY <1>2 DEF Noticed
<1>4. session \in Seq(Key) /\ Len(session) \in Nat \ {0}
  BY <1>1, EmptySeq DEF Keys
<1>5. session'[1] = session[1]
  BY <1>3, <1>4, AppendProperties
<1>6. Begun(session)
  BY <1>1, <1>5 DEF Begun
<1>7. QED
  BY <1>1, <1>3, <1>6 DEF Staged

\* What is typed is a session.
LEMMA NoticedSession ==
  ASSUME IInv, Ready, NEW k \in Key, Noticed(k)
  PROVE  session' # <<>>
<1>1. session \in Seq(Key)
  BY ReadyTypes DEF Keys
<1>2. Append(session, k) # <<>> /\ <<k>> # <<>> /\ <<"esc">> # <<>>
  <2>1. Append(session, k) # <<>>
    BY <1>1, AppendProperties, EmptyHasLength
  <2>2. QED
    BY <2>1
<1>3. QED
  BY <1>2 DEF Noticed

\* Text is typed.
LEMMA TextStage ==
  ASSUME RInv, NEW k \in user.texts, TypeText(k), UNCHANGED user
  PROVE  Staged'
<1>1. KInv /\ IInv /\ Staged /\ Ready /\ Noticed(k) /\ Insert(vi.mode)
  BY DEF RInv, KInv, TypeText
<1>2. k \in Key /\ k # "esc" /\ vi \in Vi /\ ~vi.dot
  BY <1>1, ReadyTypes, ReadyDot, KeysAssumption
<1>3. session' # <<>>
  BY <1>1, <1>2, NoticedSession
<1>4. ASSUME alive', fresh', Begun(session')
      PROVE  Stage'
  <2>1. ~NewSession
    BY <1>1 DEF NewSession, Insert
  <2>2. Begun(session) /\ Stage /\ session \in Keys /\ session' = Append(session, k)
    BY <1>1, <1>2, <1>4, <2>1, GoesOn
  <2>3. TakesText
    BY <1>1, <2>1, <2>2, ReadyStage DEF Insert
  <2>4. calls = <<>> /\ buffer = <<>> /\ Lasts(vi, session) /\ vi.mode = "INSERT"
    BY <2>3 DEF TakesText, Lasts
  <2>5. vi' = Inserted(vi, Append(<<>>, k)) /\ buffer' = <<>> /\ calls' = <<>>
    BY <2>4 DEF TypeText
  <2>6. Append(<<>>, k) = <<k>> /\ <<k>> \in Keys /\ ~Ends(<<k>>)
    BY <1>2 DEF Keys, Ends, Last
  <2>7. /\ vi'.text = vi.text \o <<k>> /\ vi'.reg = vi.text \o <<k>>
        /\ vi'.mode = "INSERT" /\ vi'.icmd = vi.icmd /\ vi'.rec = <<>>
    BY <1>2, <2>4, <2>5, <2>6, InsertedLasts DEF Lasts
  <2>8. vi.text \in Seq(Key) /\ vi.icmd \in Seq(Key) /\ session \in Seq(Key)
    BY <1>2, <2>2, Fields DEF Keys
  <2>9. vi.text \o <<k>> = Append(vi.text, k)
    BY <1>2, <2>8, AppendIsConcat
  <2>10. Append(vi.text, k) # <<>>
    BY <1>2, <2>8, AppendProperties, EmptyHasLength
  <2>11. session' = vi.icmd \o Append(vi.text, k)
    <3>1. session = vi.icmd \o vi.text
      BY <2>4 DEF Lasts
    <3>2. Append(vi.icmd \o vi.text, k) = vi.icmd \o Append(vi.text, k)
      BY <1>2, <2>8, AppendInConcat
    <3>3. QED
      BY <2>2, <3>1, <3>2
  <2>12. Begun(session') /\ (session'[1] = "c" => Len(session') > 1 /\ session'[2] = "w")
    <3>1. Len(session) \in Nat \ {0}
      BY <2>2, <2>8, EmptySeq DEF Begun
    <3>2. /\ Len(session') = Len(session) + 1
          /\ \A i \in 1..Len(session) : session'[i] = session[i]
      BY <1>2, <2>2, <2>8, AppendProperties
    <3>3. session[1] = "c" => Len(session) > 1 /\ session[2] = "w"
      BY <2>4 DEF Lasts
    <3>4. QED
      BY <1>4, <3>1, <3>2, <3>3
  <2>13. Lasts(vi', session')
    BY <2>7, <2>9, <2>10, <2>11, <2>12 DEF Lasts
  <2>14. QED
    BY <2>5, <2>13 DEF TakesText, Stage
<1>5. QED
  BY <1>3, <1>4 DEF Staged

\* A key is typed: the first one, the motion of c, or the escape.
LEMMA KeyStage ==
  ASSUME RInv, NEW k \in user.keys, TypeKey(k), UNCHANGED user
  PROVE  Staged'
<1>1. KInv /\ IInv /\ Staged /\ Ready /\ Noticed(k)
  BY DEF RInv, KInv, TypeKey
<1>2. k \in Key /\ vi \in Vi /\ buffer \in Keys
  BY <1>1, ReadyTypes
<1>3. session' # <<>>
  BY <1>1, <1>2, NoticedSession
<1>4. buffer' = Append(buffer, k) /\ calls' = Trial(buffer', buffer')
  BY DEF TypeKey, Command, Trial
<1>5. ASSUME alive', fresh', Begun(session'), NewSession
      PROVE  Stage'
  <2>1. ~Begun(<<"esc">>)
    BY DEF Begun
  <2>2. session' = <<k>> /\ vi.icmd = <<>> /\ vi.mode = "COMMAND" /\ buffer = <<>>
    BY <1>1, <1>5, <2>1 DEF Noticed, NewSession
  <2>3. k = "i" \/ k = "c"
    BY <1>5, <2>2 DEF Begun
  <2>4. buffer' = session'
    BY <1>2, <1>4, <2>2
  <2>5. vi' = [vi EXCEPT !.rec = <<>>]
    BY <1>5 DEF TypeKey
  <2>6. Unbegun(vi')
    BY <1>2, <2>2, <2>5 DEF Unbegun, Vi
  <2>7. session' \in Openings \cup {<<"c">>}
    BY <2>2, <2>3 DEF Openings
  <2>8. IsTried'
    BY <1>4, <2>4, <2>6, <2>7 DEF IsTried
  <2>9. QED
    BY <2>8 DEF Stage
<1>6. ASSUME alive', fresh', Begun(session'), ~NewSession
      PROVE  Stage'
  <2>1. /\ Begun(session) /\ Stage /\ session \in Keys /\ session' = Append(session, k)
        /\ Tracked(session')
    BY <1>1, <1>2, <1>6, GoesOn
  <2>2. vi' = vi
    BY <1>6 DEF TypeKey
  <2>3. CASE Waits
    <3>1. session = <<"c">> /\ buffer = session /\ Unbegun(vi)
      BY <2>3 DEF Waits
    <3>2. /\ session' \in Keys /\ session' # <<>> /\ Len(session') = 2
          /\ session'[1] = "c" /\ session'[2] = k
      <4>1. Len(session) = 1 /\ session[1] = "c"
        BY <3>1
      <4>2. /\ session' \in Seq(Key) /\ Len(session') = Len(session) + 1
            /\ \A i \in 1..Len(session) : session'[i] = session[i]
            /\ session'[Len(session) + 1] = k
        <5> DEFINE a == Append(session, k)
        <5>1. /\ a \in Seq(Key) /\ Len(a) = Len(session) + 1
              /\ \A i \in 1..Len(session) : a[i] = session[i]
              /\ a[Len(session) + 1] = k
          <6>1. session \in Seq(Key)
            BY <2>1 DEF Keys
          <6>2. QED
            BY <1>2, <6>1, AppendProperties
        <5>2. session' = a
          BY <2>1
        <5> HIDE DEF a
        <5>3. QED
          BY <5>1, <5>2
      <4>3. session' \in Seq(Key) /\ Len(session') = 2
            /\ session'[1] = "c" /\ session'[2] = k
        BY <4>1, <4>2
      <4>4. QED
        BY <1>3, <4>3 DEF Keys
    <3>3. Uncounted(session') = session'
      BY <3>2, Countless
    <3>4. session' # <<".">>
      BY <3>2
    <3>5. k = "w"
      BY <2>1, <3>2, <3>3, <3>4 DEF Tracked
    <3>6. session' = <<"c", "w">>
      BY <2>1, <3>1, <3>5, OpeningKeys, Zenon
    <3>7. IsTried'
      BY <1>4, <2>1, <2>2, <3>1, <3>6 DEF IsTried, Openings
    <3>8. QED
      BY <3>7 DEF Stage
  <2>4. CASE TakesText
    <3>1. buffer = <<>> /\ Lasts(vi, session) /\ Insert(vi.mode)
      BY <2>4 DEF TakesText, Lasts, Insert
    <3>2. k = "esc"
      BY <3>1 DEF TypeKey
    <3>3. buffer' = <<"esc">>
      BY <1>4, <3>1, <3>2
    <3>4. IsLeft'
      BY <1>4, <2>1, <2>2, <3>1, <3>2, <3>3 DEF IsLeft
    <3>5. QED
      BY <3>4 DEF Stage
  <2>5. QED
    BY <1>1, <1>6, <2>1, <2>3, <2>4, ReadyStage
<1>7. QED
  BY <1>3, <1>5, <1>6 DEF Staged

\* An insertion that is edited is not followed; the document does not matter.
LEMMA EditedStage ==
  ASSUME RInv, Backspace \/ MoveCaret \/ Complete \/ CloseList \/ ToggleReadonly
  PROVE  Staged'
<1>1. KInv /\ IInv /\ Staged /\ Ready
  BY DEF RInv, KInv, Backspace, MoveCaret, Complete, CloseList, ToggleReadonly
<1>2. CASE Backspace \/ MoveCaret \/ Complete \/ CloseList
  <2>1. session' = <<"esc">>
    BY <1>2 DEF Backspace, MoveCaret, Complete, CloseList, Unnoticed
  <2>2. ~Begun(session') /\ session' # <<>>
    BY <2>1 DEF Begun
  <2>3. QED
    BY <2>2 DEF Staged
<1>3. CASE ToggleReadonly
  <2>1. /\ UNCHANGED <<buffer, calls, alive, session, fresh>>
        /\ \E a : vi' = [vi EXCEPT !.astray = a]
    BY <1>3 DEF ToggleReadonly, history
  <2>2. vi \in Vi
    BY <1>1, ReadyTypes
  <2>3. /\ vi'.mode = vi.mode /\ vi'.rec = vi.rec /\ vi'.icmd = vi.icmd
        /\ vi'.text = vi.text /\ vi'.reg = vi.reg /\ vi'.last = vi.last
    BY <2>1, <2>2 DEF Vi
  <2>4. Stage => Stage'
    <3>1. Waits => Waits'
      BY <2>1, <2>3 DEF Waits, Unbegun
    <3>2. TakesText => TakesText'
      BY <2>1, <2>3 DEF TakesText, Lasts
    <3>3. HasEnded => HasEnded'
      BY <2>1, <2>3 DEF HasEnded
    <3>4. QED
      BY <1>1, <3>1, <3>2, <3>3, ReadyStage DEF Stage
  <2>5. NewSession /\ Ready => NewSession' /\ Ready'
    BY <2>1, <2>3 DEF NewSession, Ready
  <2>6. QED
    BY <1>1, <2>1, <2>4, <2>5 DEF Staged
<1>4. QED
  BY <1>2, <1>3

\* Every step leads from one stage to another.
LEMMA NextStage == RInv /\ [Next]_vars => RInv'
<1> SUFFICES ASSUME RInv, [Next]_vars PROVE RInv'
  OBVIOUS
<1>1. KInv' /\ KInv /\ Staged
  BY NextKept DEF RInv
<1>2. CASE Execute
  <2>1. alive /\ calls # <<>> /\ session' = session /\ fresh' = fresh
    BY <1>2, ExecuteHistory
  <2>2. session # <<>>
    BY <1>1, <2>1 DEF Staged, Ready
  <2>3. ASSUME Stage
        PROVE  Stage'
    <3>1. IsTried \/ KeepsMotion \/ WasTried \/ IsLeft
      BY <2>1, <2>3 DEF Stage, Waits, TakesText, HasEnded
    <3>2. QED
      BY <1>1, <1>2, <3>1, TriedStep, MotionStep, WasTriedStep, LeftStep
  <2>4. QED
    BY <1>1, <2>1, <2>2, <2>3 DEF RInv, Staged
<1>3. CASE (\E k \in user.texts : TypeText(k)) /\ UNCHANGED user
  BY <1>1, <1>3, TextStage DEF RInv
<1>4. CASE (\E k \in user.keys : TypeKey(k)) /\ UNCHANGED user
  BY <1>1, <1>4, KeyStage DEF RInv
<1>5. CASE Backspace \/ MoveCaret \/ Complete \/ CloseList \/ ToggleReadonly
  BY <1>1, <1>5, EditedStage DEF RInv
<1>6. CASE UNCHANGED vars
  BY <1>1, <1>6 DEF RInv, Staged, Stage, Waits, IsTried, KeepsMotion, WasTried,
     TakesText, IsLeft, HasEnded, Ready, NewSession, vars
<1>7. QED
  BY <1>2, <1>3, <1>4, <1>5, <1>6 DEF Next, Crashed

\* After an insertion that was typed key by key, whatever was typed before it, the
\* last command is what was typed, and so is what was recorded, unless an insert
\* command had been left over.
THEOREM RepeatsInsertionAlways == Spec => []RepeatsInsertion
<1>1. Init => RInv
  <2> SUFFICES ASSUME Init PROVE RInv
    OBVIOUS
  <2>1. KInv
    BY InitKept
  <2>2. session = <<>> /\ Ready /\ NewSession
    BY DEF Init, Ready, NewSession
  <2>3. QED
    BY <2>1, <2>2 DEF RInv, Staged, Begun
<1>2. RInv => RepeatsInsertion
  <2> SUFFICES ASSUME RInv, Finished, fresh, Insertion(session)
               PROVE  vi.last = session /\ vi.rec = session
    BY DEF RepeatsInsertion
  <2>1. KInv /\ alive /\ Ready /\ NewSession
    BY DEF RInv, Finished, Ready
  <2>2. Begun(session)
    BY DEF Insertion, Begun, Finished
  <2>3. Stage
    BY <2>1, <2>2 DEF RInv, Staged
  <2>4. HasEnded
    BY <2>1, <2>3, ReadyStage
  <2>5. QED
    BY <2>4 DEF HasEnded
<1>3. QED
  BY <1>1, <1>2, NextStage, PTL DEF Spec

-----------------------------------------------------------------------------
(* Escapes in a row.                                                       *)

\* The stages: one that is added to what was stuck in the buffer; one on its own
\* that is tried, and has been; and the second that is added to what was stuck.
Stuck(b) == Len(b) > 1 /\ b[Len(b)] = "esc"
Leaves == buffer = <<"esc">> /\ calls = Trial(buffer, buffer)
HasLeft == buffer = <<"esc">> /\ calls = Trial(buffer, <<>>) /\ vi.mode = "COMMAND"
GivesUp ==
  /\ Len(buffer) > 2 /\ buffer[Len(buffer)] = "esc" /\ buffer[Len(buffer) - 1] = "esc"
  /\ calls = Trial(buffer, buffer)
IsOut == calls = <<>> /\ buffer = <<>>
InBlock == vi.mode \in {"COMMAND", "VISUAL_BLOCK"}

Led ==
  /\ escapes = 1 => buffer = <<>> \/ Stuck(buffer) \/ Leaves \/ HasLeft
  /\ escapes = 2 => \/ IsOut /\ InBlock
                    \/ Leaves \/ HasLeft \/ GivesUp
  /\ escapes = 3 => \/ IsOut /\ vi.mode = "COMMAND"
                    \/ Leaves /\ InBlock
                    \/ HasLeft

EInv == KInv /\ (alive => Led)

\* While the program executes, the buffer stays or is cleared.
LEMMA ExecuteBuffer ==
  ASSUME Execute
  PROVE  escapes' = escapes /\ buffer' \in {<<>>, buffer}
<1>1. escapes' = escapes
  BY DEF Execute, CommandInserts, CommandCancels, OnlyCount, OperatorOnSelection,
         ChangeMode, Motion, NoCommand, Double, OperatorKeepsMotion, Change, Delete,
         Yank, NoOperand, Edit, Tilde, StartRepeat, Repeat, EndRepeat, Parsed,
         quiet, history
<1>2. ASSUME NEW v, NEW b \in {<<>>, buffer}, NEW ok, Return(v, b, ok)
      PROVE  buffer' \in {<<>>, buffer}
  BY <1>2 DEF Return
<1>3. CASE CommandInserts
  <2>1. InsertedBuffer(vi, Top.rest) \in {<<>>, buffer}
    BY DEF InsertedBuffer, EscapedBuffer
  <2>2. QED
    BY <1>1, <1>2, <1>3, <2>1 DEF CommandInserts
<1>4. CASE CommandCancels \/ OnlyCount \/ NoCommand \/ NoOperand \/ Parsed
  BY <1>1, <1>2, <1>4 DEF CommandCancels, OnlyCount, NoCommand, NoOperand, Parsed
<1>5. CASE OperatorOnSelection \/ ChangeMode \/ Motion
  BY <1>1, <1>2, <1>5 DEF OperatorOnSelection, ChangeMode, Motion, Go
<1>6. CASE Double \/ OperatorKeepsMotion \/ Edit
  BY <1>1, <1>2, <1>6 DEF Double, OperatorKeepsMotion, Edit, Go
<1>7. CASE Change \/ Delete \/ Yank
  BY <1>1, <1>2, <1>7 DEF Change, Delete, Yank, Go
<1>8. CASE Tilde
  BY <1>1, <1>2, <1>8 DEF Tilde, Go
<1>9. CASE StartRepeat \/ Repeat \/ EndRepeat
  BY <1>1, <1>9 DEF StartRepeat, Repeat, EndRepeat, Go
<1>10. QED
  BY <1>1, <1>3, <1>4, <1>5, <1>6, <1>7, <1>8, <1>9 DEF Execute

\* An escape, or text and an escape, leaves insert mode.
LEMMA InsertedMode ==
  ASSUME NEW v \in Vi, NEW r \in Keys, r # <<>>, Ends(r)
  PROVE  /\ v.mode # "INSERT_BLOCK" => Inserted(v, r).mode = "COMMAND"
         /\ v.mode = "INSERT_BLOCK" => Inserted(v, r).mode = "VISUAL_BLOCK"
<1> DEFINE g == IF v.text # <<>> THEN v.text ELSE v.reg
           h == Shown(v, v.shown \o Front(r))
           a == IF Len(r) > 1 /\ ~v.dot THEN Astray(v, "rest") ELSE v.astray
           w == [v EXCEPT !.reg = g, !.shown = h, !.astray = a]
<1>1. Inserted(v, r) = Escaped(w)
  BY DEF Inserted
<1>2. g \in Keys /\ h \in Keys /\ a \in Causes
  <2>1. v.shown \in Keys /\ v.text \in Keys /\ v.reg \in Keys
    BY Fields
  <2>2. v.shown \o Front(r) \in Keys
    BY <2>1, PartsOfKeys, JoinedKeys
  <2>3. v.astray \in Causes
    BY DEF Vi, Causes
  <2>4. QED
    BY <2>1, <2>2, <2>3, ShownIsKeys, AstrayIsCause DEF Causes
<1> HIDE DEF g, h, a
<1>3. w \in Vi /\ w.mode = v.mode
  BY <1>2 DEF Vi, Causes
<1> HIDE DEF w
<1>4. QED
  BY <1>1, <1>3, EscapedMode

\* An escape on its own leads out, from an insertion in a block to the block.
LEMMA LeavesStep ==
  ASSUME KInv, Execute, Leaves
  PROVE  \/ IsOut' /\ InBlock' /\ (InBlock => vi'.mode = "COMMAND")
         \/ HasLeft'
<1>1. /\ alive /\ buffer = <<"esc">> /\ calls = Trial(buffer, buffer)
  BY ExecuteHistory DEF Leaves
<1>2. buffer \in Keys /\ buffer # <<>> /\ buffer[1] = "esc" /\ Len(buffer) = 1
      /\ Head(buffer) = "esc" /\ Tail(buffer) = <<>>
  BY <1>1, OpeningKeys, Zenon
<1>3. /\ Top.op = "command" /\ Top.rest = buffer /\ Below = <<>> /\ Full = buffer
      /\ \A q \in Keys : Rest(q) = Trial(buffer, q)
  BY <1>1, <1>2, TrialTop
<1>4. vi \in Vi /\ ~vi.dot
  BY <1>1, TrialDot
<1>5. CASE Insert(vi.mode)
  <2>1. CommandInserts
    BY <1>2, <1>3, <1>5, OnlyInserts
  <2>2. Ends(buffer)
    BY <1>1 DEF Ends, Last
  <2> DEFINE v == Inserted(vi, buffer)
             b == InsertedBuffer(vi, buffer)
  <2>3. Return(v, b, TRUE)
    BY <1>3, <2>1 DEF CommandInserts, Entry
  <2>4. v.mode = "COMMAND" \/ (v.mode = "VISUAL_BLOCK" /\ vi.mode = "INSERT_BLOCK")
    BY <1>2, <1>4, <2>2, InsertedMode
  <2> HIDE DEF v, b
  <2>5. calls' = <<>> /\ buffer' = <<>> /\ vi' \in {v, [v EXCEPT !.icmd = <<>>]}
    BY <1>3, <2>3 DEF Return
  <2>6. vi'.mode = v.mode
    <3>1. [v EXCEPT !.icmd = <<>>].mode = v.mode
      BY <2>4
    <3>2. QED
      BY <2>5, <3>1
  <2>7. QED
    BY <2>4, <2>5, <2>6 DEF IsOut, InBlock
<1>6. CASE ~Insert(vi.mode)
  <2>1. ~Cancels /\ Typing = buffer /\ Counted \in Vi /\ Counted.mode = vi.mode
    <3>1. Len(buffer) < 3 /\ buffer[1] # "2"
      BY <1>2
    <3>2. QED
      BY <1>1, <1>2, <3>1, TrialParses
  <2>2. K1 = "esc"
    BY <1>2, <2>1 DEF K1
  <2>3. ChangeMode
    BY <1>2, <1>3, <1>6, <2>1, <2>2, Tries
  <2>4. vi' = Escaped(Counted) /\ calls' = Trial(buffer, <<>>) /\ buffer' = buffer
    <3>1. Go(Transited(Counted, "esc"), <<>>)
      BY <1>2, <2>1, <2>2, <2>3 DEF ChangeMode
    <3>2. Transited(Counted, "esc") = Escaped(Counted)
      BY DEF Transited
    <3>3. QED
      BY <1>3, <3>1, <3>2, JoinedKeys DEF Go
  <2>5. vi'.mode = "COMMAND"
    BY <1>6, <2>1, <2>4, EscapedMode DEF Insert
  <2>6. QED
    BY <1>1, <2>4, <2>5 DEF HasLeft
<1>7. QED
  BY <1>5, <1>6

\* It has.
LEMMA HasLeftStep ==
  ASSUME KInv, Execute, HasLeft
  PROVE  IsOut' /\ vi'.mode = "COMMAND"
<1>1. /\ alive /\ buffer = <<"esc">> /\ calls = Trial(buffer, <<>>) /\ vi.mode = "COMMAND"
  BY ExecuteHistory DEF HasLeft
<1>2. buffer \in Keys /\ <<>> \in Keys
  BY <1>1, OpeningKeys, JoinedKeys, Zenon
<1>3. Top.op = "command" /\ Top.rest = <<>> /\ Below = <<>> /\ Full = buffer
  BY <1>1, <1>2, TrialTop
<1>4. vi \in Vi /\ ~vi.dot
  BY <1>1, TrialDot
<1>5. Parsed
  BY <1>3, OnlyParsed
<1> DEFINE v == Lasting(vi, Full)
           w == IF Insert(v.mode) THEN v ELSE [v EXCEPT !.rec = v.rec \o Full]
<1>6. Return(w, buffer, TRUE)
  BY <1>4, <1>5 DEF Parsed
<1>7. v.mode = "COMMAND" /\ DOMAIN v = DOMAIN vi
  BY <1>1, <1>4 DEF Lasting, Vi
<1> HIDE DEF v
<1>8. w.mode = "COMMAND" /\ [w EXCEPT !.icmd = <<>>].mode = "COMMAND"
  BY <1>4, <1>7 DEF Vi
<1>9. calls' = <<>> /\ buffer' = <<>> /\ vi' \in {w, [w EXCEPT !.icmd = <<>>]}
  BY <1>3, <1>6 DEF Return
<1> HIDE DEF w
<1>10. QED
  BY <1>8, <1>9 DEF IsOut

\* Two escapes give up what was typed, or end what has become an insertion.
LEMMA GivesUpStep ==
  ASSUME KInv, Execute, GivesUp, buffer \in Keys
  PROVE  IsOut' /\ InBlock'
<1>1. /\ alive /\ calls = Trial(buffer, buffer) /\ Len(buffer) > 2
      /\ buffer[Len(buffer)] = "esc" /\ buffer[Len(buffer) - 1] = "esc"
  BY ExecuteHistory DEF GivesUp
<1>2. buffer # <<>> /\ Ends(buffer)
  <2>1. buffer # <<>>
    BY <1>1, EmptyHasLength
  <2>2. QED
    BY <1>1, <2>1 DEF Ends, Last
<1>3. Top.op = "command" /\ Top.rest = buffer /\ Below = <<>> /\ Full = buffer
  BY <1>1, TrialTop
<1>4. vi \in Vi /\ ~vi.dot
  BY <1>1, TrialDot
<1>5. \E v, b : Return(v, b, TRUE) /\ v.mode \in {"COMMAND", "VISUAL_BLOCK"}
  <2>1. CASE Insert(vi.mode)
    <3>1. CommandInserts
      BY <1>2, <1>3, <2>1, OnlyInserts
    <3>2. Return(Inserted(vi, buffer), InsertedBuffer(vi, buffer), TRUE)
      BY <1>3, <3>1 DEF CommandInserts, Entry
    <3>3. Inserted(vi, buffer).mode \in {"COMMAND", "VISUAL_BLOCK"}
      BY <1>2, <1>4, InsertedMode
    <3>4. QED
      BY <3>2, <3>3
  <2>2. CASE ~Insert(vi.mode)
    <3>1. Cancels /\ Entry
      BY <1>1, <1>3, <1>4 DEF Cancels, Entry
    <3>2. ~Parsing
      BY <3>1 DEF Parsing
    <3>3. CommandCancels
      BY <1>2, <1>3, <2>2, <3>2 DEF Execute, CommandInserts, OnlyCount,
         OperatorOnSelection, ChangeMode, Motion, NoCommand, Double,
         OperatorKeepsMotion, Change, Delete, Yank, NoOperand, Operator, Edit,
         Tilde, StartRepeat, IsOther, Repeat, EndRepeat, Repeating, Parsed
    <3>4. Return([Escaped(vi) EXCEPT !.icmd = <<>>], <<>>, TRUE)
      BY <1>3, <3>3 DEF CommandCancels
    <3>5. [Escaped(vi) EXCEPT !.icmd = <<>>].mode = "COMMAND"
      <4>1. Escaped(vi).mode = "COMMAND"
        BY <1>4, <2>2, EscapedMode DEF Insert
      <4>2. QED
        BY <4>1 DEF Escaped
    <3>6. QED
      BY <3>4, <3>5
  <2>3. QED
    BY <2>1, <2>2
<1>6. PICK v, b : Return(v, b, TRUE) /\ v.mode \in {"COMMAND", "VISUAL_BLOCK"}
  BY <1>5
<1>7. calls' = <<>> /\ buffer' = <<>> /\ vi' \in {v, [v EXCEPT !.icmd = <<>>]}
  BY <1>3, <1>6 DEF Return
<1>8. [v EXCEPT !.icmd = <<>>].mode = v.mode
  BY <1>6
<1>9. QED
  BY <1>6, <1>7, <1>8 DEF IsOut, InBlock

\* An escape is typed.
LEMMA EscapeLed ==
  ASSUME EInv, TypeKey("esc")
  PROVE  Led'
<1>1. KInv /\ IInv /\ Ready /\ alive /\ Led /\ calls = <<>> /\ Noticed("esc")
  BY DEF EInv, KInv, TypeKey, Ready
<1>2. vi \in Vi /\ buffer \in Seq(Key) /\ escapes \in 0..3 /\ "esc" \in Key
  BY <1>1 DEF IInv, TypeOK, Keys, Key
<1>3. buffer' = Append(buffer, "esc") /\ calls' = Trial(buffer', buffer')
  BY DEF TypeKey, Command, Trial
<1>4. vi'.mode = vi.mode
  BY <1>2 DEF TypeKey, Vi
<1>5. escapes' = IF escapes = 3 THEN 3 ELSE escapes + 1
  BY <1>1 DEF Noticed
<1>6. ~Leaves /\ ~HasLeft /\ ~GivesUp
  BY <1>1 DEF Leaves, HasLeft, GivesUp, Trial
<1>7. ASSUME buffer = <<>>
      PROVE  Leaves'
  <2>1. buffer' = <<"esc">>
    BY <1>3, <1>7, OpeningKeys, Zenon
  <2>2. QED
    BY <1>3, <2>1 DEF Leaves
<1>8. /\ Len(buffer) \in Nat /\ Len(buffer') = Len(buffer) + 1
      /\ buffer'[Len(buffer')] = "esc"
      /\ \A i \in 1..Len(buffer) : buffer'[i] = buffer[i]
  BY <1>2, <1>3, AppendProperties
<1>9. CASE escapes = 0
  <2>1. buffer # <<>> => Len(buffer) > 0
    BY <1>2, EmptySeq
  <2>2. buffer # <<>> => Stuck(buffer')
    BY <1>8, <2>1 DEF Stuck
  <2>3. escapes' = 1
    BY <1>5, <1>9
  <2>4. QED
    BY <1>7, <2>2, <2>3 DEF Led
<1>10. CASE escapes = 1
  <2>1. Stuck(buffer) => GivesUp'
    BY <1>3, <1>8 DEF Stuck, GivesUp
  <2>2. buffer = <<>> \/ Stuck(buffer)
    BY <1>1, <1>6, <1>10 DEF Led
  <2>3. escapes' = 2
    BY <1>5, <1>10
  <2>4. QED
    BY <1>7, <2>1, <2>2, <2>3 DEF Led
<1>11. CASE escapes \in {2, 3}
  <2>1. buffer = <<>> /\ InBlock
    BY <1>1, <1>6, <1>11 DEF Led, IsOut, InBlock
  <2>2. Leaves' /\ InBlock'
    BY <1>4, <1>7, <2>1 DEF InBlock
  <2>3. escapes' = 3
    BY <1>5, <1>11
  <2>4. QED
    BY <2>2, <2>3 DEF Led
<1>12. QED
  BY <1>2, <1>9, <1>10, <1>11

\* What happens between two keys.
LEMMA UnseenLed ==
  ASSUME EInv, CloseList \/ ToggleReadonly
  PROVE  Led'
<1>1. KInv /\ Ready /\ Led /\ vi \in Vi
  BY DEF EInv, KInv, IInv, TypeOK, CloseList, ToggleReadonly, Ready
<1>2. UNCHANGED <<buffer, calls, escapes>>
  BY DEF CloseList, ToggleReadonly, history
<1>3. vi'.mode = vi.mode
  BY <1>1 DEF CloseList, ToggleReadonly, Vi
<1>4. QED
  BY <1>1, <1>2, <1>3 DEF Led, Leaves, HasLeft, GivesUp, IsOut, InBlock, Stuck

\* Every step leads from one stage of escapes to another.
LEMMA NextLed == EInv /\ [Next]_vars => EInv'
<1> SUFFICES ASSUME EInv, [Next]_vars PROVE EInv'
  OBVIOUS
<1>1. KInv' /\ KInv
  BY NextKept DEF EInv
<1>2. CASE Execute
  <2>1. alive /\ calls # <<>> /\ Led
    BY <1>2, ExecuteHistory DEF EInv
  <2>2. escapes' = escapes /\ buffer' \in {<<>>, buffer} /\ buffer \in Keys
    BY <1>1, <1>2, ExecuteBuffer DEF KInv, IInv, TypeOK
  <2>3. /\ Leaves => \/ IsOut' /\ InBlock' /\ (InBlock => vi'.mode = "COMMAND")
                     \/ HasLeft'
        /\ HasLeft => IsOut' /\ vi'.mode = "COMMAND" /\ InBlock'
        /\ GivesUp => IsOut' /\ InBlock'
    BY <1>1, <1>2, <2>2, LeavesStep, HasLeftStep, GivesUpStep DEF InBlock
  <2>4. escapes = 1 => Led'
    <3>1. SUFFICES ASSUME escapes = 1 PROVE Led'
      OBVIOUS
    <3>2. buffer = <<>> \/ Stuck(buffer) \/ Leaves \/ HasLeft
      BY <2>1, <3>1 DEF Led
    <3>3. Stuck(buffer) => buffer' = <<>> \/ Stuck(buffer')
      BY <2>2
    <3>4. buffer = <<>> => buffer' = <<>>
      BY <2>2
    <3>5. buffer' = <<>> \/ Stuck(buffer') \/ HasLeft'
      BY <2>3, <3>2, <3>3, <3>4 DEF IsOut
    <3>6. QED
      BY <2>2, <3>1, <3>5 DEF Led
  <2>5. escapes = 2 => Led'
    <3>1. SUFFICES ASSUME escapes = 2 PROVE Led'
      OBVIOUS
    <3>2. Leaves \/ HasLeft \/ GivesUp
      BY <2>1, <3>1 DEF Led, IsOut
    <3>3. QED
      BY <2>2, <2>3, <3>1, <3>2 DEF Led
  <2>6. escapes = 3 => Led'
    <3>1. SUFFICES ASSUME escapes = 3 PROVE Led'
      OBVIOUS
    <3>2. (Leaves /\ InBlock) \/ HasLeft
      BY <2>1, <3>1 DEF Led, IsOut
    <3>3. QED
      BY <2>2, <2>3, <3>1, <3>2 DEF Led
  <2>7. QED
    BY <1>1, <2>2, <2>4, <2>5, <2>6 DEF EInv, Led
<1>3. CASE \E k \in user.texts : TypeText(k)
  <2>1. PICK k \in user.texts : TypeText(k)
    BY <1>3
  <2>2. user \in Users
    BY <1>1 DEF KInv, IInv, TypeOK
  <2>3. k # "esc"
    BY <2>2, KeysAssumption
  <2>4. escapes' = 0
    BY <2>1, <2>3 DEF TypeText, Noticed
  <2>5. QED
    BY <1>1, <2>4 DEF EInv, Led
<1>4. CASE \E k \in user.keys : TypeKey(k)
  <2>1. PICK k \in user.keys : TypeKey(k)
    BY <1>4
  <2>2. CASE k = "esc"
    BY <1>1, <2>1, <2>2, EscapeLed DEF EInv
  <2>3. CASE k # "esc"
    <3>1. escapes' = 0
      BY <2>1, <2>3 DEF TypeKey, Noticed
    <3>2. QED
      BY <1>1, <3>1 DEF EInv, Led
  <2>4. QED
    BY <2>2, <2>3
<1>5. CASE Backspace \/ MoveCaret \/ Complete
  <2>1. escapes' = 0
    BY <1>5 DEF Backspace, MoveCaret, Complete
  <2>2. QED
    BY <1>1, <2>1 DEF EInv, Led
<1>6. CASE CloseList \/ ToggleReadonly
  BY <1>1, <1>6, UnseenLed DEF EInv
<1>7. CASE UNCHANGED vars
  BY <1>1, <1>7 DEF EInv, Led, Leaves, HasLeft, GivesUp, IsOut, InBlock, Stuck, vars
<1>8. QED
  BY <1>2, <1>3, <1>4, <1>5, <1>6, <1>7 DEF Next, Crashed

\* Wherever the parser got stuck, two escapes leave nothing in the buffer and lead
\* to command mode or to a block, and a third leads to command mode.
THEOREM EscapesLeadAlways == Spec => []EscapesLead
<1>1. Init => EInv
  BY InitKept DEF Init, EInv, Led
<1>2. EInv => EscapesLead
  <2> SUFFICES ASSUME EInv, Ready, escapes > 1
               PROVE  /\ buffer = <<>> /\ InBlock
                      /\ escapes > 2 => vi.mode = "COMMAND"
    BY DEF EscapesLead, InBlock, EInv, KInv, IInv, TypeOK
  <2>1. escapes \in {2, 3} /\ Led /\ calls = <<>>
    BY DEF EInv, KInv, IInv, TypeOK, Ready
  <2>2. ~Leaves /\ ~HasLeft /\ ~GivesUp
    BY <2>1 DEF Leaves, HasLeft, GivesUp, Trial
  <2>3. QED
    BY <2>1, <2>2 DEF Led, IsOut, InBlock
<1>3. QED
  BY <1>1, <1>2, NextLed, PTL DEF Spec

=============================================================================
