---------------------------- MODULE Debugger_proofs ----------------------------
(***************************************************************************)
(* Proofs about the breakpoints: that the table, the markers and the       *)
(* debugger are in step when all has arrived, and that a debugger that is  *)
(* started again gets the breakpoints of the table, for any files, lines   *)
(* and lines with code, and any number of commands and breakpoints.        *)
(***************************************************************************)
EXTENDS Debugger, SequenceTheorems, FiniteSetTheorems, TLAPS

\* A number is answered, and the answer is not yet handled.
Answered(i) == \E a \in Range(answers) : a.op = "set" /\ a.number = i

\* An entry is that of a breakpoint.
Same(e, p) == e.file = p.file /\ e.line = p.line

\* The answers are about different numbers.
Once(s) ==
  \A j, k \in DOMAIN s :
    s[j].op = "set" /\ s[k].op = "set" /\ s[j].number = s[k].number => j = k

\* If anything asks to delete all, then the first.
ClearFirst(s) == \A k \in DOMAIN s : s[k].op = "clear" => k = 1

\* Nothing is written to a debugger that does not run.
Dead == ~alive => sent = <<>>

\* A delete that is typed is told from then on.
Typed ==
  "typed" \notin astray => echoes = <<>> /\ \A c \in Range(sent) : c.op # "typed"

Counted == DOMAIN has \subseteq 1..last

\* Of one debugger, the answers have numbers that are not in the table.
Fresh ==
  astray \cap {"restarted", "late"} = {} =>
    /\ DOMAIN table \subseteq 1..last
    /\ \A a \in Range(answers) :
         a.op = "set" => a.number \in 1..last /\ a.number \notin DOMAIN table
    /\ Once(answers)

\* The table has the handles of the markers.
Shown ==
  astray \cap {"edited", "closed", "typed", "restarted", "late"} = {} =>
    /\ markers = {table[i] : i \in DOMAIN table}
    /\ \A i \in DOMAIN table : table[i].handle <= handles[table[i].file]
    /\ \A i, j \in DOMAIN table :
         table[i].file = table[j].file /\ table[i].handle = table[j].handle => i = j

\* What the debugger has is in the table, or answered, or to be deleted.
Agreed ==
  astray \subseteq {"edited", "closed"} =>
    /\ \A c \in Range(sent) : c.op = "delete" =>
         c.number \in 1..last /\ c.number \notin DOMAIN table /\ ~Answered(c.number)
    /\ \A i \in DOMAIN has :
         i \in DOMAIN table \/ Answered(i) \/ Delete(i) \in Range(sent)
    /\ \A i \in DOMAIN table : i \in DOMAIN has /\ Same(table[i], has[i])
    /\ \A a \in Range(answers) :
         a.op = "set" => a.number \in DOMAIN has /\ a.at = has[a.number]
    /\ ClearFirst(sent)
    /\ (\E c \in Range(sent) : c.op = "clear") =>
         DOMAIN has = {} /\ DOMAIN table = {} /\ answers = <<>>

\* The entries of an earlier debugger stay.
Kept ==
  "restarted" \in astray /\ astray \cap {"stale", "freed"} = {} => DOMAIN table # {}

\* The breakpoints are to be set again.
Due ==
  (\E c \in Range(sent) : c.op = "file") \/ (\E a \in Range(answers) : a.op = "file")

\* A breakpoint of the table is set, or asked for.
SetOrAsked(e) ==
  \/ \E j \in DOMAIN has : Same(e, has[j])
  \/ \E c \in Range(sent) :
       c.op = "set" /\ c.file = e.file /\ Code[c.line] = e.line

\* What the debugger that was started again has is in the table with its new
\* number, or answered; what the table has is set, or will be.
Reset ==
  alive /\ astray \ {"edited", "closed"} = {"restarted"} =>
    /\ \A c \in Range(sent) : c.op \notin {"delete", "clear", "typed"}
    /\ \A j \in DOMAIN has :
         Answered(j) \/ (j \in DOMAIN table /\ Same(table[j], has[j]))
    /\ \A a \in Range(answers) :
         a.op = "set" => a.number \in DOMAIN has /\ a.at = has[a.number]
    /\ Due \/ \A i \in DOMAIN table : SetOrAsked(table[i])

IInv ==
  TypeOK /\ Dead /\ Typed /\ Counted /\ Fresh /\ Shown /\ Agreed /\ Kept /\ Reset

-----------------------------------------------------------------------------
(* Lemmas about sequences, and about what a set is made of.                *)

\* What is in a sequence has an index, and an index has what is in it.
LEMMA InRange ==
  ASSUME NEW S, NEW s \in Seq(S)
  PROVE  /\ Range(s) \subseteq S
         /\ \A k \in DOMAIN s : s[k] \in Range(s)
         /\ \A x \in Range(s) : \E k \in DOMAIN s : s[k] = x
<1>1. QED
  BY RangeOfSeq DEF Range

\* To append adds one.
LEMMA Appending ==
  ASSUME NEW S, NEW s \in Seq(S), NEW x \in S
  PROVE  /\ Append(s, x) \in Seq(S)
         /\ Range(Append(s, x)) = Range(s) \cup {x}
<1>1. /\ <<x>> \in Seq(S) /\ Range(<<x>>) = {x}
  BY DEF Range
<1>2. Append(s, x) = s \o <<x>>
  BY AppendIsConcat
<1>3. Range(s \o <<x>>) = Range(s) \cup Range(<<x>>)
  BY <1>1, RangeConcatenation
<1>4. Append(s, x) \in Seq(S)
  BY AppendProperties
<1>5. QED
  BY <1>1, <1>2, <1>3, <1>4

\* The first and the others are what there was.
LEMMA Taking ==
  ASSUME NEW S, NEW s \in Seq(S), s # <<>>
  PROVE  /\ Head(s) \in S /\ Head(s) \in Range(s)
         /\ Tail(s) \in Seq(S)
         /\ Range(s) = {Head(s)} \cup Range(Tail(s))
         /\ DOMAIN Tail(s) = 1..(Len(s) - 1) /\ DOMAIN s = 1..Len(s)
         /\ Len(s) \in Nat \ {0} /\ Head(s) = s[1]
         /\ \A k \in DOMAIN Tail(s) : Tail(s)[k] = s[k + 1]
<1>1. /\ Tail(s) \in Seq(S) /\ Head(s) \in S
      /\ Len(Tail(s)) = Len(s) - 1
      /\ \A i \in 1..Len(Tail(s)) : Tail(s)[i] = s[i + 1]
  BY HeadTailProperties
<1>2. /\ DOMAIN s = 1..Len(s) /\ Len(s) \in Nat
      /\ DOMAIN Tail(s) = 1..Len(Tail(s))
  BY <1>1, LenProperties
<1>3. Len(s) # 0
  BY EmptySeq
<1>4. Head(s) = s[1]
  OBVIOUS
<1>5. ASSUME NEW k \in DOMAIN s, k # 1
      PROVE  s[k] \in Range(Tail(s))
  <2>1. k - 1 \in DOMAIN Tail(s) /\ k = (k - 1) + 1
    BY <1>1, <1>2, <1>5
  <2>2. Tail(s)[k - 1] = s[k]
    BY <1>1, <1>2, <2>1
  <2>3. QED
    BY <2>1, <2>2 DEF Range
<1>6. ASSUME NEW k \in DOMAIN Tail(s)
      PROVE  Tail(s)[k] \in Range(s)
  <2>1. k + 1 \in DOMAIN s /\ Tail(s)[k] = s[k + 1]
    BY <1>1, <1>2, <1>3
  <2>2. QED
    BY <2>1 DEF Range
<1>7. 1 \in DOMAIN s
  BY <1>2, <1>3
<1>8. Range(s) \subseteq {Head(s)} \cup Range(Tail(s))
  BY <1>4, <1>5 DEF Range
<1>9. {Head(s)} \cup Range(Tail(s)) \subseteq Range(s)
  BY <1>4, <1>6, <1>7 DEF Range
<1>10. QED
  BY <1>1, <1>2, <1>3, <1>4, <1>7, <1>8, <1>9 DEF Range

\* Nothing is in the empty sequence.
LEMMA InEmpty ==
  /\ Range(<<>>) = {}
  /\ \A S : <<>> \in Seq(S)
  /\ DOMAIN Empty = {}
<1>1. QED
  BY DEF Range, Empty

\* What remains of different answers is different, and not the first.
LEMMA OnceTail ==
  ASSUME NEW S, NEW s \in Seq(S), s # <<>>, Once(s)
  PROVE  /\ Once(Tail(s))
         /\ Head(s).op = "set" =>
              \A a \in Range(Tail(s)) : a.op = "set" => a.number # Head(s).number
<1>1. /\ DOMAIN Tail(s) = 1..(Len(s) - 1) /\ DOMAIN s = 1..Len(s)
      /\ Len(s) \in Nat \ {0} /\ Head(s) = s[1]
      /\ \A k \in DOMAIN Tail(s) : Tail(s)[k] = s[k + 1]
  BY Taking
<1>2. ASSUME NEW k \in DOMAIN Tail(s)
      PROVE  k + 1 \in DOMAIN s /\ k + 1 # 1 /\ k \in Nat /\ Tail(s)[k] = s[k + 1]
  BY <1>1
<1>3. 1 \in DOMAIN s
  BY <1>1
<1>4. Once(Tail(s))
  BY <1>2 DEF Once
<1>5. ASSUME Head(s).op = "set", NEW a \in Range(Tail(s)), a.op = "set",
             a.number = Head(s).number
      PROVE  FALSE
  <2>1. PICK k \in DOMAIN Tail(s) : a = Tail(s)[k]
    BY DEF Range
  <2>2. a = s[k + 1] /\ k + 1 \in DOMAIN s /\ k + 1 # 1
    BY <1>2, <2>1
  <2>3. QED
    BY <1>1, <1>3, <1>5, <2>2 DEF Once
<1>6. QED
  BY <1>4, <1>5

\* An answer with another number is different from all.
LEMMA OnceAppend ==
  ASSUME NEW S, NEW s \in Seq(S), NEW x \in S, Once(s),
         x.op = "set" => \A a \in Range(s) : a.op = "set" => a.number # x.number
  PROVE  Once(Append(s, x))
<1>1. /\ Append(s, x) \in Seq(S) /\ Len(Append(s, x)) = Len(s) + 1
      /\ \A i \in 1..Len(s) : Append(s, x)[i] = s[i]
      /\ Append(s, x)[Len(s) + 1] = x
  BY AppendProperties
<1>2. /\ Len(s) \in Nat /\ DOMAIN s = 1..Len(s)
      /\ DOMAIN Append(s, x) = 1..(Len(s) + 1)
  BY <1>1, LenProperties
<1> SUFFICES ASSUME NEW j \in DOMAIN Append(s, x), NEW k \in DOMAIN Append(s, x),
                    Append(s, x)[j].op = "set", Append(s, x)[k].op = "set",
                    Append(s, x)[j].number = Append(s, x)[k].number,
                    j # k
             PROVE  FALSE
  BY DEF Once
<1>3. \A i \in DOMAIN Append(s, x) :
        \/ i \in DOMAIN s /\ Append(s, x)[i] = s[i] /\ s[i] \in Range(s)
        \/ i = Len(s) + 1 /\ Append(s, x)[i] = x
  BY <1>1, <1>2 DEF Range
<1>4. CASE j \in DOMAIN s /\ k \in DOMAIN s
  BY <1>1, <1>2, <1>4 DEF Once
<1>5. CASE j \notin DOMAIN s \/ k \notin DOMAIN s
  BY <1>3, <1>5
<1>6. QED
  BY <1>4, <1>5

\* Once the first is gone, nothing asks to delete all.
LEMMA ClearFirstTail ==
  ASSUME NEW S, NEW s \in Seq(S), s # <<>>, ClearFirst(s)
  PROVE  ClearFirst(Tail(s)) /\ \A c \in Range(Tail(s)) : c.op # "clear"
<1>1. /\ DOMAIN Tail(s) = 1..(Len(s) - 1) /\ DOMAIN s = 1..Len(s)
      /\ Len(s) \in Nat \ {0}
      /\ \A k \in DOMAIN Tail(s) : Tail(s)[k] = s[k + 1]
  BY Taking
<1>2. \A k \in DOMAIN Tail(s) :
        k + 1 \in DOMAIN s /\ k + 1 # 1 /\ Tail(s)[k] = s[k + 1]
  BY <1>1
<1>3. \A k \in DOMAIN Tail(s) : Tail(s)[k].op # "clear"
  BY <1>2 DEF ClearFirst
<1>4. QED
  BY <1>3 DEF ClearFirst, Range

\* Commands that do not delete all follow.
LEMMA ClearFirstConcat ==
  ASSUME NEW S, NEW s \in Seq(S), NEW t \in Seq(S), ClearFirst(s),
         \A c \in Range(t) : c.op # "clear"
  PROVE  ClearFirst(s \o t)
<1>1. /\ s \o t \in Seq(S) /\ Len(s \o t) = Len(s) + Len(t)
      /\ \A i \in 1..Len(s) : (s \o t)[i] = s[i]
      /\ \A i \in 1..Len(t) : (s \o t)[Len(s) + i] = t[i]
  BY ConcatProperties
<1>2. /\ Len(s) \in Nat /\ DOMAIN s = 1..Len(s)
      /\ Len(t) \in Nat /\ DOMAIN t = 1..Len(t)
      /\ DOMAIN (s \o t) = 1..(Len(s) + Len(t))
  BY <1>1, LenProperties
<1> SUFFICES ASSUME NEW k \in DOMAIN (s \o t), (s \o t)[k].op = "clear"
             PROVE  k = 1
  BY DEF ClearFirst
<1>3. CASE k \in DOMAIN s
  BY <1>1, <1>2, <1>3 DEF ClearFirst
<1>4. CASE k \notin DOMAIN s
  <2>1. k - Len(s) \in 1..Len(t) /\ Len(s) + (k - Len(s)) = k
    BY <1>2, <1>4
  <2>2. (s \o t)[k] = t[k - Len(s)]
    BY <1>1, <2>1
  <2>3. t[k - Len(s)] \in Range(t)
    BY <1>2, <2>1 DEF Range
  <2>4. QED
    BY <2>2, <2>3
<1>5. QED
  BY <1>3, <1>4

\* One more command that is not the clear one.
LEMMA ClearFirstAppend ==
  ASSUME NEW S, NEW s \in Seq(S), NEW x \in S, ClearFirst(s), x.op # "clear"
  PROVE  ClearFirst(Append(s, x))
<1>1. <<x>> \in Seq(S) /\ Range(<<x>>) = {x}
  BY DEF Range
<1>2. QED
  BY <1>1, AppendIsConcat, ClearFirstConcat

\* The first of a set of numbers is in it.
LEMMA FirstFound ==
  ASSUME NEW T \in SUBSET Nat, T # {}
  PROVE  Min(T) \in T
<1>1. PICK d \in T : \A e \in T : ~(<<e, d>> \in OpToRel(<, Nat))
  BY NatLessThanWellFounded, WFMin
<1>2. \A e \in T : ~(e < d)
  BY <1>1 DEF OpToRel
<1>3. \E x \in T : \A y \in T : x <= y
  BY <1>2
<1>4. QED
  BY <1>3 DEF Min

\* A finite set is made a sequence of it, with nothing left out.
LEMMA Listed ==
  ASSUME NEW S, IsFiniteSet(S)
  PROVE  SetToSeq(S) \in Seq(S) /\ Range(SetToSeq(S)) = S
<1> DEFINE n_ == Cardinality(S)
           Inj == {f \in [1..n_ -> S] : IsInjective(f)}
<1>1. n_ \in Nat /\ ExistsBijection(1..n_, S)
  BY FS_CardinalityType
<1>2. \E f \in [1..n_ -> S] : IsInjective(f)
  <2>1. PICK f : f \in Bijection(1..n_, S)
    BY <1>1 DEF ExistsBijection
  <2>2. QED
    BY <2>1 DEF Bijection, Injection
<1>3. SetToSeq(S) \in [1..n_ -> S] /\ IsInjective(SetToSeq(S))
  BY <1>2 DEF SetToSeq
<1>4. SetToSeq(S) \in Injection(1..n_, S)
  BY <1>3 DEF Injection
<1>5. IsFiniteSet(1..n_) /\ Cardinality(1..n_) = n_
  BY <1>1, FS_Interval
<1>6. SetToSeq(S) \in Surjection(1..n_, S)
  BY <1>4, <1>5, FS_Injection
<1>7. SetToSeq(S) \in Seq(S)
  BY <1>1, <1>3, IsASeq
<1>8. Range(SetToSeq(S)) = S
  BY <1>3, <1>6 DEF Surjection, Range
<1>9. QED
  BY <1>7, <1>8

-----------------------------------------------------------------------------
(* Lemmas about commands, answers and tables.                              *)

\* A line with code is taken for itself.
LEMMA Coded ==
  /\ \A l \in Line : Code[l] \in Line
  /\ \A l \in {Code[k] : k \in Line} : l \in Line /\ Code[l] = l /\ l \in Nat
<1>1. QED
  BY DebuggerAssumption

\* What may be sent, and what it has.
LEMMA Sends ==
  /\ \A f \in File, l \in Line : Set(f, l) \in Sendable
  /\ \A i \in Numbers : Delete(i) \in Sendable /\ BreakDel(i) \in Sendable
  /\ \A op \in {"refused", "file", "clear"} : Other(op) \in Sendable
  /\ \A c \in Sendable :
       /\ c.op = "set" => c.file \in File /\ c.line \in Line
       /\ c.op = "delete" => c.number \in Numbers /\ c = Delete(c.number)
       /\ c.op = "typed" => c \in [op : {"typed"}, number : Numbers]
       /\ c.op = "file" => c \in Answer
<1>1. \A i \in Numbers : Delete(i) \in Sendable
  BY DEF Sendable, Delete
<1>2. \A op \in {"refused", "file", "clear"} : Other(op) \in Sendable
  BY DEF Sendable, Other
<1>3. \A i \in Numbers : BreakDel(i) \in Sendable
  BY <1>1, <1>2 DEF BreakDel
<1>4. \A f \in File, l \in Line : Set(f, l) \in Sendable
  BY DEF Sendable, Set
<1>5. ASSUME NEW c \in Sendable
      PROVE  /\ c.op = "set" => c.file \in File /\ c.line \in Line
             /\ c.op = "delete" => c.number \in Numbers /\ c = Delete(c.number)
             /\ c.op = "typed" => c \in [op : {"typed"}, number : Numbers]
             /\ c.op = "file" => c \in Answer
  <2>1. CASE c \in [op : {"set"}, file : File, line : Line]
    BY <2>1
  <2>2. CASE c \in [op : {"delete", "typed"}, number : Numbers]
    BY <2>2 DEF Delete
  <2>3. CASE c \in [op : {"refused", "file", "clear"}]
    BY <2>3 DEF Answer
  <2>4. QED
    BY <2>1, <2>2, <2>3 DEF Sendable
<1>6. QED
  BY <1>1, <1>2, <1>3, <1>4, <1>5

\* What an answer has.
LEMMA Answers ==
  ASSUME NEW a \in Answer
  PROVE  /\ a.op \in {"set", "file"}
         /\ a.op = "set" => a.number \in Numbers /\ a.at \in Place
<1>1. QED
  BY DEF Answer

\* The entries at a line have a first.
LEMMA FirstAt ==
  ASSUME TypeOK, NEW f, NEW l, At(f, l) # {}
  PROVE  Min(At(f, l)) \in DOMAIN table
<1>1. At(f, l) \in SUBSET Nat /\ At(f, l) \subseteq DOMAIN table
  BY DEF TypeOK, At, Numbers
<1>2. QED
  BY <1>1, FirstFound

\* The breakpoints of the table, to be set again.
LEMMA AgainLists ==
  ASSUME TypeOK
  PROVE  /\ Again \in Seq(Sendable)
         /\ Range(Again) = {Set(table[i].file, table[i].line) : i \in DOMAIN table}
<1> DEFINE T == {Set(table[i].file, table[i].line) : i \in DOMAIN table}
           f == [i \in DOMAIN table |-> Set(table[i].file, table[i].line)]
<1>1. IsFiniteSet(DOMAIN table)
  <2>1. DOMAIN table \subseteq 1..MaxNumber /\ MaxNumber \in Nat
    BY DebuggerAssumption DEF TypeOK, Numbers
  <2>2. IsFiniteSet(1..MaxNumber)
    BY <2>1, FS_Interval
  <2>3. QED
    BY <2>1, <2>2, FS_Subset
<1>2. f \in Surjection(DOMAIN table, T)
  BY DEF Surjection
<1>3. IsFiniteSet(T)
  <2> HIDE DEF f, T
  <2>1. QED
    BY <1>1, <1>2, FS_Surjection
<1>4. T \subseteq Sendable
  BY Sends, Coded DEF TypeOK, Marked
<1>5. SetToSeq(T) \in Seq(T) /\ Range(SetToSeq(T)) = T
  <2> HIDE DEF T
  <2>1. QED
    BY <1>3, Listed
<1>6. SetToSeq(T) \in Seq(Sendable)
  <2> HIDE DEF T
  <2>1. QED
    BY <1>4, <1>5, SeqMonotonic
<1>7. QED
  BY <1>5, <1>6 DEF Again

-----------------------------------------------------------------------------
(* The steps of the user.                                                  *)

\* At first there is nothing.
LEMMA InitInv == Init => IInv
<1> SUFFICES ASSUME Init
             PROVE  IInv
  OBVIOUS
<1>1. DOMAIN table = {} /\ DOMAIN has = {} /\ Range(sent) = {} /\ Range(answers) = {}
  BY InEmpty DEF Init
<1>2. TypeOK
  <2>1. table \in [DOMAIN table -> Marked] /\ has \in [DOMAIN has -> Place]
    BY <1>1 DEF Init, Empty
  <2>2. sent \in Seq(Sendable) /\ answers \in Seq(Answer)
        /\ echoes \in Seq([op : {"typed"}, number : Numbers])
    BY InEmpty DEF Init
  <2>3. open \in [File -> BOOLEAN] /\ handles \in [File -> Nat]
    BY DEF Init
  <2>4. last \in 0..MaxNumber /\ n \in 0..MaxCommands
    BY DebuggerAssumption DEF Init
  <2>5. QED
    BY <1>1, <2>1, <2>2, <2>3, <2>4, ZenonT(30) DEF Init, TypeOK
<1>3. ClearFirst(sent) /\ Once(answers)
  BY DEF Init, ClearFirst, Once
<1>4. QED
  BY <1>1, <1>2, <1>3
  DEF Init, IInv, Dead, Typed, Counted, Fresh, Shown, Agreed, Kept, Reset, Due,
      SetOrAsked, Answered

\* A command that only asks for more goes to a debugger that runs.
LEMMA AskStep ==
  ASSUME IInv, alive, NEW c \in Sendable, c.op \in {"set", "refused", "file"},
         sent' = Append(sent, c), path' \in {"source", "exe"}, n' \in 0..MaxCommands,
         UNCHANGED <<kind, table, open, markers, handles, alive, has, last, answers,
                     echoes, astray>>
  PROVE  IInv'
<1>1. TypeOK /\ Dead /\ Typed /\ Counted /\ Fresh /\ Shown /\ Agreed /\ Kept /\ Reset
  BY DEF IInv
<1>2. sent' \in Seq(Sendable) /\ Range(sent') = Range(sent) \cup {c}
  BY <1>1, Appending DEF TypeOK
<1>3. TypeOK'
  BY <1>1, <1>2 DEF TypeOK
<1>4. Dead' /\ Typed' /\ Counted' /\ Fresh' /\ Shown' /\ Kept'
  BY <1>1, <1>2 DEF Dead, Typed, Counted, Fresh, Shown, Kept, Once
<1>5. Agreed'
  <2> SUFFICES ASSUME astray \subseteq {"edited", "closed"}
               PROVE  Agreed'
    BY DEF Agreed
  <2>1. ClearFirst(sent')
    BY <1>1, ClearFirstAppend DEF Agreed, TypeOK
  <2>2. \A i : Answered(i)' <=> Answered(i)
    BY DEF Answered
  <2>3. QED
    BY <1>1, <1>2, <2>1, <2>2 DEF Agreed
<1>6. Reset'
  <2> SUFFICES ASSUME astray \ {"edited", "closed"} = {"restarted"}
               PROVE  Reset'
    BY DEF Reset
  <2>1. \A i : Answered(i)' <=> Answered(i)
    BY DEF Answered
  <2>2. Due => Due'
    BY <1>2 DEF Due
  <2>3. \A i \in DOMAIN table : SetOrAsked(table[i]) => SetOrAsked(table[i])'
    BY <1>2 DEF SetOrAsked
  <2>4. QED
    BY <1>1, <1>2, <2>1, <2>2, <2>3 DEF Reset
<1>7. QED
  BY <1>3, <1>4, <1>5, <1>6 DEF IInv

\* An entry is removed with its marker, and the debugger is asked to delete it,
\* or is not, which leaves them apart.
LEMMA RemoveStep ==
  ASSUME IInv, alive, NEW i \in DOMAIN table, NEW c \in Sendable,
         markers' = Unmarked(i), table' = Without(table, i),
         sent' = Append(sent, c),
         c = Delete(i) \/ (c.op = "refused" /\ astray' \cap {"refused", "freed"} # {}),
         astray \subseteq astray',
         astray' \subseteq astray \cup {"twice", "stale", "refused", "freed"},
         "restarted" \in astray => astray' \cap {"stale", "freed"} # {},
         path' \in {"source", "exe"}, n' \in 0..MaxCommands,
         UNCHANGED <<kind, open, handles, alive, has, last, answers, echoes>>
  PROVE  IInv'
<1>1. TypeOK /\ Dead /\ Typed /\ Counted /\ Fresh /\ Shown /\ Agreed /\ Kept /\ Reset
  BY DEF IInv
<1>2. sent' \in Seq(Sendable) /\ Range(sent') = Range(sent) \cup {c}
  BY <1>1, Appending DEF TypeOK
<1>3. /\ DOMAIN table' = DOMAIN table \ {i}
      /\ \A j \in DOMAIN table' : table'[j] = table[j]
  BY DEF Without
<1>4. \A j : Answered(j)' <=> Answered(j)
  BY DEF Answered
<1>5. c.op # "typed" /\ c.op # "clear"
  BY DEF Delete
<1>6. TypeOK'
  <2>1. table' \in [DOMAIN table' -> Marked] /\ DOMAIN table' \subseteq Numbers
    BY <1>1, <1>3 DEF TypeOK, Without
  <2>2. markers' \subseteq [file : File, line : Nat, handle : Nat]
    BY <1>1 DEF TypeOK, Unmarked
  <2>3. astray' \subseteq Cause
    BY <1>1 DEF TypeOK, Cause
  <2>4. QED
    BY <1>1, <1>2, <2>1, <2>2, <2>3 DEF TypeOK
<1>7. Dead' /\ Typed' /\ Counted'
  BY <1>1, <1>2, <1>5 DEF Dead, Typed, Counted
<1>8. Fresh'
  BY <1>1, <1>3 DEF Fresh, Once
<1>9. Shown'
  <2> SUFFICES ASSUME astray \cap {"edited", "closed", "typed", "restarted", "late"} = {}
               PROVE  Shown'
    BY DEF Shown
  <2>1. markers = {table[j] : j \in DOMAIN table}
    BY <1>1 DEF Shown
  <2>2. \A j \in DOMAIN table :
          table[j].file # table[i].file \/ table[j].handle # table[i].handle <=> j # i
    BY <1>1 DEF Shown
  <2>3. markers' = {table'[j] : j \in DOMAIN table'}
    BY <1>3, <2>1, <2>2 DEF Unmarked
  <2>4. QED
    BY <1>1, <1>3, <2>3 DEF Shown
<1>10. Agreed'
  <2> SUFFICES ASSUME astray' \subseteq {"edited", "closed"}
               PROVE  Agreed'
    BY DEF Agreed
  <2>1. astray \subseteq {"edited", "closed"} /\ c = Delete(i)
    OBVIOUS
  <2>2. i \in 1..last /\ ~Answered(i)
    BY <1>1, <2>1 DEF Fresh, Answered
  <2>3. ClearFirst(sent')
    BY <1>1, <1>5, <2>1, ClearFirstAppend DEF Agreed, TypeOK
  <2>4. \A d \in Range(sent') : d.op # "clear"
    BY <1>1, <1>2, <1>5, <2>1 DEF Agreed
  <2>5. \A d \in Range(sent') : d.op = "delete" =>
          d.number \in 1..last /\ d.number \notin DOMAIN table' /\ ~Answered(d.number)
    BY <1>1, <1>2, <1>3, <2>1, <2>2 DEF Agreed, Delete
  <2>6. \A j \in DOMAIN has :
          j \in DOMAIN table' \/ Answered(j) \/ Delete(j) \in Range(sent')
    BY <1>1, <1>2, <1>3, <2>1 DEF Agreed
  <2>7. \A j \in DOMAIN table' : j \in DOMAIN has /\ Same(table'[j], has[j])
    BY <1>1, <1>3, <2>1 DEF Agreed
  <2>8. \A a \in Range(answers) :
          a.op = "set" => a.number \in DOMAIN has /\ a.at = has[a.number]
    BY <1>1, <2>1 DEF Agreed
  <2>9. QED
    BY <1>4, <2>3, <2>4, <2>5, <2>6, <2>7, <2>8 DEF Agreed, Delete
<1>11. Kept' /\ Reset'
  <2>1. "restarted" \in astray' <=> "restarted" \in astray
    OBVIOUS
  <2>2. QED
    BY <2>1 DEF Kept, Reset
<1>12. QED
  BY <1>6, <1>7, <1>8, <1>9, <1>10, <1>11 DEF IInv

\* toggle_breakpoint.
LEMMA ToggleStep ==
  ASSUME IInv, NEW f \in File, NEW l \in Line, Toggle(f, l)
  PROVE  IInv'
<1>1. TypeOK /\ alive
  BY DEF IInv, Toggle
<1>2. n' \in 0..MaxCommands
  BY <1>1, DebuggerAssumption DEF Toggle, Command, TypeOK
<1>3. \A c \in Sendable : Write(<<c>>) => sent' = Append(sent, c)
  BY <1>1, AppendIsConcat DEF Write, TypeOK
<1>4. CASE SetAt(f, l)
  <2>1. Set(f, l) \in Sendable /\ Set(f, l).op = "set"
    BY Sends DEF Set
  <2>2. sent' = Append(sent, Set(f, l))
    BY <1>3, <1>4, <2>1 DEF SetAt
  <2>3. QED
    BY <1>1, <1>2, <1>4, <2>1, <2>2, AskStep DEF Toggle, SetAt
<1>5. CASE Unset(f, l)
  <2> DEFINE i == Min(At(f, l))
  <2>1. i \in DOMAIN table /\ i \in Numbers
    BY <1>1, <1>5, FirstAt DEF Unset, TypeOK
  <2>2. /\ markers' = Unmarked(i) /\ table' = Without(table, i)
        /\ \/ Write(<<BreakDel(i)>>)
              /\ astray' = astray \cup Apart(f, l)
                   \cup (IF kind = "gdb" THEN {"refused"} ELSE {})
           \/ Write(<<Other("refused")>>) /\ astray' = astray \cup {"freed"}
    BY <1>5 DEF Unset
  <2> HIDE DEF i
  <2>3. BreakDel(i) \in Sendable /\ Other("refused") \in Sendable
    BY <2>1, Sends
  <2>4. path' \in {"source", "exe"}
    BY <1>1, <1>5 DEF Unset, TypeOK
  <2>5. Apart(f, l) \subseteq {"twice", "stale"}
        /\ ("restarted" \in astray => "stale" \in Apart(f, l))
    BY DEF Apart
  <2>6. CASE Write(<<BreakDel(i)>>)
             /\ astray' = astray \cup Apart(f, l)
                  \cup (IF kind = "gdb" THEN {"refused"} ELSE {})
    <3>1. sent' = Append(sent, BreakDel(i))
      BY <1>3, <2>3, <2>6
    <3>2. \/ BreakDel(i) = Delete(i)
          \/ BreakDel(i).op = "refused" /\ astray' \cap {"refused", "freed"} # {}
      BY <2>6 DEF BreakDel, Other
    <3>3. /\ astray \subseteq astray'
          /\ astray' \subseteq astray \cup {"twice", "stale", "refused", "freed"}
          /\ "restarted" \in astray => astray' \cap {"stale", "freed"} # {}
      BY <2>5, <2>6
    <3>4. QED
      BY <1>1, <1>2, <2>1, <2>2, <2>3, <2>4, <3>1, <3>2, <3>3, RemoveStep DEF Toggle
  <2>7. CASE Write(<<Other("refused")>>) /\ astray' = astray \cup {"freed"}
    <3>1. sent' = Append(sent, Other("refused")) /\ Other("refused").op = "refused"
      BY <1>3, <2>3, <2>7 DEF Other
    <3>2. /\ astray \subseteq astray' /\ astray' \cap {"refused", "freed"} # {}
          /\ astray' \subseteq astray \cup {"twice", "stale", "refused", "freed"}
          /\ astray' \cap {"stale", "freed"} # {}
      BY <2>7
    <3>3. QED
      BY <1>1, <1>2, <2>1, <2>2, <2>3, <2>4, <3>1, <3>2, RemoveStep DEF Toggle
  <2>8. QED
    BY <2>2, <2>6, <2>7
<1>6. QED
  BY <1>4, <1>5 DEF Toggle

\* All breakpoints are deleted: there are none, or it is told.
LEMMA ClearStep ==
  ASSUME IInv, alive, sent' = Append(sent, Other("clear")),
         astray' = IF table = Empty /\ sent = <<>> /\ answers = <<>>
                   THEN astray ELSE astray \cup {"cleared"},
         n' \in 0..MaxCommands,
         UNCHANGED <<kind, editor, alive, debugger, echoes>>
  PROVE  IInv'
<1>1. TypeOK /\ Dead /\ Typed /\ Counted /\ Fresh /\ Shown /\ Agreed /\ Kept /\ Reset
  BY DEF IInv
<1>2. /\ UNCHANGED <<kind, table, open, markers, handles, path>>
      /\ UNCHANGED <<alive, has, last, answers, echoes>>
  BY DEF editor, debugger
<1>3. Other("clear") \in Sendable /\ Other("clear").op = "clear"
  BY Sends DEF Other
<1>4. sent' \in Seq(Sendable) /\ Range(sent') = Range(sent) \cup {Other("clear")}
  BY <1>1, <1>3, Appending DEF TypeOK
<1>5. TypeOK'
  <2>1. astray' \subseteq Cause
    BY <1>1 DEF TypeOK, Cause
  <2>2. QED
    BY <1>1, <1>2, <1>4, <2>1 DEF TypeOK
<1>6. Dead' /\ Typed' /\ Counted' /\ Fresh' /\ Shown' /\ Kept'
  BY <1>1, <1>2, <1>3, <1>4 DEF Dead, Typed, Counted, Fresh, Shown, Kept, Once
<1>7. Agreed'
  <2> SUFFICES ASSUME astray' \subseteq {"edited", "closed"}
               PROVE  Agreed'
    BY DEF Agreed
  <2>1. astray = astray' /\ table = Empty /\ sent = <<>> /\ answers = <<>>
    OBVIOUS
  <2>2. DOMAIN table = {} /\ Range(sent) = {} /\ Range(answers) = {}
    BY <2>1, InEmpty
  <2>3. Range(sent') = {Other("clear")}
    BY <1>4, <2>2
  <2>4. DOMAIN has = {}
    BY <1>1, <2>1, <2>2 DEF Agreed, Answered
  <2>5. ClearFirst(sent')
    <3>1. ClearFirst(<<>>)
      BY DEF ClearFirst
    <3>2. sent' = <<Other("clear")>>
      BY <2>1
    <3>3. QED
      BY <3>2 DEF ClearFirst
  <2>6. QED
    BY <1>2, <1>3, <2>1, <2>2, <2>3, <2>4, <2>5 DEF Agreed, Answered
<1>8. Reset'
  <2> SUFFICES ASSUME astray' \ {"edited", "closed"} = {"restarted"}
               PROVE  FALSE
    BY DEF Reset
  <2>1. astray' = astray /\ table = Empty
    OBVIOUS
  <2>2. DOMAIN table # {}
    BY <1>1, <2>1 DEF Kept
  <2>3. QED
    BY <2>1, <2>2, InEmpty
<1>9. QED
  BY <1>5, <1>6, <1>7, <1>8 DEF IInv

\* del breakpoint, from the menu.
LEMMA DeleteCommandStep ==
  ASSUME IInv, NEW f \in File, NEW l \in Line, DeleteCommand(f, l)
  PROVE  IInv'
<1>1. TypeOK /\ alive
  BY DEF IInv, DeleteCommand
<1>2. n' \in 0..MaxCommands
  BY <1>1, DebuggerAssumption DEF DeleteCommand, Command, TypeOK
<1>3. UNCHANGED <<kind, open, handles, alive, has, last, answers, echoes>>
  BY DEF DeleteCommand, debugger
<1>4. CASE kind = "lldb"
  <2>1. /\ sent' = Append(sent, Other("refused")) /\ path' = "source"
        /\ UNCHANGED <<table, markers, astray>>
    BY <1>4 DEF DeleteCommand
  <2>2. Other("refused") \in Sendable /\ Other("refused").op = "refused"
    BY Sends DEF Other
  <2>3. QED
    BY <1>1, <1>2, <1>3, <2>1, <2>2, AskStep
<1>5. CASE kind # "lldb" /\ At(f, l) = {}
  <2>1. /\ sent' = Append(sent, Other("clear"))
        /\ astray' = IF table = Empty /\ sent = <<>> /\ answers = <<>>
                     THEN astray ELSE astray \cup {"cleared"}
        /\ UNCHANGED <<table, markers, path>>
    BY <1>5 DEF DeleteCommand
  <2>2. UNCHANGED <<kind, editor, alive, debugger, echoes>>
    BY <1>3, <2>1 DEF editor, debugger
  <2>3. QED
    BY <1>1, <1>2, <2>1, <2>2, ClearStep
<1>6. CASE kind # "lldb" /\ At(f, l) # {}
  <2> DEFINE i == Min(At(f, l))
  <2>1. i \in DOMAIN table /\ i \in Numbers
    BY <1>1, <1>6, FirstAt DEF TypeOK
  <2>2. /\ sent' = Append(sent, Delete(i))
        /\ markers' = Unmarked(i) /\ table' = Without(table, i)
        /\ path' = "source"
        /\ astray' = astray \cup Apart(f, l)
    BY <1>6 DEF DeleteCommand
  <2> HIDE DEF i
  <2>3. Delete(i) \in Sendable
    BY <2>1, Sends
  <2>4. /\ astray \subseteq astray'
        /\ astray' \subseteq astray \cup {"twice", "stale", "refused", "freed"}
        /\ "restarted" \in astray => astray' \cap {"stale", "freed"} # {}
    BY <2>2 DEF Apart
  <2>5. QED
    BY <1>1, <1>2, <1>3, <2>1, <2>2, <2>3, <2>4, RemoveStep
<1>7. QED
  BY <1>4, <1>5, <1>6

\* A delete that is typed.
LEMMA TypedDeleteStep ==
  ASSUME IInv, NEW i \in Numbers, TypedDelete(i)
  PROVE  IInv'
<1>1. TypeOK /\ Dead /\ Counted /\ Fresh /\ Kept
  BY DEF IInv
<1>2. /\ UNCHANGED <<kind, table, open, markers, handles, path>>
      /\ UNCHANGED <<alive, has, last, answers, echoes>>
      /\ alive /\ astray' = astray \cup {"typed"}
  BY DEF TypedDelete, editor, debugger
<1>3. sent' \in Seq(Sendable)
  <2>1. [op |-> "typed", number |-> i] \in Sendable
    BY DEF Sendable
  <2>2. QED
    BY <1>1, <2>1, Appending DEF TypedDelete, TypeOK
<1>4. n' \in 0..MaxCommands
  BY <1>1, DebuggerAssumption DEF TypedDelete, Command, TypeOK
<1>5. astray' \subseteq Cause
  BY <1>1, <1>2 DEF TypeOK, Cause
<1>6. TypeOK'
  BY <1>1, <1>2, <1>3, <1>4, <1>5 DEF TypeOK
<1>7. Dead' /\ Typed' /\ Counted' /\ Fresh' /\ Kept'
  BY <1>1, <1>2 DEF Dead, Typed, Counted, Fresh, Kept, Once
<1>8. "typed" \in astray'
  BY <1>2
<1>9. Shown' /\ Agreed'
  BY <1>8 DEF Shown, Agreed
<1>10. Reset'
  BY <1>8 DEF Reset
<1>11. QED
  BY <1>6, <1>7, <1>9, <1>10 DEF IInv

\* A debugger that does not run is started.
LEMMA RestartStep ==
  ASSUME IInv, FileCommand, ~alive
  PROVE  IInv'
<1>1. TypeOK /\ Dead /\ Typed /\ Counted /\ Fresh /\ Shown /\ Agreed /\ Kept /\ Reset
  BY DEF IInv
<1>2. /\ UNCHANGED <<kind, table, open, markers, handles, answers, echoes>>
      /\ alive' = TRUE /\ has' = Empty /\ last' = 0 /\ path' = "exe"
      /\ sent' = sent \o <<Other("file")>>
      /\ astray' = (astray \ {"refused"})
                     \cup (IF answers # <<>> THEN {"late"} ELSE {})
                     \cup (IF table # Empty THEN {"restarted"} ELSE {})
  BY DEF FileCommand, Executed, Started
<1>3. sent' = <<Other("file")>>
  BY <1>1, <1>2 DEF Dead
<1>4. Other("file") \in Sendable /\ Other("file").op = "file"
  BY Sends DEF Other
<1>5. sent' \in Seq(Sendable) /\ Range(sent') = {Other("file")} /\ ClearFirst(sent')
  BY <1>3, <1>4 DEF Range, ClearFirst
<1>6. DOMAIN has' = {} /\ (table # Empty <=> DOMAIN table # {})
  <2>1. DOMAIN table = {} => table = Empty
    BY <1>1 DEF TypeOK, Empty
  <2>2. QED
    BY <1>2, <2>1, InEmpty
<1>7. TypeOK'
  <2>1. has' \in [DOMAIN has' -> Place] /\ DOMAIN has' \subseteq Numbers
    BY <1>2, <1>6 DEF Empty
  <2>2. n' \in 0..MaxCommands /\ last' \in 0..MaxNumber
    BY <1>1, <1>2, DebuggerAssumption DEF FileCommand, Command, TypeOK
  <2>3. astray' \subseteq Cause
    BY <1>1, <1>2 DEF TypeOK, Cause
  <2>4. QED
    BY <1>1, <1>2, <1>5, <2>1, <2>2, <2>3, ZenonT(30) DEF TypeOK
<1>8. Dead' /\ Typed' /\ Counted'
  BY <1>1, <1>2, <1>4, <1>5, <1>6 DEF Dead, Typed, Counted
<1>9. astray' \cap {"restarted", "late"} = {} => answers = <<>> /\ DOMAIN table = {}
  BY <1>2, <1>6
<1>10. Fresh'
  BY <1>2, <1>9, InEmpty DEF Fresh, Once
<1>11. Shown'
  BY <1>1, <1>2 DEF Shown
<1>12. Agreed'
  BY <1>2, <1>4, <1>5, <1>6, <1>9, InEmpty DEF Agreed, Answered
<1>13. Kept'
  BY <1>1, <1>2, <1>6 DEF Kept
<1>14. Reset'
  <2> SUFFICES ASSUME astray' \ {"edited", "closed"} = {"restarted"}
               PROVE  Reset'
    BY DEF Reset
  <2>1. answers' = <<>> /\ Range(answers') = {}
    BY <1>2, InEmpty
  <2>2. Due'
    BY <1>4, <1>5 DEF Due
  <2>3. QED
    BY <1>4, <1>5, <1>6, <2>1, <2>2 DEF Reset
<1>15. QED
  BY <1>7, <1>8, <1>10, <1>11, <1>12, <1>13, <1>14 DEF IInv

\* The file that is debugged.
LEMMA FileCommandStep ==
  ASSUME IInv, FileCommand
  PROVE  IInv'
<1>1. CASE alive
  <2>1. TypeOK
    BY DEF IInv
  <2>2. /\ UNCHANGED <<kind, table, open, markers, handles, has, last, answers, echoes>>
        /\ alive' = alive /\ path' = "exe" /\ astray' = astray
    BY <1>1 DEF FileCommand, Executed, Started, debugger
  <2>3. Other("file") \in Sendable /\ Other("file").op = "file"
    BY Sends DEF Other
  <2>4. sent' = Append(sent, Other("file"))
    BY <2>1, <2>3, AppendIsConcat DEF FileCommand, Executed, TypeOK
  <2>5. n' \in 0..MaxCommands
    BY <2>1, DebuggerAssumption DEF FileCommand, Command, TypeOK
  <2>6. QED
    BY <1>1, <2>2, <2>3, <2>4, <2>5, AskStep
<1>2. CASE ~alive
  BY <1>2, RestartStep
<1>3. QED
  BY <1>1, <1>2

-----------------------------------------------------------------------------
(* The steps of the debugger.                                              *)

\* What is common to the commands the debugger reads.
ReadFirst(c) ==
  /\ alive /\ sent # <<>> /\ c = Head(sent) /\ sent' = Tail(sent)
  /\ UNCHANGED <<kind, table, open, markers, handles, path, alive, n, astray>>

\* What is read is not asked any more, and nothing else is asked.
LEMMA Reading ==
  ASSUME IInv, NEW c, ReadFirst(c)
  PROVE  /\ c \in Sendable
         /\ sent' \in Seq(Sendable) /\ Range(sent) = {c} \cup Range(sent')
         /\ Dead' /\ Shown' /\ Kept'
         /\ astray \subseteq {"edited", "closed"} =>
              ClearFirst(sent') /\ \A d \in Range(sent') : d.op # "clear"
<1>1. TypeOK /\ Dead /\ Shown /\ Agreed /\ Kept
  BY DEF IInv
<1>2. /\ c \in Sendable
      /\ sent' \in Seq(Sendable) /\ Range(sent) = {c} \cup Range(sent')
  BY <1>1, Taking DEF ReadFirst, TypeOK
<1>3. Dead' /\ Shown' /\ Kept'
  BY <1>1 DEF ReadFirst, Dead, Shown, Kept
<1>4. ASSUME astray \subseteq {"edited", "closed"}
      PROVE  ClearFirst(sent') /\ \A d \in Range(sent') : d.op # "clear"
  BY <1>1, <1>4, ClearFirstTail DEF ReadFirst, Agreed, TypeOK
<1>5. QED
  BY <1>2, <1>3, <1>4

\* A breakpoint is set, with a new number.
LEMMA ReadSet ==
  ASSUME IInv, NEW c, NEW e, NEW a, ReadFirst(c), c.op = "set",
         e = [file |-> c.file, line |-> Code[c.line]],
         a = [op |-> "set", number |-> last + 1, at |-> e],
         last < MaxNumber, last' = last + 1, has' = With(has, last + 1, e),
         answers' = Append(answers, a), echoes' = echoes
  PROVE  IInv'
<1>1. TypeOK /\ Dead /\ Typed /\ Counted /\ Fresh /\ Shown /\ Agreed /\ Kept /\ Reset
  BY DEF IInv
<1>2. /\ c \in Sendable
      /\ sent' \in Seq(Sendable) /\ Range(sent) = {c} \cup Range(sent')
      /\ Dead' /\ Shown' /\ Kept'
      /\ astray \subseteq {"edited", "closed"} =>
           ClearFirst(sent') /\ \A d \in Range(sent') : d.op # "clear"
  BY Reading
<1>3. last \in Nat /\ last + 1 \in Numbers /\ last + 1 \in 1..MaxNumber
  BY <1>1, DebuggerAssumption DEF TypeOK, Numbers
<1>4. e \in Place /\ a \in Answer /\ a.op = "set" /\ a.number = last + 1 /\ a.at = e
  <2>1. c.file \in File /\ c.line \in Line
    BY <1>2, Sends
  <2>2. e \in Place
    BY <2>1 DEF Place
  <2>3. QED
    BY <1>3, <2>2 DEF Answer
<1>5. answers' \in Seq(Answer) /\ Range(answers') = Range(answers) \cup {a}
  BY <1>1, <1>4, Appending DEF TypeOK
<1>6. /\ DOMAIN has' = DOMAIN has \cup {last + 1} /\ has'[last + 1] = e
      /\ last + 1 \notin DOMAIN has
      /\ \A j \in DOMAIN has : has'[j] = has[j]
  BY <1>1, <1>3 DEF With, Counted
<1>7. UNCHANGED <<kind, table, open, markers, handles, path, alive, n, astray>>
  BY DEF ReadFirst
<1>8. TypeOK'
  <2>1. has' \in [DOMAIN has' -> Place] /\ DOMAIN has' \subseteq Numbers
    BY <1>1, <1>3, <1>4, <1>6 DEF With, TypeOK
  <2>2. last' \in 0..MaxNumber
    BY <1>3
  <2>3. QED
    BY <1>1, <1>2, <1>5, <1>7, <2>1, <2>2 DEF TypeOK
<1>9. Typed'
  BY <1>1, <1>2, <1>7 DEF Typed
<1>10. Counted'
  BY <1>1, <1>3, <1>6 DEF Counted
<1>11. Fresh'
  <2> SUFFICES ASSUME astray \cap {"restarted", "late"} = {}
               PROVE  Fresh'
    BY <1>7 DEF Fresh
  <2>1. /\ DOMAIN table \subseteq 1..last
        /\ \A b \in Range(answers) :
             b.op = "set" => b.number \in 1..last /\ b.number \notin DOMAIN table
        /\ Once(answers)
    BY <1>1 DEF Fresh
  <2>2. \A i \in 1..last : i \in 1..last' /\ i # last + 1
    BY <1>3
  <2>3. Once(answers')
    BY <1>1, <1>4, <2>1, <2>2, OnceAppend DEF TypeOK
  <2>4. last + 1 \in 1..last'
    BY <1>3
  <2>5. QED
    BY <1>4, <1>5, <1>7, <2>1, <2>2, <2>3, <2>4 DEF Fresh
<1>12. \A j : Answered(j)' <=> Answered(j) \/ j = last + 1
  BY <1>4, <1>5 DEF Answered
<1>13. Agreed'
  <2> SUFFICES ASSUME astray \subseteq {"edited", "closed"}
               PROVE  Agreed'
    BY <1>7 DEF Agreed
  <2>1. \A d \in Range(sent') : d.op = "delete" =>
          /\ d.number \in 1..last' /\ d.number # last + 1
          /\ d.number \notin DOMAIN table' /\ ~Answered(d.number)
    <3>1. \A i \in 1..last : i \in 1..last' /\ i # last + 1
      BY <1>3
    <3>2. QED
      BY <1>1, <1>2, <1>7, <3>1 DEF Agreed
  <2>2. \A j \in DOMAIN has' :
          j \in DOMAIN table' \/ Answered(j)' \/ Delete(j) \in Range(sent')
    <3>1. \A j : Delete(j) # c
      BY DEF Delete
    <3>2. QED
      BY <1>1, <1>2, <1>6, <1>7, <1>12, <3>1 DEF Agreed
  <2>3. \A j \in DOMAIN table' : j \in DOMAIN has' /\ Same(table'[j], has'[j])
    BY <1>1, <1>6, <1>7 DEF Agreed
  <2>4. \A b \in Range(answers') :
          b.op = "set" => b.number \in DOMAIN has' /\ b.at = has'[b.number]
    BY <1>1, <1>4, <1>5, <1>6 DEF Agreed
  <2>5. QED
    BY <1>2, <1>12, <2>1, <2>2, <2>3, <2>4 DEF Agreed, Delete
<1>14. Reset'
  <2> SUFFICES ASSUME astray \ {"edited", "closed"} = {"restarted"}
               PROVE  Reset'
    BY <1>7 DEF Reset
  <2>1. alive
    BY DEF ReadFirst
  <2>2. \A d \in Range(sent') : d.op \notin {"delete", "clear", "typed"}
    BY <1>1, <1>2, <2>1 DEF Reset
  <2>3. \A j \in DOMAIN has' :
          Answered(j)' \/ (j \in DOMAIN table' /\ Same(table'[j], has'[j]))
    BY <1>1, <1>6, <1>7, <1>12, <2>1 DEF Reset
  <2>4. \A b \in Range(answers') :
          b.op = "set" => b.number \in DOMAIN has' /\ b.at = has'[b.number]
    BY <1>1, <1>4, <1>5, <1>6, <2>1 DEF Reset
  <2>5. Due => Due'
    BY <1>2, <1>5 DEF Due
  <2>6. \A i \in DOMAIN table : SetOrAsked(table[i]) => SetOrAsked(table[i])'
    <3> SUFFICES ASSUME NEW i \in DOMAIN table, SetOrAsked(table[i])
                 PROVE  SetOrAsked(table[i])'
      OBVIOUS
    <3>1. CASE \E j \in DOMAIN has : Same(table[i], has[j])
      BY <1>6, <1>7, <3>1 DEF SetOrAsked, Same
    <3>2. CASE \E d \in Range(sent) :
                 d.op = "set" /\ d.file = table[i].file /\ Code[d.line] = table[i].line
      <4>1. PICK d \in Range(sent) :
              d.op = "set" /\ d.file = table[i].file /\ Code[d.line] = table[i].line
        BY <3>2
      <4>2. CASE d \in Range(sent')
        BY <1>7, <4>1, <4>2 DEF SetOrAsked
      <4>3. CASE d = c
        <5>1. e.file = table[i].file /\ e.line = table[i].line
          BY <4>1, <4>3
        <5>2. QED
          BY <1>6, <1>7, <5>1 DEF SetOrAsked, Same
      <4>4. QED
        BY <1>2, <4>2, <4>3
    <3>3. QED
      BY <3>1, <3>2 DEF SetOrAsked
  <2>7. Due' \/ \A i \in DOMAIN table' : SetOrAsked(table[i])'
    BY <1>1, <1>7, <2>1, <2>5, <2>6 DEF Reset
  <2>8. QED
    BY <1>7, <2>2, <2>3, <2>4, <2>7 DEF Reset
<1>15. QED
  BY <1>2, <1>8, <1>9, <1>10, <1>11, <1>13, <1>14 DEF IInv

\* A breakpoint is deleted, as the editor or the user asked.
LEMMA ReadDelete ==
  ASSUME IInv, NEW c, ReadFirst(c), c.op \in {"delete", "typed"},
         has' = Without(has, c.number), UNCHANGED <<last, answers>>,
         echoes' = IF c.op = "typed" THEN Append(echoes, c) ELSE echoes
  PROVE  IInv'
<1>1. TypeOK /\ Dead /\ Typed /\ Counted /\ Fresh /\ Shown /\ Agreed /\ Kept /\ Reset
  BY DEF IInv
<1>2. /\ c \in Sendable
      /\ sent' \in Seq(Sendable) /\ Range(sent) = {c} \cup Range(sent')
      /\ Dead' /\ Shown' /\ Kept'
      /\ astray \subseteq {"edited", "closed"} =>
           ClearFirst(sent') /\ \A d \in Range(sent') : d.op # "clear"
  BY Reading
<1>3. /\ DOMAIN has' = DOMAIN has \ {c.number}
      /\ \A j \in DOMAIN has' : has'[j] = has[j]
  BY DEF Without
<1>4. UNCHANGED <<kind, table, open, markers, handles, path, alive, n, astray>>
  BY DEF ReadFirst
<1>5. TypeOK'
  <2>1. has' \in [DOMAIN has' -> Place] /\ DOMAIN has' \subseteq Numbers
    BY <1>1, <1>3 DEF Without, TypeOK
  <2>2. echoes' \in Seq([op : {"typed"}, number : Numbers])
    BY <1>1, <1>2, Sends, Appending DEF TypeOK
  <2>3. QED
    BY <1>1, <1>2, <1>4, <2>1, <2>2 DEF TypeOK
<1>6. Typed'
  BY <1>1, <1>2, <1>4 DEF Typed
<1>7. Counted' /\ Fresh'
  BY <1>1, <1>3, <1>4 DEF Counted, Fresh, Once
<1>8. Agreed'
  <2> SUFFICES ASSUME astray \subseteq {"edited", "closed"}
               PROVE  Agreed'
    BY <1>4 DEF Agreed
  <2>1. \A j : Answered(j)' <=> Answered(j)
    BY DEF Answered
  <2>2. c.op = "delete"
    BY <1>1, <1>2 DEF Typed
  <2>3. c.number \notin DOMAIN table /\ ~Answered(c.number)
    BY <1>1, <1>2, <2>2 DEF Agreed
  <2>4. \A d \in Range(sent') : d.op = "delete" =>
          d.number \in 1..last /\ d.number \notin DOMAIN table /\ ~Answered(d.number)
    BY <1>1, <1>2 DEF Agreed
  <2>5. \A j \in DOMAIN has' :
          j \in DOMAIN table \/ Answered(j) \/ Delete(j) \in Range(sent')
    <3>1. \A j : Delete(j) = c => j = c.number
      BY DEF Delete
    <3>2. QED
      BY <1>1, <1>2, <1>3, <3>1 DEF Agreed
  <2>6. \A j \in DOMAIN table : j \in DOMAIN has' /\ Same(table[j], has'[j])
    BY <1>1, <1>3, <2>3 DEF Agreed
  <2>7. \A a \in Range(answers) :
          a.op = "set" => a.number \in DOMAIN has' /\ a.at = has'[a.number]
    BY <1>1, <1>3, <2>3 DEF Agreed, Answered
  <2>8. QED
    BY <1>2, <1>4, <2>1, <2>4, <2>5, <2>6, <2>7 DEF Agreed, Delete
<1>9. Reset'
  <2>1. c \in Range(sent) /\ alive
    BY <1>2 DEF ReadFirst
  <2>2. ~(astray \ {"edited", "closed"} = {"restarted"})
    BY <1>1, <2>1 DEF Reset
  <2>3. QED
    BY <1>4, <2>2 DEF Reset
<1>10. QED
  BY <1>2, <1>5, <1>6, <1>7, <1>8, <1>9 DEF IInv

\* All breakpoints are deleted.
LEMMA ReadClear ==
  ASSUME IInv, NEW c, ReadFirst(c), c.op = "clear",
         has' = Empty, UNCHANGED <<last, answers, echoes>>
  PROVE  IInv'
<1>1. TypeOK /\ Dead /\ Typed /\ Counted /\ Fresh /\ Shown /\ Agreed /\ Kept /\ Reset
  BY DEF IInv
<1>2. /\ c \in Sendable
      /\ sent' \in Seq(Sendable) /\ Range(sent) = {c} \cup Range(sent')
      /\ Dead' /\ Shown' /\ Kept'
      /\ astray \subseteq {"edited", "closed"} =>
           ClearFirst(sent') /\ \A d \in Range(sent') : d.op # "clear"
  BY Reading
<1>3. DOMAIN has' = {}
  BY InEmpty
<1>4. UNCHANGED <<kind, table, open, markers, handles, path, alive, n, astray>>
  BY DEF ReadFirst
<1>5. TypeOK'
  <2>1. has' \in [DOMAIN has' -> Place] /\ DOMAIN has' \subseteq Numbers
    BY <1>3 DEF Empty
  <2>2. QED
    BY <1>1, <1>2, <1>4, <2>1 DEF TypeOK
<1>6. Typed' /\ Counted' /\ Fresh'
  BY <1>1, <1>2, <1>3, <1>4 DEF Typed, Counted, Fresh, Once
<1>7. Agreed'
  <2> SUFFICES ASSUME astray \subseteq {"edited", "closed"}
               PROVE  Agreed'
    BY <1>4 DEF Agreed
  <2>1. DOMAIN table = {} /\ answers = <<>>
    BY <1>1, <1>2 DEF Agreed
  <2>2. Range(answers) = {}
    BY <2>1, InEmpty
  <2>3. \A d \in Range(sent') : d.op = "delete" => d.number \in 1..last
    BY <1>1, <1>2 DEF Agreed
  <2>4. QED
    BY <1>2, <1>3, <1>4, <2>1, <2>2, <2>3 DEF Agreed, Answered
<1>8. Reset'
  <2>1. c \in Range(sent) /\ alive
    BY <1>2 DEF ReadFirst
  <2>2. ~(astray \ {"edited", "closed"} = {"restarted"})
    BY <1>1, <2>1 DEF Reset
  <2>3. QED
    BY <1>4, <2>2 DEF Reset
<1>9. QED
  BY <1>2, <1>5, <1>6, <1>7, <1>8 DEF IInv

\* What else is read: the file, which is answered, or what is refused.
LEMMA ReadOther ==
  ASSUME IInv, NEW c, ReadFirst(c), c.op \in {"file", "refused"},
         UNCHANGED <<has, last, echoes>>,
         answers' = IF c.op = "file" THEN Append(answers, c) ELSE answers
  PROVE  IInv'
<1>1. TypeOK /\ Dead /\ Typed /\ Counted /\ Fresh /\ Shown /\ Agreed /\ Kept /\ Reset
  BY DEF IInv
<1>2. /\ c \in Sendable
      /\ sent' \in Seq(Sendable) /\ Range(sent) = {c} \cup Range(sent')
      /\ Dead' /\ Shown' /\ Kept'
      /\ astray \subseteq {"edited", "closed"} =>
           ClearFirst(sent') /\ \A d \in Range(sent') : d.op # "clear"
  BY Reading
<1>3. UNCHANGED <<kind, table, open, markers, handles, path, alive, n, astray>>
  BY DEF ReadFirst
<1>4. /\ answers' \in Seq(Answer)
      /\ Range(answers') = Range(answers) \cup (IF c.op = "file" THEN {c} ELSE {})
  BY <1>1, <1>2, Sends, Appending DEF TypeOK
<1>5. TypeOK' /\ Typed' /\ Counted'
  BY <1>1, <1>2, <1>3, <1>4 DEF TypeOK, Typed, Counted
<1>6. Fresh'
  <2>1. Once(answers) => Once(answers')
    BY <1>1, <1>2, Sends, OnceAppend DEF TypeOK
  <2>2. QED
    BY <1>1, <1>3, <1>4, <2>1 DEF Fresh
<1>7. \A j : Answered(j)' <=> Answered(j)
  BY <1>4 DEF Answered
<1>8. Agreed'
  <2> SUFFICES ASSUME astray \subseteq {"edited", "closed"}
               PROVE  Agreed'
    BY <1>3 DEF Agreed
  <2>1. \A j : Delete(j) # c
    BY DEF Delete
  <2>2. \A a \in Range(answers') :
          a.op = "set" => a.number \in DOMAIN has /\ a.at = has[a.number]
    BY <1>1, <1>4 DEF Agreed
  <2>3. QED
    BY <1>1, <1>2, <1>3, <1>7, <2>1, <2>2 DEF Agreed, Delete
<1>9. Reset'
  <2> SUFFICES ASSUME alive, astray \ {"edited", "closed"} = {"restarted"}
               PROVE  Reset'
    BY <1>3 DEF Reset
  <2>1. \A a \in Range(answers') :
          a.op = "set" => a.number \in DOMAIN has /\ a.at = has[a.number]
    BY <1>1, <1>4 DEF Reset
  <2>2. Due => Due'
    BY <1>2, <1>4 DEF Due
  <2>3. \A i \in DOMAIN table : SetOrAsked(table[i]) => SetOrAsked(table[i])'
    BY <1>2, <1>3 DEF SetOrAsked
  <2>4. QED
    BY <1>1, <1>2, <1>3, <1>7, <2>1, <2>2, <2>3 DEF Reset
<1>10. QED
  BY <1>2, <1>5, <1>6, <1>8, <1>9 DEF IInv

\* The debugger reads a command.
LEMMA ReadStep ==
  ASSUME IInv, Read
  PROVE  IInv'
<1> DEFINE c == Head(sent)
<1>1. ReadFirst(c)
  BY DEF Read, ReadFirst, editor
<1>2. c \in Sendable
  BY <1>1, Reading
<1>3. /\ c.op = "set" => last < MaxNumber
      /\ echoes' = IF c.op = "typed" THEN Append(echoes, c) ELSE echoes
  BY DEF Read
<1>4. c.op \in {"set", "delete", "typed", "refused", "file", "clear"}
  BY <1>2 DEF Sendable
<1>5. CASE c.op = "set"
  <2> DEFINE e == [file |-> c.file, line |-> Code[c.line]]
  <2>1. /\ last' = last + 1 /\ has' = With(has, last', e)
        /\ answers' = Append(answers, [op |-> "set", number |-> last', at |-> e])
    BY <1>3, <1>5 DEF Read
  <2>2. /\ has' = With(has, last + 1, e) /\ echoes' = echoes
        /\ answers' = Append(answers, [op |-> "set", number |-> last + 1, at |-> e])
    BY <1>3, <1>5, <2>1
  <2> HIDE DEF c
  <2>3. QED
    BY <1>1, <1>3, <1>5, <2>1, <2>2, ReadSet
<1>6. CASE c.op \in {"delete", "typed"}
  <2>1. has' = Without(has, c.number) /\ UNCHANGED <<last, answers>>
    BY <1>6 DEF Read
  <2> HIDE DEF c
  <2>2. QED
    BY <1>1, <1>3, <1>6, <2>1, ReadDelete
<1>7. CASE c.op = "clear"
  <2>1. has' = Empty /\ UNCHANGED <<last, answers>>
    BY <1>7 DEF Read
  <2> HIDE DEF c
  <2>2. QED
    BY <1>1, <1>3, <1>7, <2>1, ReadClear
<1>8. CASE c.op = "file"
  <2>1. answers' = Append(answers, c) /\ UNCHANGED <<has, last>>
    BY <1>8 DEF Read
  <2> HIDE DEF c
  <2>2. QED
    BY <1>1, <1>3, <1>8, <2>1, ReadOther
<1>9. CASE c.op = "refused"
  <2>1. UNCHANGED <<has, last, answers>>
    BY <1>9 DEF Read, debugger
  <2> HIDE DEF c
  <2>2. QED
    BY <1>1, <1>3, <1>9, <2>1, ReadOther
<1>10. QED
  BY <1>4, <1>5, <1>6, <1>7, <1>8, <1>9

\* The debugger ends.
LEMMA ExitStep ==
  ASSUME IInv, Exit
  PROVE  IInv'
<1>1. TypeOK /\ Dead /\ Typed /\ Counted /\ Fresh /\ Shown /\ Agreed /\ Kept
  BY DEF IInv
<1>2. /\ UNCHANGED <<kind, table, open, markers, handles, path, has, last, answers, echoes>>
      /\ alive' = FALSE /\ sent' = <<>>
      /\ astray' = IF \E k \in DOMAIN sent : sent[k].op # "set"
                   THEN astray \cup {"refused"} ELSE astray
  BY DEF Exit, editor, debugger
<1>3. sent' \in Seq(Sendable) /\ Range(sent') = {}
  BY <1>2, InEmpty
<1>4. TypeOK'
  <2>1. n' \in 0..MaxCommands
    BY <1>1, DebuggerAssumption DEF Exit, Command, TypeOK
  <2>2. astray' \subseteq Cause
    BY <1>1, <1>2 DEF TypeOK, Cause
  <2>3. QED
    BY <1>1, <1>2, <1>3, <2>1, <2>2 DEF TypeOK
<1>5. Dead' /\ Typed' /\ Counted' /\ Fresh' /\ Kept' /\ Reset'
  BY <1>1, <1>2, <1>3 DEF Dead, Typed, Counted, Fresh, Kept, Reset, Once
<1>6. Shown'
  BY <1>1, <1>2 DEF Shown
<1>7. Agreed'
  <2> SUFFICES ASSUME astray' \subseteq {"edited", "closed"}
               PROVE  Agreed'
    BY DEF Agreed
  <2>1. astray' = astray /\ \A k \in DOMAIN sent : sent[k].op = "set"
    BY <1>2
  <2>2. \A c \in Range(sent) : c.op = "set"
    BY <2>1 DEF Range
  <2>3. \A j : Delete(j) \notin Range(sent)
    BY <2>2 DEF Delete
  <2>4. ClearFirst(sent')
    BY <1>2 DEF ClearFirst
  <2>5. \A j : Answered(j)' <=> Answered(j)
    BY <1>2 DEF Answered
  <2>6. QED
    BY <1>1, <1>2, <1>3, <2>1, <2>3, <2>4, <2>5 DEF Agreed
<1>8. QED
  BY <1>4, <1>5, <1>6, <1>7 DEF IInv

-----------------------------------------------------------------------------
(* The steps of the answers, and of the editor.                            *)

\* The first answer is handled, and the others stay.
LEMMA Handling ==
  ASSUME TypeOK, answers # <<>>, NEW a, a = Head(answers), answers' = Tail(answers)
  PROVE  /\ a \in Answer
         /\ answers' \in Seq(Answer) /\ Range(answers) = {a} \cup Range(answers')
         /\ Once(answers) =>
              /\ Once(answers')
              /\ a.op = "set" =>
                   \A b \in Range(answers') : b.op = "set" => b.number # a.number
<1>1. answers \in Seq(Answer)
  BY DEF TypeOK
<1>2. QED
  BY <1>1, Taking, OnceTail

\* process_stdout, of a breakpoint.
LEMMA HandleSetStep ==
  ASSUME IInv, HandleSet
  PROVE  IInv'
<1> DEFINE a == Head(answers)
           e == Entry(a)
<1>1. TypeOK /\ Dead /\ Typed /\ Counted /\ Fresh /\ Shown /\ Agreed /\ Kept /\ Reset
  BY DEF IInv
<1>2. /\ UNCHANGED <<kind, path, alive, has, last, sent, echoes, n, astray>>
      /\ answers # <<>> /\ answers' = Tail(answers) /\ a.op = "set"
      /\ table' = With(table, a.number, e) /\ markers' = markers \cup {e}
      /\ handles' = [handles EXCEPT ![e.file] = @ + 1]
      /\ open' = [open EXCEPT ![e.file] = TRUE]
  BY DEF HandleSet
<1>3. /\ e.file = a.at.file /\ e.line = a.at.line
      /\ e.handle = handles[e.file] + 1
      /\ e = [file |-> a.at.file, line |-> a.at.line, handle |-> handles[a.at.file] + 1]
  BY DEF Entry
<1> HIDE DEF a, e
<1>4. /\ a \in Answer
      /\ answers' \in Seq(Answer) /\ Range(answers) = {a} \cup Range(answers')
      /\ Once(answers) =>
           /\ Once(answers')
           /\ \A b \in Range(answers') : b.op = "set" => b.number # a.number
  BY <1>1, <1>2, Handling DEF a
<1>5. a.number \in Numbers /\ a.at \in Place
  BY <1>2, <1>4, Answers
<1>6. e \in Marked /\ e.file \in File /\ handles[e.file] \in Nat
  BY <1>1, <1>3, <1>5 DEF Place, Marked, TypeOK
<1>7. /\ DOMAIN table' = DOMAIN table \cup {a.number} /\ table'[a.number] = e
      /\ \A j \in DOMAIN table : j # a.number => table'[j] = table[j]
  BY <1>2 DEF With
<1>8. \A j : Answered(j) <=> Answered(j)' \/ j = a.number
  BY <1>2, <1>4 DEF Answered
<1>9. TypeOK'
  <2>1. table' \in [DOMAIN table' -> Marked] /\ DOMAIN table' \subseteq Numbers
    BY <1>1, <1>2, <1>5, <1>6, <1>7 DEF With, TypeOK
  <2>2. open' \in [File -> BOOLEAN] /\ handles' \in [File -> Nat]
    BY <1>1, <1>2, <1>6 DEF TypeOK
  <2>3. markers' \subseteq [file : File, line : Nat, handle : Nat]
    <3>1. Marked \subseteq [file : File, line : Nat, handle : Nat]
      BY Coded DEF Marked
    <3>2. QED
      BY <1>1, <1>2, <1>6, <3>1 DEF TypeOK
  <2>4. QED
    BY <1>1, <1>2, <1>4, <2>1, <2>2, <2>3 DEF TypeOK
<1>10. Dead' /\ Typed' /\ Counted'
  BY <1>1, <1>2 DEF Dead, Typed, Counted
<1>11. Fresh'
  BY <1>1, <1>2, <1>4, <1>7 DEF Fresh
<1>12. Shown'
  <2> SUFFICES ASSUME astray \cap {"edited", "closed", "typed", "restarted", "late"} = {}
               PROVE  Shown'
    BY <1>2 DEF Shown
  <2>1. a.number \notin DOMAIN table
    BY <1>1, <1>2, <1>4 DEF Fresh
  <2>2. /\ markers = {table[i] : i \in DOMAIN table}
        /\ \A i \in DOMAIN table : table[i].handle <= handles[table[i].file]
        /\ \A i, j \in DOMAIN table :
             table[i].file = table[j].file /\ table[i].handle = table[j].handle => i = j
    BY <1>1 DEF Shown
  <2>3. \A i \in DOMAIN table : table'[i] = table[i]
    BY <1>7, <2>1
  <2>4. markers' = {table'[i] : i \in DOMAIN table'}
    BY <1>2, <1>7, <2>1, <2>2, <2>3
  <2>5. \A i \in DOMAIN table :
          table[i].file \in File /\ table[i].handle \in Nat
    BY <1>1 DEF TypeOK, Marked
  <2>6. /\ handles'[e.file] = handles[e.file] + 1
        /\ \A f \in File : f # e.file => handles'[f] = handles[f]
        /\ \A f \in File : handles[f] \in Nat
    BY <1>1, <1>2, <1>6 DEF TypeOK
  <2>7. \A i \in DOMAIN table' : table'[i].handle <= handles'[table'[i].file]
    <3>1. \A i \in DOMAIN table : table[i].handle <= handles'[table[i].file]
      BY <1>6, <2>2, <2>5, <2>6
    <3>2. e.handle <= handles'[e.file]
      BY <1>3, <1>6, <2>6
    <3>3. QED
      BY <1>7, <2>3, <3>1, <3>2
  <2>8. \A i \in DOMAIN table : ~(table[i].file = e.file /\ table[i].handle = e.handle)
    BY <1>3, <1>6, <2>2, <2>5
  <2>9. \A i, j \in DOMAIN table' :
          table'[i].file = table'[j].file /\ table'[i].handle = table'[j].handle => i = j
    BY <1>7, <2>2, <2>3, <2>8
  <2>10. QED
    BY <2>4, <2>7, <2>9 DEF Shown
<1>13. Agreed'
  <2> SUFFICES ASSUME astray \subseteq {"edited", "closed"}
               PROVE  Agreed'
    BY <1>2 DEF Agreed
  <2>1. a.number \in DOMAIN has /\ a.at = has[a.number] /\ Answered(a.number)
    BY <1>1, <1>2, <1>4 DEF Agreed, Answered
  <2>2. \A c \in Range(sent) : c.op # "clear"
    BY <1>1, <1>2 DEF Agreed
  <2>3. \A c \in Range(sent) : c.op = "delete" =>
          c.number \in 1..last /\ c.number \notin DOMAIN table' /\ ~Answered(c.number)'
    BY <1>1, <1>7, <1>8, <2>1 DEF Agreed
  <2>4. \A j \in DOMAIN has :
          j \in DOMAIN table' \/ Answered(j)' \/ Delete(j) \in Range(sent)
    BY <1>1, <1>7, <1>8 DEF Agreed
  <2>5. \A j \in DOMAIN table' : j \in DOMAIN has /\ Same(table'[j], has[j])
    <3>1. Same(e, has[a.number])
      BY <1>3, <2>1 DEF Same
    <3>2. QED
      BY <1>1, <1>7, <2>1, <3>1 DEF Agreed
  <2>6. \A b \in Range(answers') :
          b.op = "set" => b.number \in DOMAIN has /\ b.at = has[b.number]
    BY <1>1, <1>4 DEF Agreed
  <2>7. ClearFirst(sent)
    BY <1>1 DEF Agreed
  <2>8. QED
    BY <1>2, <2>2, <2>3, <2>4, <2>5, <2>6, <2>7 DEF Agreed
<1>14. Kept'
  BY <1>7 DEF Kept
<1>15. Reset'
  <2> SUFFICES ASSUME alive, astray \ {"edited", "closed"} = {"restarted"}
               PROVE  Reset'
    BY <1>2 DEF Reset
  <2>1. a.number \in DOMAIN has /\ a.at = has[a.number]
    BY <1>1, <1>2, <1>4 DEF Reset
  <2>2. Same(e, has[a.number])
    BY <1>3, <2>1 DEF Same
  <2>3. \A j \in DOMAIN has :
          Answered(j)' \/ (j \in DOMAIN table' /\ Same(table'[j], has[j]))
    BY <1>1, <1>7, <1>8, <2>2 DEF Reset
  <2>4. Due => Due'
    BY <1>2, <1>4 DEF Due
  <2>5. \A x : SetOrAsked(x)' <=> SetOrAsked(x)
    BY <1>2 DEF SetOrAsked
  <2>6. SetOrAsked(e)
    BY <2>1, <2>2 DEF SetOrAsked
  <2>7. (\A i \in DOMAIN table : SetOrAsked(table[i])) =>
          \A i \in DOMAIN table' : SetOrAsked(table'[i])
    BY <1>7, <2>6
  <2>8. (\A i \in DOMAIN table' : SetOrAsked(table'[i])) =>
          (\A i \in DOMAIN table : SetOrAsked(table[i]))'
    BY <2>5
  <2>9. Due' \/ (\A i \in DOMAIN table : SetOrAsked(table[i]))'
    BY <1>1, <2>4, <2>7, <2>8 DEF Reset
  <2>10. \A b \in Range(answers') :
           b.op = "set" => b.number \in DOMAIN has /\ b.at = has[b.number]
    BY <1>1, <1>4 DEF Reset
  <2>11. \A c \in Range(sent) : c.op \notin {"delete", "clear", "typed"}
    BY <1>1 DEF Reset
  <2>12. QED
    BY <1>2, <2>3, <2>9, <2>10, <2>11 DEF Reset
<1>16. QED
  BY <1>9, <1>10, <1>11, <1>12, <1>13, <1>14, <1>15 DEF IInv

\* process_stdout, of the executable.
LEMMA HandlePathStep ==
  ASSUME IInv, HandlePath
  PROVE  IInv'
<1> DEFINE a == Head(answers)
<1>1. TypeOK /\ Dead /\ Typed /\ Counted /\ Fresh /\ Shown /\ Agreed /\ Kept /\ Reset
  BY DEF IInv
<1>2. /\ UNCHANGED <<kind, table, open, markers, handles, alive, has, last, echoes, n>>
      /\ answers # <<>> /\ answers' = Tail(answers) /\ a.op = "file" /\ path' = "exe"
      /\ IF path = "exe" THEN Write(Again) ELSE UNCHANGED sent
      /\ astray' = IF path = "exe" /\ alive THEN astray
                   ELSE IF "restarted" \in astray THEN astray \cup {"forgotten"}
                   ELSE astray
  BY DEF HandlePath
<1> HIDE DEF a
<1>3. /\ a \in Answer
      /\ answers' \in Seq(Answer) /\ Range(answers) = {a} \cup Range(answers')
      /\ Once(answers) => Once(answers')
  BY <1>1, <1>2, Handling DEF a
<1> DEFINE T == {Set(table[i].file, table[i].line) : i \in DOMAIN table}
<1>4. Again \in Seq(Sendable) /\ Range(Again) = T
  BY <1>1, AgainLists
<1>5. \/ UNCHANGED sent /\ ~(path = "exe" /\ alive)
      \/ sent' = sent \o Again /\ path = "exe" /\ alive
  BY <1>2 DEF Write
<1>6. /\ sent' \in Seq(Sendable)
      /\ Range(sent') = Range(sent) \/ Range(sent') = Range(sent) \cup T
      /\ path = "exe" /\ alive => Range(sent') = Range(sent) \cup T
  <2>1. CASE UNCHANGED sent /\ ~(path = "exe" /\ alive)
    BY <1>1, <2>1 DEF TypeOK
  <2>2. CASE sent' = sent \o Again /\ path = "exe" /\ alive
    <3>1. sent \in Seq(Sendable)
      BY <1>1 DEF TypeOK
    <3>2. sent \o Again \in Seq(Sendable)
      BY <1>4, <3>1, ConcatProperties
    <3>3. Range(sent \o Again) = Range(sent) \cup T
      BY <1>4, <3>1, RangeConcatenation
    <3>4. QED
      BY <2>2, <3>2, <3>3
  <2>3. QED
    BY <1>5, <2>1, <2>2
<1>7. \A c \in T : c.op = "set"
  BY DEF Set
<1>8. \A c \in Range(sent') : c \in Range(sent) \/ c.op = "set"
  BY <1>6, <1>7
<1>9. Range(sent) \subseteq Range(sent')
  BY <1>6
<1>10. \A j : Answered(j)' <=> Answered(j)
  BY <1>2, <1>3 DEF Answered
<1> HIDE DEF T
<1>11. TypeOK'
  <2>1. astray' \subseteq Cause
    BY <1>1, <1>2 DEF TypeOK, Cause
  <2>2. QED
    BY <1>1, <1>2, <1>3, <1>6, <2>1 DEF TypeOK
<1>12. Dead' /\ Typed' /\ Counted'
  BY <1>1, <1>2, <1>5, <1>8 DEF Dead, Typed, Counted
<1>13. Fresh' /\ Shown' /\ Kept'
  BY <1>1, <1>2, <1>3 DEF Fresh, Shown, Kept
<1>14. Agreed'
  <2> SUFFICES ASSUME astray' \subseteq {"edited", "closed"}
               PROVE  Agreed'
    BY DEF Agreed
  <2>1. astray \subseteq {"edited", "closed"}
    BY <1>2
  <2>2. \A c \in Range(sent') : c.op # "clear"
    BY <1>1, <1>2, <1>8, <2>1 DEF Agreed
  <2>3. ClearFirst(sent')
    <3>1. ClearFirst(sent) /\ sent \in Seq(Sendable)
      BY <1>1, <2>1 DEF Agreed, TypeOK
    <3>2. ClearFirst(sent \o Again)
      BY <1>4, <1>7, <3>1, ClearFirstConcat
    <3>3. QED
      BY <1>5, <3>1, <3>2
  <2>4. \A c \in Range(sent') : c.op = "delete" =>
          c.number \in 1..last /\ c.number \notin DOMAIN table /\ ~Answered(c.number)
    BY <1>1, <1>8, <2>1 DEF Agreed
  <2>5. \A j \in DOMAIN has :
          j \in DOMAIN table \/ Answered(j) \/ Delete(j) \in Range(sent')
    BY <1>1, <1>9, <2>1 DEF Agreed
  <2>6. \A b \in Range(answers') :
          b.op = "set" => b.number \in DOMAIN has /\ b.at = has[b.number]
    BY <1>1, <1>3, <2>1 DEF Agreed
  <2>7. \A j \in DOMAIN table : j \in DOMAIN has /\ Same(table[j], has[j])
    BY <1>1, <2>1 DEF Agreed
  <2>8. QED
    BY <1>2, <1>10, <2>2, <2>3, <2>4, <2>5, <2>6, <2>7 DEF Agreed, Delete
<1>15. Reset'
  <2> SUFFICES ASSUME alive, astray' \ {"edited", "closed"} = {"restarted"}
               PROVE  Reset'
    BY <1>2 DEF Reset
  <2>1. "restarted" \in astray' /\ "forgotten" \notin astray'
    OBVIOUS
  <2>2. path = "exe" /\ astray' = astray
    BY <1>2, <2>1
  <2>3. \A i \in DOMAIN table : SetOrAsked(table[i])'
    <3> SUFFICES ASSUME NEW i \in DOMAIN table
                 PROVE  SetOrAsked(table[i])'
      OBVIOUS
    <3>1. Set(table[i].file, table[i].line) \in Range(sent')
      BY <1>6, <2>2 DEF T
    <3>2. Code[table[i].line] = table[i].line
      BY <1>1, Coded DEF TypeOK, Marked
    <3>3. QED
      BY <1>2, <3>1, <3>2 DEF SetOrAsked, Set
  <2>4. \A b \in Range(answers') :
          b.op = "set" => b.number \in DOMAIN has /\ b.at = has[b.number]
    BY <1>1, <1>3, <2>2 DEF Reset
  <2>5. \A j \in DOMAIN has :
          Answered(j) \/ (j \in DOMAIN table /\ Same(table[j], has[j]))
    BY <1>1, <2>2 DEF Reset
  <2>6. \A c \in Range(sent') : c.op \notin {"delete", "clear", "typed"}
    BY <1>1, <1>8, <2>2 DEF Reset
  <2>7. QED
    BY <1>2, <1>10, <2>3, <2>4, <2>5, <2>6 DEF Reset, SetOrAsked
<1>16. QED
  BY <1>11, <1>12, <1>13, <1>14, <1>15 DEF IInv

\* process_stdin, of a delete that was typed.
LEMMA HandleEchoStep ==
  ASSUME IInv, HandleEcho
  PROVE  IInv'
<1>1. TypeOK /\ Dead /\ Typed /\ Counted /\ Fresh /\ Shown /\ Agreed /\ Kept /\ Reset
  BY DEF IInv
<1>2. /\ UNCHANGED <<kind, table, open, handles, path, alive, has, last, answers>>
      /\ UNCHANGED <<sent, n, astray>>
      /\ echoes # <<>> /\ echoes' = Tail(echoes)
  BY DEF HandleEcho, debugger
<1>3. "typed" \in astray
  BY <1>1, <1>2 DEF Typed
<1>4. TypeOK'
  <2>1. markers' \subseteq markers
    BY DEF HandleEcho, Unmarked
  <2>2. echoes' \in Seq([op : {"typed"}, number : Numbers])
    BY <1>1, <1>2, HeadTailProperties DEF TypeOK
  <2>3. QED
    BY <1>1, <1>2, <2>1, <2>2 DEF TypeOK
<1>5. Dead' /\ Typed' /\ Counted' /\ Fresh' /\ Kept'
  BY <1>1, <1>2, <1>3 DEF Dead, Typed, Counted, Fresh, Kept
<1>6. Shown' /\ Agreed'
  BY <1>2, <1>3 DEF Shown, Agreed
<1>7. Reset'
  BY <1>2, <1>3 DEF Reset
<1>8. QED
  BY <1>4, <1>5, <1>6, <1>7 DEF IInv

\* What happens in the editor is told, and leaves the table as it is.
LEMMA EditorStep ==
  ASSUME IInv, NEW cause \in {"edited", "closed"}, astray' = astray \cup {cause},
         UNCHANGED <<kind, table, path, alive, has, last, answers, sent, echoes>>,
         open' \in [File -> BOOLEAN], handles' \in [File -> Nat],
         markers' \subseteq [file : File, line : Nat, handle : Nat], Command
  PROVE  IInv'
<1>1. TypeOK /\ Dead /\ Typed /\ Counted /\ Fresh /\ Shown /\ Agreed /\ Kept /\ Reset
  BY DEF IInv
<1>2. TypeOK'
  <2>1. n' \in 0..MaxCommands
    BY <1>1, DebuggerAssumption DEF Command, TypeOK
  <2>2. astray' \subseteq Cause
    BY <1>1 DEF TypeOK, Cause
  <2>3. QED
    BY <1>1, <2>1, <2>2 DEF TypeOK
<1>3. Dead' /\ Typed' /\ Counted' /\ Fresh' /\ Shown' /\ Kept'
  BY <1>1 DEF Dead, Typed, Counted, Fresh, Shown, Kept
<1>4. \A j : Answered(j)' <=> Answered(j)
  BY DEF Answered
<1>5. Agreed'
  <2>1. astray' \subseteq {"edited", "closed"} => astray \subseteq {"edited", "closed"}
    OBVIOUS
  <2>2. QED
    BY <1>1, <1>4, <2>1 DEF Agreed
<1>6. Reset'
  <2>1. astray' \ {"edited", "closed"} = astray \ {"edited", "closed"}
    OBVIOUS
  <2>2. Due' <=> Due
    BY DEF Due
  <2>3. \A i \in DOMAIN table : SetOrAsked(table[i])' <=> SetOrAsked(table[i])
    BY DEF SetOrAsked
  <2>4. QED
    BY <1>1, <1>4, <2>1, <2>2, <2>3 DEF Reset
<1>7. QED
  BY <1>2, <1>3, <1>5, <1>6 DEF IInv

\* An editor that is edited: its markers move with the lines.
LEMMA EditFileStep ==
  ASSUME IInv, NEW f \in File, EditFile(f)
  PROVE  IInv'
<1>1. TypeOK
  BY DEF IInv
<1>2. ASSUME NEW m \in [file : File, line : Nat, handle : Nat]
      PROVE  [m EXCEPT !.line = @ + 1] \in [file : File, line : Nat, handle : Nat]
  <2>1. m.line + 1 \in Nat
    OBVIOUS
  <2>2. QED
    BY <2>1
<1>3. markers' \subseteq [file : File, line : Nat, handle : Nat]
  <2> SUFFICES ASSUME NEW m \in markers
               PROVE  (IF m.file = f THEN [m EXCEPT !.line = @ + 1] ELSE m)
                        \in [file : File, line : Nat, handle : Nat]
    BY DEF EditFile
  <2>1. m \in [file : File, line : Nat, handle : Nat]
    BY <1>1 DEF TypeOK
  <2>2. QED
    BY <1>2, <2>1
<1>4. /\ UNCHANGED <<kind, table, path, alive, has, last, answers, sent, echoes>>
      /\ open' = open /\ handles' = handles
      /\ astray' = astray \cup {"edited"} /\ Command
  BY DEF EditFile, debugger
<1>5. open' \in [File -> BOOLEAN] /\ handles' \in [File -> Nat]
  BY <1>1, <1>4 DEF TypeOK
<1>6. QED
  BY <1>3, <1>4, <1>5, EditorStep

\* An editor that is closed: its markers go, the table stays.
LEMMA CloseFileStep ==
  ASSUME IInv, NEW f \in File, CloseFile(f)
  PROVE  IInv'
<1>1. TypeOK
  BY DEF IInv
<1>2. /\ UNCHANGED <<kind, table, path, alive, has, last, answers, sent, echoes>>
      /\ astray' = astray \cup {"closed"} /\ Command
  BY DEF CloseFile, debugger
<1>3. /\ open' \in [File -> BOOLEAN] /\ handles' \in [File -> Nat]
      /\ markers' \subseteq [file : File, line : Nat, handle : Nat]
  BY <1>1 DEF CloseFile, TypeOK
<1>4. QED
  BY <1>2, <1>3, EditorStep

\* Nothing happens.
LEMMA StutterStep ==
  ASSUME IInv, UNCHANGED vars
  PROVE  IInv'
<1>1. \A j : Answered(j)' <=> Answered(j)
  BY DEF vars, Answered
<1>2. Due' <=> Due
  BY DEF vars, Due
<1>3. \A e : SetOrAsked(e)' <=> SetOrAsked(e)
  BY DEF vars, SetOrAsked
<1>4. TypeOK' /\ Dead' /\ Typed' /\ Counted' /\ Fresh' /\ Shown' /\ Kept'
  BY DEF vars, IInv, TypeOK, Dead, Typed, Counted, Fresh, Shown, Kept
<1>5. Agreed'
  BY <1>1 DEF vars, IInv, Agreed
<1>6. Reset'
  BY <1>1, <1>2, <1>3 DEF vars, IInv, Reset, SetOrAsked
<1>7. QED
  BY <1>4, <1>5, <1>6 DEF IInv

\* Each step keeps the inductive invariant.
LEMMA NextInv == IInv /\ [Next]_vars => IInv'
<1> SUFFICES ASSUME IInv, [Next]_vars
             PROVE  IInv'
  OBVIOUS
<1>1. CASE \E f \in File, l \in Line : Toggle(f, l) \/ DeleteCommand(f, l)
  BY <1>1, ToggleStep, DeleteCommandStep
<1>2. CASE \E i \in 1..MaxNumber : TypedDelete(i)
  BY <1>2, TypedDeleteStep DEF Numbers
<1>3. CASE FileCommand
  BY <1>3, FileCommandStep
<1>4. CASE Read
  BY <1>4, ReadStep
<1>5. CASE Exit
  BY <1>5, ExitStep
<1>6. CASE HandleSet
  BY <1>6, HandleSetStep
<1>7. CASE HandlePath
  BY <1>7, HandlePathStep
<1>8. CASE HandleEcho
  BY <1>8, HandleEchoStep
<1>9. CASE \E f \in File : EditFile(f) \/ CloseFile(f)
  BY <1>9, EditFileStep, CloseFileStep
<1>10. CASE UNCHANGED vars
  BY <1>10, StutterStep
<1>11. QED
  BY <1>1, <1>2, <1>3, <1>4, <1>5, <1>6, <1>7, <1>8, <1>9, <1>10 DEF Next

\* When nothing is asked or answered, the table is what the debugger has.
LEMMA AgreedIsInStep == IInv => InStep
<1> SUFFICES ASSUME IInv, Quiet, astray \subseteq {"edited", "closed"}
             PROVE  /\ DOMAIN table = DOMAIN has /\ Places(table) = Places(has)
                    /\ \A i \in DOMAIN has : table[i].line = has[i].line
                    /\ astray = {} => markers = {table[i] : i \in DOMAIN table}
  BY DEF InStep
<1>1. Range(sent) = {} /\ Range(answers) = {}
  BY InEmpty DEF Quiet
<1>2. /\ DOMAIN table = DOMAIN has
      /\ \A i \in DOMAIN table : Same(table[i], has[i])
  BY <1>1 DEF IInv, Agreed, Answered
<1>3. Places(table) = Places(has)
  BY <1>2 DEF Places, Same
<1>4. astray = {} => markers = {table[i] : i \in DOMAIN table}
  BY DEF IInv, Shown
<1>5. QED
  BY <1>2, <1>3, <1>4 DEF Same

\* When nothing is asked or answered, what was to be set again is set.
LEMMA ResetIsSetAgain == IInv => SetAgain
<1> SUFFICES ASSUME IInv, Quiet, alive, astray \ {"edited", "closed"} = {"restarted"}
             PROVE  Places(table) = Places(has)
  BY DEF SetAgain
<1>1. Range(sent) = {} /\ Range(answers) = {}
  BY InEmpty DEF Quiet
<1>2. \A j \in DOMAIN has : j \in DOMAIN table /\ Same(table[j], has[j])
  BY <1>1 DEF IInv, Reset, Answered
<1>3. \A i \in DOMAIN table : \E j \in DOMAIN has : Same(table[i], has[j])
  BY <1>1 DEF IInv, Reset, Due, SetOrAsked
<1>4. QED
  BY <1>2, <1>3 DEF Places, Same

-----------------------------------------------------------------------------
(* The theorems.                                                           *)

\* The inductive invariant holds throughout: what the debugger has, what it
\* was asked and has answered, the table and the markers belong together.
THEOREM InductiveInvariant == Spec => []IInv
<1>1. QED
  BY InitInv, NextInv, PTL DEF Spec

\* The variables keep their types: all breakpoints are on lines with code, and
\* no number is given that the debugger does not have.
THEOREM TypeCorrect == Spec => []TypeOK
<1>1. IInv => TypeOK
  BY DEF IInv
<1>2. QED
  BY <1>1, InductiveInvariant, PTL

\* When all has arrived, the table and the markers are those of the debugger,
\* in whatever order commands, answers and clicks followed each other.
THEOREM InStepAlways == Spec => []InStep
<1>1. QED
  BY AgreedIsInStep, InductiveInvariant, PTL

\* A debugger that was started again for the same file has the breakpoints of
\* the table, under whatever numbers.
THEOREM SetAgainAlways == Spec => []SetAgain
<1>1. QED
  BY ResetIsSetAgain, InductiveInvariant, PTL

===============================================================================
