----------------------------- MODULE Shell_proofs ------------------------------
(***************************************************************************)
(* Proofs about the shell: that what return sends is what is shown, and    *)
(* that the text in front of the command stays as it is, for any           *)
(* characters, names, clipboard, history and setups, and any number of     *)
(* keys and lines of output.                                               *)
(***************************************************************************)
EXTENDS Shell, SequenceTheorems, WellFoundedInduction, TLAPS

\* A character of the command, as the text has it.
Look(c) == IF c = "cr" THEN "nl" ELSE c

\* The text t has the first k characters of u.
Behind(t, u, k) == k <= Len(t) /\ \A i \in 1..k : t[i] = u[i]

\* Nothing was done at a caret that is in the output.
Calm == "vi" \notin astray /\ "front" \notin astray

\* Then what is in front of the command is in the text and in every text that
\* undo or redo may show again.
FrontKept ==
  Calm => /\ Behind(text, text, start)
          /\ \A k \in DOMAIN past : Behind(past[k], text, start)
          /\ \A k \in DOMAIN future : Behind(future[k], text, start)

\* A shell without vi mode is not edited by vi.
ViOnly == ~setup.vi => enabled /\ "vi" \notin astray

\* What is behind the prompt is the end of the command, and all of it but for
\* output.
Agreed(a, t, c, k) ==
  a \subseteq {"output"} =>
    /\ k <= Len(t) /\ Len(t) - k <= Len(c)
    /\ a = {} => Len(t) - k = Len(c)
    /\ \A i \in (k + 1)..Len(t) : Look(t[i]) = Look(c[i + Len(c) - Len(t)])

Agree == Agreed(astray, text, command, start)

IInv == TypeOK /\ FrontKept /\ ViOnly /\ Agree

\* What a step may not do with the output.
OutputStays ==
  enabled /\ Calm /\ "front" \notin astray' => Behind(text', text, start)

-----------------------------------------------------------------------------
(* Lemmas about sequences.                                                 *)

\* A part of a sequence.
LEMMA PartOf ==
  ASSUME NEW S, NEW s \in Seq(S), NEW m \in Nat \ {0}, NEW k \in Int, k <= Len(s)
  PROVE  /\ SubSeq(s, m, k) \in Seq(S)
         /\ Len(SubSeq(s, m, k)) = IF m <= k THEN k - m + 1 ELSE 0
         /\ \A i \in 1..(k - m + 1) : SubSeq(s, m, k)[i] = s[m + i - 1]
<1>1. \A i \in m..k : s[i] \in S
  <2>1. Len(s) \in Nat /\ \A i \in 1..Len(s) : s[i] \in S
    BY LenProperties, ElementOfSeq
  <2>2. QED
    BY <2>1
<1>2. QED
  BY <1>1, SubSeqProperties

\* One text behind another.
LEMMA Concatenated ==
  ASSUME NEW u \in Seq(Symbol), NEW v \in Seq(Symbol)
  PROVE  /\ u \o v \in Seq(Symbol) /\ Len(u \o v) = Len(u) + Len(v)
         /\ \A i \in 1..(Len(u) + Len(v)) :
              (u \o v)[i] = IF i <= Len(u) THEN u[i] ELSE v[i - Len(u)]
BY ConcatProperties

\* InsertText.
LEMMA Inserted ==
  ASSUME NEW t \in Seq(Symbol), NEW s \in Seq(Symbol), NEW pos \in Nat, pos <= Len(t)
  PROVE  /\ InsertedAt(t, pos, s) \in Seq(Symbol)
         /\ Len(InsertedAt(t, pos, s)) = Len(t) + Len(s)
         /\ \A i \in 1..pos : InsertedAt(t, pos, s)[i] = t[i]
         /\ \A i \in 1..Len(s) : InsertedAt(t, pos, s)[pos + i] = s[i]
         /\ \A i \in (pos + 1)..Len(t) : InsertedAt(t, pos, s)[i + Len(s)] = t[i]
<1> DEFINE a == SubSeq(t, 1, pos)
           b == SubSeq(t, pos + 1, Len(t))
<1>1. Len(t) \in Nat /\ Len(s) \in Nat
  BY LenProperties
<1>2. /\ a \in Seq(Symbol) /\ Len(a) = pos
      /\ \A i \in 1..pos : a[i] = t[i]
  BY <1>1, PartOf
<1>3. /\ b \in Seq(Symbol) /\ Len(b) = Len(t) - pos
      /\ \A i \in 1..(Len(t) - pos) : b[i] = t[pos + i]
  <2>1. pos + 1 \in Nat \ {0} /\ Len(t) \in Int /\ Len(t) <= Len(t)
    BY <1>1
  <2>2. /\ b \in Seq(Symbol) /\ Len(b) = IF pos + 1 <= Len(t) THEN Len(t) - (pos + 1) + 1 ELSE 0
        /\ \A i \in 1..(Len(t) - (pos + 1) + 1) : b[i] = t[(pos + 1) + i - 1]
    BY <2>1, PartOf
  <2>3. QED
    BY <1>1, <2>2
<1>4. InsertedAt(t, pos, s) = (a \o s) \o b
  BY DEF InsertedAt
<1> HIDE DEF a, b
<1>5. /\ a \o s \in Seq(Symbol) /\ Len(a \o s) = pos + Len(s)
      /\ \A i \in 1..(pos + Len(s)) : (a \o s)[i] = IF i <= pos THEN a[i] ELSE s[i - pos]
  BY <1>2, ConcatProperties
<1> DEFINE c == a \o s
<1>6. /\ c \o b \in Seq(Symbol) /\ Len(c \o b) = pos + Len(s) + (Len(t) - pos)
      /\ \A i \in 1..(pos + Len(s) + (Len(t) - pos)) :
           (c \o b)[i] = IF i <= pos + Len(s) THEN c[i] ELSE b[i - (pos + Len(s))]
  <2>1. c \in Seq(Symbol) /\ Len(c) = pos + Len(s)
    BY <1>5
  <2> b \in Seq(Symbol)
    BY <1>3
  <2> HIDE DEF c
  <2>2. /\ c \o b \in Seq(Symbol) /\ Len(c \o b) = Len(c) + Len(b)
        /\ \A i \in 1..(Len(c) + Len(b)) :
             (c \o b)[i] = IF i <= Len(c) THEN c[i] ELSE b[i - Len(c)]
    BY <2>1, Concatenated
  <2>3. QED
    BY <1>3, <2>1, <2>2, Zenon
<1> HIDE DEF c
<1> DEFINE d == InsertedAt(t, pos, s)
<1>7. d = c \o b
  BY <1>4 DEF c
<1> HIDE DEF d
<1>8. d \in Seq(Symbol) /\ Len(d) = Len(t) + Len(s)
  <2>1. d \in Seq(Symbol) /\ Len(d) = pos + Len(s) + (Len(t) - pos)
    BY <1>6, <1>7, Zenon
  <2>2. pos + Len(s) + (Len(t) - pos) = Len(t) + Len(s)
    BY <1>1
  <2>3. QED
    BY <2>1, <2>2, Zenon
<1>9. \A i \in 1..pos : d[i] = t[i]
  <2> TAKE i \in 1..pos
  <2>1. i \in 1..(pos + Len(s) + (Len(t) - pos)) /\ i \in 1..(pos + Len(s)) /\ i <= pos
    BY <1>1
  <2>2. d[i] = c[i] /\ c[i] = a[i]
    BY <1>5, <1>6, <1>7, <2>1 DEF c
  <2>3. QED
    BY <1>2, <2>2
<1>10. \A i \in 1..Len(s) : d[pos + i] = s[i]
  <2> TAKE i \in 1..Len(s)
  <2>1. /\ pos + i \in 1..(pos + Len(s) + (Len(t) - pos)) /\ pos + i <= pos + Len(s)
        /\ pos + i \in 1..(pos + Len(s)) /\ ~(pos + i <= pos) /\ pos + i - pos = i
    BY <1>1
  <2>2. d[pos + i] = c[pos + i]
    BY <1>6, <1>7, <2>1
  <2>3. c[pos + i] = s[i]
    BY <1>5, <2>1 DEF c
  <2>4. QED
    BY <2>2, <2>3
<1>11. \A i \in (pos + 1)..Len(t) : d[i + Len(s)] = t[i]
  <2> TAKE i \in (pos + 1)..Len(t)
  <2>1. /\ i + Len(s) \in 1..(pos + Len(s) + (Len(t) - pos))
        /\ ~(i + Len(s) <= pos + Len(s)) /\ i - pos \in 1..(Len(t) - pos)
        /\ (i + Len(s)) - (pos + Len(s)) = i - pos /\ pos + (i - pos) = i
    BY <1>1
  <2>2. d[i + Len(s)] = b[i - pos]
    BY <1>6, <1>7, <2>1
  <2>3. b[i - pos] = t[i]
    BY <1>3, <2>1
  <2>4. QED
    BY <2>2, <2>3
<1>12. QED
  BY <1>8, <1>9, <1>10, <1>11 DEF d

\* A character is erased.
LEMMA Removed ==
  ASSUME NEW t \in Seq(Symbol), NEW at \in Nat, 1 <= at, at <= Len(t)
  PROVE  /\ RemoveAt(t, at) \in Seq(Symbol)
         /\ Len(RemoveAt(t, at)) = Len(t) - 1
         /\ \A i \in 1..(at - 1) : RemoveAt(t, at)[i] = t[i]
         /\ \A i \in at..(Len(t) - 1) : RemoveAt(t, at)[i] = t[i + 1]
<1> DEFINE a == SubSeq(t, 1, at - 1)
           b == SubSeq(t, at + 1, Len(t))
<1>1. Len(t) \in Nat
  BY LenProperties
<1>2. /\ a \in Seq(Symbol) /\ Len(a) = at - 1
      /\ \A i \in 1..(at - 1) : a[i] = t[i]
  <2>1. at - 1 \in Int /\ at - 1 <= Len(t) /\ (1 <= at - 1 \/ at - 1 = 0)
    BY <1>1
  <2>2. /\ a \in Seq(Symbol) /\ Len(a) = IF 1 <= at - 1 THEN (at - 1) - 1 + 1 ELSE 0
        /\ \A i \in 1..((at - 1) - 1 + 1) : a[i] = t[1 + i - 1]
    BY <2>1, PartOf
  <2>3. QED
    BY <1>1, <2>1, <2>2
<1>3. /\ b \in Seq(Symbol) /\ Len(b) = Len(t) - at
      /\ \A i \in 1..(Len(t) - at) : b[i] = t[at + i]
  <2>1. at + 1 \in Nat \ {0} /\ Len(t) \in Int /\ Len(t) <= Len(t)
    BY <1>1
  <2>2. /\ b \in Seq(Symbol) /\ Len(b) = IF at + 1 <= Len(t) THEN Len(t) - (at + 1) + 1 ELSE 0
        /\ \A i \in 1..(Len(t) - (at + 1) + 1) : b[i] = t[(at + 1) + i - 1]
    BY <2>1, PartOf
  <2>3. QED
    BY <1>1, <2>2
<1>4. RemoveAt(t, at) = a \o b
  BY DEF RemoveAt
<1> HIDE DEF a, b
<1>5. /\ a \o b \in Seq(Symbol) /\ Len(a \o b) = (at - 1) + (Len(t) - at)
      /\ \A i \in 1..((at - 1) + (Len(t) - at)) :
           (a \o b)[i] = IF i <= at - 1 THEN a[i] ELSE b[i - (at - 1)]
  <2>1. a \in Seq(Symbol) /\ b \in Seq(Symbol) /\ Len(a) = at - 1 /\ Len(b) = Len(t) - at
    BY <1>2, <1>3
  <2>2. /\ a \o b \in Seq(Symbol) /\ Len(a \o b) = Len(a) + Len(b)
        /\ \A i \in 1..(Len(a) + Len(b)) :
             (a \o b)[i] = IF i <= Len(a) THEN a[i] ELSE b[i - Len(a)]
    BY <2>1, ConcatProperties
  <2>3. QED
    BY <2>1, <2>2
<1>6. \A i \in 1..(at - 1) : (a \o b)[i] = t[i]
  BY <1>1, <1>2, <1>5
<1>7. ASSUME NEW i \in at..(Len(t) - 1)
      PROVE  (a \o b)[i] = t[i + 1]
  <2>1. /\ i \in 1..((at - 1) + (Len(t) - at)) /\ ~(i <= at - 1)
        /\ i - (at - 1) \in 1..(Len(t) - at) /\ at + (i - (at - 1)) = i + 1
    BY <1>1
  <2>2. (a \o b)[i] = b[i - (at - 1)]
    BY <1>5, <2>1
  <2>3. b[i - (at - 1)] = t[at + (i - (at - 1))]
    BY <1>3, <2>1
  <2>4. QED
    BY <2>1, <2>2, <2>3
<1>8. (at - 1) + (Len(t) - at) = Len(t) - 1
  BY <1>1
<1>9. QED
  BY <1>4, <1>5, <1>6, <1>7, <1>8

\* The last of the numbers that are found.
LEMMA MaxFound ==
  ASSUME NEW m \in Nat, NEW T \in SUBSET (1..m), T # {}
  PROVE  Max(T) \in T
<1> DEFINE D == {d \in Nat : m - d \in T}
<1>1. PICK i \in T : i \in 1..m
  OBVIOUS
<1>2. m - i \in D
  <2>1. m - i \in Nat /\ m - (m - i) = i
    BY <1>1
  <2>2. QED
    BY <1>1, <2>1
<1>3. PICK d \in D : \A e \in D : ~(<<e, d>> \in OpToRel(<, Nat))
  <2>1. D \subseteq Nat /\ D # {}
    BY <1>2
  <2> HIDE DEF D
  <2>2. QED
    BY <2>1, NatLessThanWellFounded, WFMin
<1>4. \A j \in T : m - d >= j
  <2> SUFFICES ASSUME NEW j \in T, ~(m - d >= j)
               PROVE  FALSE
    OBVIOUS
  <2>1. m - j \in Nat /\ m - (m - j) = j /\ m - j < d /\ d \in Nat
    OBVIOUS
  <2>2. m - j \in D /\ <<m - j, d>> \in OpToRel(<, Nat)
    BY <2>1 DEF OpToRel
  <2>3. QED
    BY <1>3, <2>2
<1>5. \E x \in T : \A y \in T : x >= y
  BY <1>4
<1>6. QED
  BY <1>5 DEF Max

\* The first of the numbers that are found.
LEMMA MinFound ==
  ASSUME NEW m \in Nat, NEW T \in SUBSET (1..m), T # {}
  PROVE  Min(T) \in T
<1>1. T \subseteq Nat
  OBVIOUS
<1>2. PICK d \in T : \A e \in T : ~(<<e, d>> \in OpToRel(<, Nat))
  BY <1>1, NatLessThanWellFounded, WFMin
<1>3. \A e \in T : ~(e < d)
  BY <1>1, <1>2 DEF OpToRel
<1>4. \E x \in T : \A y \in T : x <= y
  BY <1>1, <1>3
<1>5. QED
  BY <1>4 DEF Min

\* To insert at the end is to append.
LEMMA InsertedAtEnd ==
  ASSUME NEW t \in Seq(Symbol), NEW s \in Seq(Symbol)
  PROVE  InsertedAt(t, Len(t), s) = t \o s
<1>1. Len(t) \in Nat /\ Len(s) \in Nat /\ Len(t) <= Len(t)
  BY LenProperties
<1> DEFINE l == Len(t)
<1> HIDE DEF l
<1>2. /\ InsertedAt(t, l, s) \in Seq(Symbol)
      /\ Len(InsertedAt(t, l, s)) = Len(t) + Len(s)
      /\ \A i \in 1..l : InsertedAt(t, l, s)[i] = t[i]
      /\ \A i \in 1..Len(s) : InsertedAt(t, l, s)[l + i] = s[i]
  <2>1. l \in Nat /\ l <= Len(t)
    BY <1>1 DEF l
  <2>2. QED
    BY <2>1, Inserted
<1>3. /\ t \o s \in Seq(Symbol) /\ Len(t \o s) = Len(t) + Len(s)
      /\ \A i \in 1..(Len(t) + Len(s)) :
           (t \o s)[i] = IF i <= Len(t) THEN t[i] ELSE s[i - Len(t)]
  BY ConcatProperties
<1> DEFINE a == InsertedAt(t, l, s)
           b == t \o s
<1> HIDE DEF a, b
<1>4. \A i \in 1..Len(a) : a[i] = b[i]
  <2> SUFFICES ASSUME NEW i \in 1..Len(a)
               PROVE  a[i] = b[i]
    OBVIOUS
  <2>1. CASE i <= Len(t)
    <3>1. i \in 1..l /\ i \in 1..(Len(t) + Len(s))
      BY <1>1, <1>2, <2>1 DEF a, l
    <3>2. QED
      BY <1>2, <1>3, <2>1, <3>1 DEF a, b
  <2>2. CASE i > Len(t)
    <3>1. i - Len(t) \in 1..Len(s) /\ Len(t) + (i - Len(t)) = i /\ i \in 1..(Len(t) + Len(s))
      BY <1>1, <1>2, <2>2 DEF a
    <3>2. a[Len(t) + (i - Len(t))] = s[i - Len(t)]
      BY <1>2, <3>1 DEF a, l
    <3>3. b[i] = s[i - Len(t)]
      BY <1>1, <1>3, <2>2, <3>1 DEF b
    <3>4. QED
      BY <3>1, <3>2, <3>3
  <2>3. QED
    BY <1>1, <1>2, <2>1, <2>2 DEF a
<1>5. a \in Seq(Symbol) /\ b \in Seq(Symbol) /\ Len(a) = Len(b)
  BY <1>2, <1>3 DEF a, b
<1>6. a = b
  BY <1>4, <1>5, SeqEqual
<1>7. QED
  BY <1>6 DEF a, b, l

\* What is inserted or erased behind the k first characters leaves these.
LEMMA BehindInserted ==
  ASSUME NEW t \in Seq(Symbol), NEW s \in Seq(Symbol), NEW k \in Nat,
         NEW pos \in Nat, k <= pos, pos <= Len(t)
  PROVE  Behind(InsertedAt(t, pos, s), t, k)
<1>1. Len(t) \in Nat /\ Len(s) \in Nat
  BY LenProperties
<1>2. /\ Len(InsertedAt(t, pos, s)) = Len(t) + Len(s)
      /\ \A i \in 1..pos : InsertedAt(t, pos, s)[i] = t[i]
  BY <1>1, Inserted
<1>3. QED
  BY <1>1, <1>2 DEF Behind

\* Nor by a character that goes behind it.
LEMMA BehindRemoved ==
  ASSUME NEW t \in Seq(Symbol), NEW k \in Nat, NEW at \in Nat, k < at, at <= Len(t)
  PROVE  Behind(RemoveAt(t, at), t, k)
<1>1. Len(t) \in Nat /\ 1 <= at
  BY LenProperties
<1>2. /\ Len(RemoveAt(t, at)) = Len(t) - 1
      /\ \A i \in 1..(at - 1) : RemoveAt(t, at)[i] = t[i]
  BY <1>1, Removed
<1>3. QED
  BY <1>1, <1>2 DEF Behind

\* What is appended to a text.
LEMMA Longer ==
  ASSUME NEW t \in Seq(Symbol), NEW s \in Seq(Symbol)
  PROVE  /\ t \o s \in Seq(Symbol) /\ Len(t \o s) = Len(t) + Len(s)
         /\ \A i \in 1..Len(t) : (t \o s)[i] = t[i]
         /\ \A i \in 1..Len(s) : (t \o s)[Len(t) + i] = s[i]
<1>1. Len(t) \in Nat /\ Len(s) \in Nat /\ Len(t) <= Len(t)
  BY LenProperties
<1>2. QED
  BY <1>1, Inserted, InsertedAtEnd

-----------------------------------------------------------------------------
(* The text and the command, changed together.                             *)

\* Without a cause, the text behind the prompt is the command.
LEMMA AgreedSame ==
  ASSUME NEW t \in Seq(Symbol), NEW c \in Seq(Symbol), NEW k \in Nat
  PROVE  Agreed({}, t, c, k)
           <=> /\ k <= Len(t) /\ Len(t) - k = Len(c)
               /\ \A i \in (k + 1)..Len(t) : Look(t[i]) = Look(c[i - k])
<1>1. Len(t) \in Nat /\ Len(c) \in Nat
  BY LenProperties
<1>2. ASSUME Len(t) - k = Len(c)
      PROVE  \A i \in (k + 1)..Len(t) : i + Len(c) - Len(t) = i - k
  BY <1>1, <1>2
<1>3. Agreed({}, t, c, k)
        <=> /\ k <= Len(t) /\ Len(t) - k = Len(c)
            /\ \A i \in (k + 1)..Len(t) : Look(t[i]) = Look(c[i + Len(c) - Len(t)])
  BY <1>1 DEF Agreed
<1>4. QED
  BY <1>2, <1>3

\* Both get the same at their end.
LEMMA AgreedAppended ==
  ASSUME NEW t \in Seq(Symbol), NEW c \in Seq(Symbol), NEW k \in Nat, NEW a,
         NEW s \in Seq(Symbol), NEW r \in Seq(Symbol), Agreed(a, t, c, k),
         Len(s) = Len(r), \A i \in 1..Len(s) : Look(s[i]) = Look(r[i])
  PROVE  Agreed(a, t \o s, c \o r, k)
<1> SUFFICES ASSUME a \subseteq {"output"}
             PROVE  /\ k <= Len(t \o s) /\ Len(t \o s) - k <= Len(c \o r)
                    /\ a = {} => Len(t \o s) - k = Len(c \o r)
                    /\ \A i \in (k + 1)..Len(t \o s) :
                         Look((t \o s)[i])
                         = Look((c \o r)[i + Len(c \o r) - Len(t \o s)])
  BY DEF Agreed
<1>1. Len(t) \in Nat /\ Len(c) \in Nat /\ Len(s) \in Nat /\ Len(r) \in Nat
  BY LenProperties
<1>2. /\ k <= Len(t) /\ Len(t) - k <= Len(c)
      /\ a = {} => Len(t) - k = Len(c)
  BY DEF Agreed
<1>3. \A i \in (k + 1)..Len(t) : Look(t[i]) = Look(c[i + Len(c) - Len(t)])
  BY DEF Agreed
<1>4. /\ Len(t \o s) = Len(t) + Len(s) /\ Len(c \o r) = Len(c) + Len(r)
      /\ \A i \in 1..Len(t) : (t \o s)[i] = t[i]
      /\ \A i \in 1..Len(s) : (t \o s)[Len(t) + i] = s[i]
      /\ \A i \in 1..Len(c) : (c \o r)[i] = c[i]
      /\ \A i \in 1..Len(r) : (c \o r)[Len(c) + i] = r[i]
  BY Longer
<1>5. ASSUME NEW i \in (k + 1)..Len(t \o s)
      PROVE  Look((t \o s)[i]) = Look((c \o r)[i + Len(c \o r) - Len(t \o s)])
  <2>1. i + Len(c \o r) - Len(t \o s) = i + Len(c) - Len(t)
    BY <1>1, <1>4
  <2>2. CASE i <= Len(t)
    <3>1. i + Len(c) - Len(t) \in 1..Len(c) /\ i \in 1..Len(t) /\ i \in (k + 1)..Len(t)
      BY <1>1, <1>2, <2>2
    <3>2. QED
      BY <1>4, <1>3, <2>1, <3>1
  <2>3. CASE i > Len(t)
    <3> DEFINE j == i - Len(t)
    <3>1. j \in 1..Len(s) /\ i = Len(t) + j /\ i + Len(c) - Len(t) = Len(c) + j
      BY <1>1, <1>4, <2>3
    <3> HIDE DEF j
    <3>2. (t \o s)[i] = s[j] /\ (c \o r)[i + Len(c) - Len(t)] = r[j]
      BY <1>4, <3>1
    <3>3. QED
      BY <2>1, <3>1, <3>2
  <2>4. i <= Len(t) \/ i > Len(t)
    BY <1>1, <1>4
  <2>5. QED
    BY <2>2, <2>3, <2>4
<1>6. QED
  BY <1>1, <1>2, <1>4, <1>5

\* Both get the same at the same place.
LEMMA AgreedInserted ==
  ASSUME NEW t \in Seq(Symbol), NEW c \in Seq(Symbol), NEW k \in Nat,
         NEW s \in Seq(Symbol), NEW r \in Seq(Symbol), Agreed({}, t, c, k),
         Len(s) = Len(r), \A i \in 1..Len(s) : Look(s[i]) = Look(r[i]),
         NEW pos \in Nat, k <= pos, pos <= Len(t)
  PROVE  Agreed({}, InsertedAt(t, pos, s), InsertedAt(c, pos - k, r), k)
<1> DEFINE u == InsertedAt(t, pos, s)
           d == InsertedAt(c, pos - k, r)
<1>1. Len(t) \in Nat /\ Len(c) \in Nat /\ Len(s) \in Nat
  BY LenProperties
<1>2. k <= Len(t) /\ Len(t) - k = Len(c)
  BY AgreedSame
<1>3. \A i \in (k + 1)..Len(t) : Look(t[i]) = Look(c[i - k])
  BY AgreedSame
<1>4. /\ u \in Seq(Symbol) /\ Len(u) = Len(t) + Len(s)
      /\ \A i \in 1..pos : u[i] = t[i]
      /\ \A i \in 1..Len(s) : u[pos + i] = s[i]
      /\ \A i \in (pos + 1)..Len(t) : u[i + Len(s)] = t[i]
  BY Inserted
<1>5. /\ d \in Seq(Symbol) /\ Len(d) = Len(c) + Len(s)
      /\ \A i \in 1..(pos - k) : d[i] = c[i]
      /\ \A i \in 1..Len(s) : d[(pos - k) + i] = r[i]
      /\ \A i \in ((pos - k) + 1)..Len(c) : d[i + Len(s)] = c[i]
  <2> DEFINE p == pos - k
  <2>1. p \in Nat /\ p <= Len(c)
    BY <1>1, <1>2
  <2> HIDE DEF p
  <2>2. /\ InsertedAt(c, p, r) \in Seq(Symbol)
        /\ Len(InsertedAt(c, p, r)) = Len(c) + Len(r)
        /\ \A i \in 1..p : InsertedAt(c, p, r)[i] = c[i]
        /\ \A i \in 1..Len(r) : InsertedAt(c, p, r)[p + i] = r[i]
        /\ \A i \in (p + 1)..Len(c) : InsertedAt(c, p, r)[i + Len(r)] = c[i]
    BY <2>1, Inserted
  <2>3. QED
    BY <2>2 DEF p
<1> HIDE DEF u, d
<1>6. Len(u) = Len(t) + Len(s) /\ Len(d) = Len(c) + Len(s)
  BY <1>4, <1>5
<1>7. k <= Len(u) /\ Len(u) - k = Len(d) /\ Len(u) \in Nat /\ Len(d) \in Nat
  <2>1. k <= Len(t) + Len(s)
    BY <1>1, <1>2
  <2>2. (Len(t) + Len(s)) - k = Len(c) + Len(s)
    BY <1>1, <1>2
  <2>3. Len(t) + Len(s) \in Nat /\ Len(c) + Len(s) \in Nat
    BY <1>1
  <2>4. QED
    BY <1>6, <2>1, <2>2, <2>3
<1>8. ASSUME NEW i \in (k + 1)..Len(u)
      PROVE  Look(u[i]) = Look(d[i - k])
  <2>1. CASE i <= pos
    <3>1. i \in 1..pos /\ i - k \in 1..(pos - k) /\ i \in (k + 1)..Len(t)
      BY <1>1, <2>1
    <3>2. u[i] = t[i] /\ d[i - k] = c[i - k] /\ Look(t[i]) = Look(c[i - k])
      BY <1>3, <1>4, <1>5, <3>1
    <3>3. QED
      BY <3>2
  <2>2. CASE pos < i /\ i <= pos + Len(s)
    <3> DEFINE j == i - pos
    <3>1. j \in 1..Len(s) /\ i = pos + j /\ i - k = (pos - k) + j
      BY <1>1, <2>2
    <3> HIDE DEF j
    <3>2. u[i] = s[j] /\ d[i - k] = r[j]
      BY <1>4, <1>5, <3>1
    <3>3. QED
      BY <3>1, <3>2
  <2>3. CASE pos + Len(s) < i
    <3> DEFINE j == i - Len(s)
    <3>1. /\ j \in (pos + 1)..Len(t) /\ i = j + Len(s) /\ j \in (k + 1)..Len(t)
          /\ i - k = (j - k) + Len(s) /\ j - k \in ((pos - k) + 1)..Len(c)
      BY <1>1, <1>2, <1>4, <2>3
    <3> HIDE DEF j
    <3>2. u[i] = t[j] /\ d[i - k] = c[j - k]
      BY <1>4, <1>5, <3>1
    <3>3. QED
      BY <1>3, <3>1, <3>2
  <2>4. QED
    BY <1>1, <2>1, <2>2, <2>3
<1>9. Agreed({}, u, d, k)
  BY <1>4, <1>5, <1>8, <1>7, AgreedSame
<1>10. QED
  BY <1>9 DEF u, d

\* The same character is erased in both.
LEMMA AgreedRemoved ==
  ASSUME NEW t \in Seq(Symbol), NEW c \in Seq(Symbol), NEW k \in Nat,
         Agreed({}, t, c, k), NEW at \in Nat, k < at, at <= Len(t)
  PROVE  Agreed({}, RemoveAt(t, at), RemoveAt(c, at - k), k)
<1> DEFINE u == RemoveAt(t, at)
           d == RemoveAt(c, at - k)
<1>1. Len(t) \in Nat /\ Len(c) \in Nat
  BY LenProperties
<1>2. k <= Len(t) /\ Len(t) - k = Len(c)
  BY AgreedSame
<1>3. \A i \in (k + 1)..Len(t) : Look(t[i]) = Look(c[i - k])
  BY AgreedSame
<1>4. /\ u \in Seq(Symbol) /\ Len(u) = Len(t) - 1
      /\ \A i \in 1..(at - 1) : u[i] = t[i]
      /\ \A i \in at..(Len(t) - 1) : u[i] = t[i + 1]
  <2>1. 1 <= at
    OBVIOUS
  <2>2. QED
    BY <2>1, Removed
<1>5. /\ d \in Seq(Symbol) /\ Len(d) = Len(c) - 1
      /\ \A i \in 1..((at - k) - 1) : d[i] = c[i]
      /\ \A i \in (at - k)..(Len(c) - 1) : d[i] = c[i + 1]
  <2>1. at - k \in Nat /\ 1 <= at - k /\ at - k <= Len(c)
    BY <1>1, <1>2
  <2>2. QED
    BY <2>1, Removed
<1> HIDE DEF u, d
<1>6. Len(u) = Len(t) - 1 /\ Len(d) = Len(c) - 1
  BY <1>4, <1>5
<1>7. k <= Len(u) /\ Len(u) - k = Len(d) /\ Len(u) \in Nat /\ Len(d) \in Nat
  <2>1. k <= Len(t) - 1
    BY <1>1, <1>2
  <2>2. (Len(t) - 1) - k = Len(c) - 1
    BY <1>1, <1>2
  <2>3. Len(t) - 1 \in Nat /\ Len(c) - 1 \in Nat
    BY <1>1, <1>2
  <2>4. QED
    BY <1>6, <2>1, <2>2, <2>3
<1>8. ASSUME NEW i \in (k + 1)..Len(u)
      PROVE  Look(u[i]) = Look(d[i - k])
  <2>1. CASE i < at
    <3>1. i \in 1..(at - 1) /\ i - k \in 1..((at - k) - 1) /\ i \in (k + 1)..Len(t)
      BY <1>1, <2>1
    <3>2. u[i] = t[i] /\ d[i - k] = c[i - k] /\ Look(t[i]) = Look(c[i - k])
      BY <1>3, <1>4, <1>5, <3>1
    <3>3. QED
      BY <3>2
  <2>2. CASE at <= i
    <3>1. /\ i \in at..(Len(t) - 1) /\ i - k \in (at - k)..(Len(c) - 1)
          /\ i + 1 \in (k + 1)..Len(t) /\ (i - k) + 1 = (i + 1) - k
      BY <1>1, <1>2, <1>4, <2>2
    <3>2. u[i] = t[i + 1] /\ d[i - k] = c[(i + 1) - k]
      BY <1>4, <1>5, <3>1
    <3>3. QED
      BY <1>3, <3>1, <3>2
  <2>3. QED
    BY <1>1, <2>1, <2>2
<1>9. Agreed({}, u, d, k)
  BY <1>4, <1>5, <1>8, <1>7, AgreedSame
<1>10. QED
  BY <1>9 DEF u, d

-----------------------------------------------------------------------------
(* What the steps have in common.                                          *)

\* The part of the state that the component keeps.
Buffered ==
  /\ text \in Seq(Symbol) /\ caret \in 0..Len(text) /\ start \in Nat
  /\ past \in Seq(Seq(Symbol)) /\ future \in Seq(Seq(Symbol))

Causes ==
  {"deleted", "edited", "front", "inside", "output", "undo", "unprompted", "vi"}

\* The texts that have what is in front of the command.
Alike == {u \in Seq(Symbol) : Calm => Behind(u, text, start)}

\* What is typed, expanded, pasted or in a history is text.
LEMMA Texts ==
  /\ Char \subseteq Symbol /\ Files \subseteq Seq(Symbol) /\ Clips \subseteq Seq(Symbol)
  /\ Histories \subseteq Seq(Seq(Symbol))
<1>1. Char \subseteq Symbol
  BY DEF Symbol
<1>2. \A c \in Seq(Char) : c \in Seq(Symbol)
  BY <1>1, SeqMonotonic
<1>3. Seq(Char) \subseteq Seq(Symbol)
  BY <1>2
<1>4. \A h \in Seq(Seq(Char)) : h \in Seq(Seq(Symbol))
  BY <1>3, SeqMonotonic
<1>5. QED
  BY <1>1, <1>2, <1>4, ShellAssumption

\* A key is counted.
LEMMA KeyCounted ==
  ASSUME TypeOK, Key
  PROVE  n' \in [keys : Nat, output : Nat]
<1>1. n \in [keys : Nat, output : Nat] /\ n.keys + 1 \in Nat
  BY DEF TypeOK
<1>2. n' = [n EXCEPT !.keys = n.keys + 1]
  BY DEF Key
<1>3. QED
  BY <1>1, <1>2

\* When nothing was done in the output, the prompt is in the text.
LEMMA FrontShown ==
  ASSUME IInv
  PROVE  /\ Calm => start <= Len(text) /\ start <= AtInput
         /\ AtInput \in Nat /\ AtInput <= Len(text)
<1>1. Len(text) \in Nat /\ caret \in 0..Len(text) /\ start \in Nat
  BY LenProperties DEF IInv, TypeOK
<1>2. Calm => start <= Len(text)
  BY DEF IInv, FrontKept, Behind
<1>3. QED
  BY <1>1, <1>2 DEF AtInput

\* An edit that leaves what is in front of the command, or one in the output.
LEMMA EditStep ==
  ASSUME IInv, NEW t \in Seq(Symbol), NEW pos \in 0..Len(t), Edited(t, pos),
         start' = start, Calm' => Calm /\ Behind(t, text, start)
  PROVE  Buffered' /\ FrontKept'
<1>1. /\ text \in Seq(Symbol) /\ start \in Nat /\ past \in Seq(Seq(Symbol))
      /\ text' = t /\ caret' = pos /\ past' = Append(past, text) /\ future' = <<>>
  BY DEF IInv, TypeOK, Edited
<1>2. /\ past' \in Seq(Seq(Symbol)) /\ DOMAIN past' = 1..(Len(past) + 1)
      /\ DOMAIN past = 1..Len(past) /\ Len(past) \in Nat
      /\ \A k \in 1..Len(past) : past'[k] = past[k]
      /\ past'[Len(past) + 1] = text
  BY <1>1
<1>3. Buffered'
  <2>1. future' \in Seq(Seq(Symbol))
    BY <1>1
  <2>2. QED
    BY <1>1, <1>2, <2>1 DEF Buffered
<1>4. ASSUME Calm'
      PROVE  /\ Behind(text', text', start')
             /\ \A k \in DOMAIN past' : Behind(past'[k], text', start')
             /\ \A k \in DOMAIN future' : Behind(future'[k], text', start')
  <2>1. /\ Behind(t, text, start) /\ Behind(text, text, start)
        /\ \A k \in DOMAIN past : Behind(past[k], text, start)
    BY <1>4 DEF IInv, FrontKept
  <2>2. \A u : Behind(u, text, start) => Behind(u, t, start)
    BY <2>1 DEF Behind
  <2>3. ASSUME NEW k \in DOMAIN past'
        PROVE  Behind(past'[k], t, start)
    <3>1. CASE k \in 1..Len(past)
      BY <1>2, <2>1, <2>2, <3>1
    <3>2. CASE k = Len(past) + 1
      BY <1>2, <2>1, <2>2, <3>2
    <3>3. QED
      BY <1>2, <2>3, <3>1, <3>2
  <2>4. Behind(t, t, start)
    BY <2>1, <2>2
  <2>5. DOMAIN future' = {}
    BY <1>1
  <2>6. QED
    BY <1>1, <2>3, <2>4, <2>5
<1>5. QED
  BY <1>3, <1>4 DEF FrontKept

\* What is appended by the shell, and cannot be undone.
LEMMA AppendStep ==
  ASSUME IInv, NEW s \in Seq(Symbol), text' = text \o s, start' = Len(text'),
         Forgotten, caret' \in 0..Len(text')
  PROVE  Buffered' /\ FrontKept' /\ OutputStays
<1>1. text \in Seq(Symbol) /\ Len(text) \in Nat /\ Len(s) \in Nat
  BY LenProperties DEF IInv, TypeOK
<1>2. /\ text' \in Seq(Symbol) /\ Len(text') = Len(text) + Len(s)
      /\ \A i \in 1..Len(text) : text'[i] = text[i]
  BY <1>1, Longer
<1>3. Len(text') \in Nat
  BY <1>1, <1>2
<1>4. /\ past' \in Seq(Seq(Symbol)) /\ DOMAIN past' = {}
      /\ future' \in Seq(Seq(Symbol)) /\ DOMAIN future' = {}
  BY DEF Forgotten
<1>5. Buffered'
  BY <1>2, <1>3, <1>4 DEF Buffered
<1>6. FrontKept'
  BY <1>3, <1>4 DEF FrontKept, Behind
<1>7. OutputStays
  <2>1. Calm => start <= Len(text) /\ start \in Nat
    BY DEF IInv, TypeOK, FrontKept, Behind
  <2>2. QED
    BY <1>1, <1>2, <2>1 DEF OutputStays, Behind
<1>8. QED
  BY <1>5, <1>6, <1>7

\* A step that leaves the text, where what was done in the output stays known.
LEMMA StayStep ==
  ASSUME IInv, UNCHANGED buffer, Calm' => Calm
  PROVE  Buffered' /\ FrontKept' /\ OutputStays
<1>1. Buffered'
  BY DEF IInv, TypeOK, buffer, Buffered
<1>2. FrontKept'
  BY DEF IInv, FrontKept, buffer
<1>3. OutputStays
  BY DEF IInv, FrontKept, buffer, OutputStays
<1>4. QED
  BY <1>1, <1>2, <1>3

\* The texts of the history are alike.
LEMMA HistoryAlike ==
  ASSUME IInv
  PROVE  text \in Alike /\ past \in Seq(Alike) /\ future \in Seq(Alike)
<1>1. /\ text \in Seq(Symbol)
      /\ past \in Seq(Seq(Symbol)) /\ future \in Seq(Seq(Symbol))
  BY DEF IInv, TypeOK
<1>2. text \in Alike
  BY <1>1 DEF IInv, FrontKept, Alike
<1>3. /\ Len(past) \in Nat /\ DOMAIN past = 1..Len(past)
      /\ Len(future) \in Nat /\ DOMAIN future = 1..Len(future)
  BY <1>1, LenProperties
<1>4. ASSUME NEW k \in 1..Len(past)
      PROVE  past[k] \in Alike
  <2>1. past[k] \in Seq(Symbol)
    BY <1>1, ElementOfSeq
  <2>2. Calm => Behind(past[k], text, start)
    BY <1>3 DEF IInv, FrontKept
  <2>3. QED
    BY <2>1, <2>2 DEF Alike
<1>5. ASSUME NEW k \in 1..Len(future)
      PROVE  future[k] \in Alike
  <2>1. future[k] \in Seq(Symbol)
    BY <1>1, ElementOfSeq
  <2>2. Calm => Behind(future[k], text, start)
    BY <1>3 DEF IInv, FrontKept
  <2>3. QED
    BY <2>1, <2>2 DEF Alike
<1>6. past = [k \in 1..Len(past) |-> past[k]] /\ future = [k \in 1..Len(future) |-> future[k]]
  BY <1>1, <1>3
<1> DEFINE e(k) == past[k]
           f(k) == future[k]
<1>7. past \in Seq(Alike)
  <2>1. (\A k \in 1..Len(past) : e(k) \in Alike) /\ past = [k \in 1..Len(past) |-> e(k)]
    BY <1>4, <1>6
  <2> HIDE DEF e
  <2>2. [k \in 1..Len(past) |-> e(k)] \in Seq(Alike)
    BY <1>3, <2>1, IsASeq
  <2>3. QED
    BY <2>1, <2>2
<1>8. future \in Seq(Alike)
  <2>1. (\A k \in 1..Len(future) : f(k) \in Alike) /\ future = [k \in 1..Len(future) |-> f(k)]
    BY <1>5, <1>6
  <2> HIDE DEF f
  <2>2. [k \in 1..Len(future) |-> f(k)] \in Seq(Alike)
    BY <1>3, <2>1, IsASeq
  <2>3. QED
    BY <2>1, <2>2
<1>9. QED
  BY <1>2, <1>7, <1>8

\* A history of such texts, of which one is shown.
LEMMA AlikeStep ==
  ASSUME IInv, text' \in Alike, past' \in Seq(Alike), future' \in Seq(Alike), Shown,
         start' = start, caret' \in 0..Len(text'), command' \in Seq(Symbol)
  PROVE  /\ Buffered' /\ FrontKept' /\ OutputStays /\ Agree'
         /\ astray' \subseteq Causes
         /\ "vi" \in astray' => "vi" \in astray
<1>1. /\ astray' = Disturbed
            \cup (IF command' = <<>> /\ start = Len(text') THEN {} ELSE {"undo"})
      /\ astray \subseteq Causes /\ start \in Nat
  BY DEF Shown, IInv, TypeOK, Causes
<1>2. /\ astray' \subseteq Causes
      /\ "vi" \in astray' => "vi" \in astray
      /\ Calm' <=> Calm
      /\ astray' \subseteq {"output"} => command' = <<>> /\ start = Len(text')
  BY <1>1 DEF Calm, Disturbed, Causes
<1>3. Alike \subseteq Seq(Symbol)
  BY DEF Alike
<1>4. text' \in Seq(Symbol) /\ Len(text') \in Nat
  BY <1>3, LenProperties
<1>5. past' \in Seq(Seq(Symbol)) /\ future' \in Seq(Seq(Symbol))
  BY <1>3, SeqMonotonic
<1>6. Buffered'
  BY <1>1, <1>4, <1>5 DEF Buffered
<1>7. /\ DOMAIN past' = 1..Len(past') /\ DOMAIN future' = 1..Len(future')
      /\ \A k \in 1..Len(past') : past'[k] \in Alike
      /\ \A k \in 1..Len(future') : future'[k] \in Alike
  BY LenProperties, ElementOfSeq
<1>8. FrontKept'
  <2> SUFFICES ASSUME Calm
               PROVE  /\ Behind(text', text', start)
                      /\ \A k \in DOMAIN past' : Behind(past'[k], text', start)
                      /\ \A k \in DOMAIN future' : Behind(future'[k], text', start)
    BY <1>2 DEF FrontKept
  <2>1. \A u \in Alike : Behind(u, text, start)
    BY DEF Alike
  <2>2. \A u : Behind(u, text, start) => Behind(u, text', start)
    BY <2>1 DEF Behind
  <2>3. \A u \in Alike : Behind(u, text', start)
    BY <2>1, <2>2
  <2>4. QED
    BY <1>7, <2>3
<1>9. OutputStays
  BY DEF OutputStays, Alike
<1>10. Agree'
  <2>1. command' = <<>> => Len(command') = 0
    OBVIOUS
  <2>2. QED
    BY <1>1, <1>2, <1>4, <2>1 DEF Agree, Agreed
<1>11. QED
  BY <1>2, <1>6, <1>8, <1>9, <1>10

\* Undo: to a text that has what is in front of the command, without a command.
LEMMA UndoStep ==
  ASSUME IInv, Undone, start' = start, caret' \in 0..Len(text')
  PROVE  /\ Buffered' /\ FrontKept' /\ OutputStays /\ Agree'
         /\ command' \in Seq(Symbol) /\ astray' \subseteq Causes
         /\ "vi" \in astray' => "vi" \in astray
<1>1. Shown /\ command' = <<>> /\ command' \in Seq(Symbol)
  BY DEF Undone
<1>2. text \in Alike /\ past \in Seq(Alike) /\ future \in Seq(Alike)
  BY HistoryAlike
<1>3. text' \in Alike /\ past' \in Seq(Alike) /\ future' \in Seq(Alike)
  <2>1. CASE past = <<>>
    BY <1>2, <2>1 DEF Undone
  <2>2. CASE past # <<>>
    <3>1. PICK k \in DOMAIN past :
            /\ text' = past[k] /\ past' = SubSeq(past, 1, k - 1)
            /\ future' = SubSeq(past, k + 1, Len(past)) \o <<text>> \o future
      BY <2>2 DEF Undone
    <3>2. Len(past) \in Nat /\ k \in 1..Len(past)
      BY <1>2, LenProperties
    <3>3. text' \in Alike
      BY <1>2, <3>1, <3>2, ElementOfSeq
    <3>4. past' \in Seq(Alike)
      BY <1>2, <3>1, <3>2, PartOf
    <3> DEFINE b == SubSeq(past, k + 1, Len(past))
    <3>5. b \in Seq(Alike)
      BY <1>2, <3>2, PartOf
    <3> HIDE DEF b
    <3>6. <<text>> \in Seq(Alike)
      BY <1>2
    <3>7. b \o <<text>> \in Seq(Alike)
      BY <3>5, <3>6, ConcatProperties
    <3>8. b \o <<text>> \o future \in Seq(Alike)
      BY <1>2, <3>7, ConcatProperties
    <3>9. QED
      BY <3>1, <3>3, <3>4, <3>8 DEF b
  <2>3. QED
    BY <2>1, <2>2
<1>4. QED
  BY <1>1, <1>3, AlikeStep

-----------------------------------------------------------------------------
(* The keys that change the text.                                          *)

\* A key of the command, which may be one that the text has differently.
LEMMA KeyTyped ==
  ASSUME IInv, NEW p \in Nat, p <= Len(text), NEW c \in Symbol,
         NEW d \in Symbol, Look(c) = Look(d), NEW a,
         Inside(p) => "edited" \in a,
         a \subseteq {"output"} => a = astray /\ start <= p
  PROVE  With(d, p) \in Seq(Symbol)
         /\ Agreed(a, InsertedAt(text, p, <<c>>), With(d, p), start)
<1> DEFINE index == p - start
<1>1. /\ text \in Seq(Symbol) /\ command \in Seq(Symbol) /\ start \in Nat
      /\ Len(text) \in Nat /\ Len(command) \in Nat
      /\ <<c>> \in Seq(Symbol) /\ <<d>> \in Seq(Symbol)
      /\ Len(<<c>>) = 1 /\ Len(<<d>>) = 1
      /\ \A i \in 1..1 : Look(<<c>>[i]) = Look(<<d>>[i])
  BY LenProperties DEF IInv, TypeOK
<1>2. index \in Int
  BY <1>1
<1>3. Append(command, d) = command \o <<d>> /\ command \o <<d>> \in Seq(Symbol)
  BY <1>1, AppendIsConcat, Longer
<1>4. With(d, p) = IF p < Len(text) /\ index \in 0..(Len(command) - 1)
                   THEN InsertedAt(command, index, <<d>>) ELSE Append(command, d)
  BY DEF With
<1> HIDE DEF index
<1>5. With(d, p) \in Seq(Symbol)
  <2>1. CASE p < Len(text) /\ index \in 0..(Len(command) - 1)
    <3>1. index \in Nat /\ index <= Len(command)
      BY <1>1, <1>2, <2>1
    <3>2. QED
      BY <1>1, <1>2, <1>4, <2>1, <3>1, Inserted
  <2>2. QED
    BY <1>3, <1>4, <2>1
<1>6. CASE ~(a \subseteq {"output"})
  BY <1>5, <1>6 DEF Agreed
<1>7. CASE a \subseteq {"output"}
  <2>1. a = astray /\ ~Inside(p) /\ start <= p
    BY <1>7
  <2>2. CASE p = Len(text)
    <3>1. With(d, p) = command \o <<d>>
      BY <1>1, <1>3, <1>4, <2>2
    <3>2. InsertedAt(text, p, <<c>>) = text \o <<c>>
      BY <1>1, <2>2, InsertedAtEnd
    <3>3. Agreed(a, text \o <<c>>, command \o <<d>>, start)
      <4>1. Agreed(a, text, command, start)
        BY <2>1 DEF IInv, Agree
      <4>2. Len(<<c>>) = Len(<<d>>) /\ \A i \in 1..Len(<<c>>) : Look(<<c>>[i]) = Look(<<d>>[i])
        BY <1>1
      <4>3. QED
        BY <1>1, <4>1, <4>2, AgreedAppended
    <3>4. QED
      BY <1>5, <3>1, <3>2, <3>3
  <2>3. CASE p < Len(text)
    <3>1. astray = {} /\ Agreed({}, text, command, start)
      BY <2>1, <2>3 DEF Inside, IInv, Agree
    <3>2. Len(text) - start = Len(command)
      BY <1>1, <3>1, AgreedSame
    <3>3. index \in 0..(Len(command) - 1)
      BY <1>1, <2>1, <2>3, <3>2 DEF index
    <3>4. With(d, p) = InsertedAt(command, p - start, <<d>>)
      BY <1>4, <2>3, <3>3 DEF index
    <3>5. Agreed({}, InsertedAt(text, p, <<c>>), InsertedAt(command, p - start, <<d>>), start)
      <4>1. Len(<<c>>) = Len(<<d>>) /\ \A i \in 1..Len(<<c>>) : Look(<<c>>[i]) = Look(<<d>>[i])
        BY <1>1
      <4>2. QED
        BY <1>1, <2>1, <3>1, <4>1, AgreedInserted
    <3>6. QED
      BY <1>5, <2>1, <3>1, <3>4, <3>5
  <2>4. QED
    BY <1>1, <2>2, <2>3
<1>8. QED
  BY <1>6, <1>7

\* A step that edits the text behind the prompt keeps the invariant, if the
\* command is edited alike, and one that edits the output is told by astray.
LEMMA EditedStep ==
  ASSUME IInv, NEW t \in Seq(Symbol), NEW pos \in 0..Len(t), Edited(t, pos),
         Calm' => Behind(t, text, start), Agreed(astray', t, command', start),
         command' \in Seq(Symbol), astray' \subseteq Causes, astray \subseteq astray',
         browsed' \in Nat \ {0}, listed' \in BOOLEAN,
         n' \in [keys : Nat, output : Nat],
         UNCHANGED <<setup, start, commands, enabled, running>>,
         "vi" \in astray' => "vi" \in astray
  PROVE  IInv' /\ OutputStays
<1>1. Calm' => Calm
  BY DEF Calm
<1>2. Buffered' /\ FrontKept'
  BY <1>1, EditStep
<1>3. text' = t
  BY DEF Edited
<1>4. Agree'
  BY <1>3 DEF Agree
<1>5. TypeOK'
  BY <1>2 DEF TypeOK, Buffered, IInv, Causes
<1>6. ViOnly'
  BY DEF ViOnly, IInv
<1>7. OutputStays
  BY <1>3 DEF OutputStays, Calm
<1>8. QED
  BY <1>2, <1>4, <1>5, <1>6, <1>7 DEF IInv

\* What a key finds.
LEMMA Found ==
  ASSUME IInv
  PROVE  /\ text \in Seq(Symbol) /\ command \in Seq(Symbol)
         /\ commands \in Seq(Seq(Symbol)) /\ End(commands) \in Nat \ {0}
         /\ Len(text) \in Nat /\ Len(command) \in Nat /\ start \in Nat
         /\ caret \in Nat /\ caret <= Len(text) /\ browsed \in Nat \ {0}
         /\ astray \subseteq Causes /\ enabled \in BOOLEAN /\ listed \in BOOLEAN
         /\ running \in BOOLEAN /\ n \in [keys : Nat, output : Nat]
         /\ Agreed(astray, text, command, start)
<1>1. commands \in Seq(Seq(Symbol)) /\ Len(commands) \in Nat
  BY LenProperties DEF IInv, TypeOK
<1>2. text \in Seq(Symbol) /\ Len(text) \in Nat /\ caret \in 0..Len(text)
  BY LenProperties DEF IInv, TypeOK
<1>3. End(commands) \in Nat \ {0}
  BY <1>1 DEF End
<1>4. command \in Seq(Symbol) /\ Len(command) \in Nat
  BY LenProperties DEF IInv, TypeOK
<1>5. caret \in Nat /\ caret <= Len(text)
  BY <1>2
<1>6. QED
  BY <1>1, <1>2, <1>3, <1>4, <1>5 DEF IInv, TypeOK, Agree, Causes

\* A text with something in it, behind the prompt or not.
LEMMA TextInserted ==
  ASSUME IInv, NEW p \in Nat, p <= Len(text), NEW s \in Seq(Symbol)
  PROVE  /\ InsertedAt(text, p, s) \in Seq(Symbol)
         /\ Len(InsertedAt(text, p, s)) = Len(text) + Len(s)
         /\ start <= p => Behind(InsertedAt(text, p, s), text, start)
<1>1. text \in Seq(Symbol) /\ start \in Nat
  BY Found
<1>2. /\ InsertedAt(text, p, s) \in Seq(Symbol)
      /\ Len(InsertedAt(text, p, s)) = Len(text) + Len(s)
  BY <1>1, Inserted
<1>3. start <= p => Behind(InsertedAt(text, p, s), text, start)
  BY <1>1, BehindInserted
<1>4. QED
  BY <1>2, <1>3

\* Without a cause, what is inserted goes behind the prompt.
LEMMA InFrontTold ==
  ASSUME IInv, InFront \subseteq astray', Calm'
  PROVE  start <= caret
<1>1. caret < start => "front" \in astray'
  BY DEF InFront
<1>2. ~(caret < start)
  BY <1>1 DEF Calm
<1>3. QED
  BY <1>2, Found

\* What a key adds to the causes.
LEMMA CausesOfKey ==
  ASSUME IInv, NEW p \in Nat, NEW a \in SUBSET {"front"},
         astray' = astray \cup (IF Inside(p) THEN {"edited"} ELSE {}) \cup a
  PROVE  /\ astray \subseteq astray' /\ astray' \subseteq Causes
         /\ "vi" \in astray' => "vi" \in astray
         /\ Inside(p) => "edited" \in astray'
         /\ astray' \subseteq {"output"} => astray' = astray /\ Calm'
<1>1. astray \subseteq Causes
  BY Found
<1>2. /\ astray \subseteq astray' /\ astray' \subseteq Causes
      /\ Inside(p) => "edited" \in astray'
  BY <1>1 DEF Causes
<1>3. "vi" \in astray' => "vi" \in astray
  OBVIOUS
<1>4. astray' \subseteq {"output"} => astray' = astray /\ Calm'
  BY DEF Calm
<1>5. QED
  BY <1>2, <1>3, <1>4

\* A character, at the caret or at the end.
LEMMA TypeStep ==
  ASSUME IInv, NEW c \in Char, NEW shift \in BOOLEAN, Type(c, shift)
  PROVE  IInv' /\ OutputStays
<1> DEFINE p == IF shift THEN caret ELSE AtInput
           t == InsertedAt(text, p, <<c>>)
           a == IF shift THEN InFront ELSE {}
<1>1. /\ Key /\ Edited(t, p + 1) /\ command' = With(c, p)
      /\ browsed' = End(commands)
      /\ astray' = astray \cup (IF Inside(p) THEN {"edited"} ELSE {}) \cup a
      /\ UNCHANGED <<setup, start, commands, enabled, listed, running>>
  BY DEF Type
<1>2. p \in Nat /\ p <= Len(text)
  BY Found, FrontShown
<1>3. c \in Symbol /\ <<c>> \in Seq(Symbol) /\ Len(<<c>>) = 1
  BY Texts
<1>4. a \in SUBSET {"front"}
  BY DEF InFront
<1>5. Calm' => start <= p
  <2>1. CASE shift
    BY <1>1, <2>1, InFrontTold
  <2>2. CASE ~shift
    BY <1>1, <2>2, FrontShown DEF Calm
  <2>3. QED
    BY <2>1, <2>2
<1> HIDE DEF p, a
<1>6. /\ astray \subseteq astray' /\ astray' \subseteq Causes
      /\ "vi" \in astray' => "vi" \in astray
      /\ Inside(p) => "edited" \in astray'
      /\ astray' \subseteq {"output"} => astray' = astray /\ start <= p
  BY <1>1, <1>2, <1>4, <1>5, CausesOfKey
<1>7. With(c, p) \in Seq(Symbol) /\ Agreed(astray', t, With(c, p), start)
  BY <1>2, <1>3, <1>6, KeyTyped
<1>8. /\ t \in Seq(Symbol) /\ Len(t) = Len(text) + 1
      /\ Calm' => Behind(t, text, start)
  BY <1>2, <1>3, <1>5, TextInserted
<1>9. p + 1 \in 0..Len(t)
  BY <1>2, <1>8, Found
<1> HIDE DEF t
<1>10. /\ n' \in [keys : Nat, output : Nat] /\ command' \in Seq(Symbol)
       /\ Agreed(astray', t, command', start)
       /\ browsed' \in Nat \ {0} /\ listed' \in BOOLEAN
  BY <1>1, <1>7, Found, KeyCounted DEF IInv
<1>11. QED
  BY <1>1, <1>6, <1>8, <1>9, <1>10, EditedStep

\* A return without the command end.
LEMMA NewLineStep ==
  ASSUME IInv, NewLine
  PROVE  IInv' /\ OutputStays
<1> DEFINE t == InsertedAt(text, caret, <<"nl">>)
<1>1. /\ Key /\ Edited(t, caret + 1)
      /\ command' = With("cr", caret) /\ browsed' = End(commands)
      /\ astray' = astray \cup (IF Inside(caret) THEN {"edited"} ELSE {}) \cup InFront
      /\ UNCHANGED <<setup, start, commands, enabled, listed, running>>
  BY DEF NewLine, Entered
<1>2. caret \in Nat /\ caret <= Len(text)
  BY Found
<1>3. /\ "nl" \in Symbol /\ "cr" \in Symbol /\ Look("nl") = Look("cr")
      /\ <<"nl">> \in Seq(Symbol) /\ Len(<<"nl">>) = 1
  BY DEF Symbol, Look
<1>4. Calm' => start <= caret
  BY <1>1, InFrontTold
<1>5. InFront \in SUBSET {"front"}
  BY DEF InFront
<1>6. /\ astray \subseteq astray' /\ astray' \subseteq Causes
      /\ "vi" \in astray' => "vi" \in astray
      /\ Inside(caret) => "edited" \in astray'
      /\ astray' \subseteq {"output"} => astray' = astray /\ start <= caret
  BY <1>1, <1>2, <1>4, <1>5, CausesOfKey
<1>7. With("cr", caret) \in Seq(Symbol) /\ Agreed(astray', t, With("cr", caret), start)
  BY <1>2, <1>3, <1>6, KeyTyped
<1>8. /\ t \in Seq(Symbol) /\ Len(t) = Len(text) + 1
      /\ Calm' => Behind(t, text, start)
  BY <1>2, <1>3, <1>4, TextInserted
<1>9. caret + 1 \in 0..Len(t)
  BY <1>2, <1>8, Found
<1> HIDE DEF t
<1>10. /\ n' \in [keys : Nat, output : Nat] /\ command' \in Seq(Symbol)
       /\ Agreed(astray', t, command', start)
       /\ browsed' \in Nat \ {0} /\ listed' \in BOOLEAN
  BY <1>1, <1>7, Found, KeyCounted DEF IInv
<1>11. QED
  BY <1>1, <1>6, <1>8, <1>9, <1>10, EditedStep

\* The delete command.
LEMMA DeleteStep ==
  ASSUME IInv, Delete
  PROVE  IInv' /\ OutputStays
<1> DEFINE t == RemoveAt(text, caret + 1)
<1>1. /\ Key /\ caret < Len(text) /\ Edited(t, caret)
      /\ astray' = astray \cup {"deleted"} \cup InFront
      /\ UNCHANGED <<setup, start, command, commands, browsed, enabled, listed, running>>
  BY DEF Delete
<1>2. caret + 1 \in Nat /\ 1 <= caret + 1 /\ caret + 1 <= Len(text)
  BY <1>1, Found
<1>3. t \in Seq(Symbol) /\ Len(t) = Len(text) - 1
  BY <1>2, Found, Removed
<1>4. caret \in 0..Len(t)
  BY <1>1, <1>3, Found
<1>5. Calm' => start <= caret
  BY <1>1, InFrontTold
<1>6. Calm' => Behind(t, text, start)
  <2>1. start <= caret => start < caret + 1
    BY Found
  <2>2. QED
    BY <1>2, <1>5, <2>1, Found, BehindRemoved
<1> HIDE DEF t
<1>7. Agreed(astray', t, command', start)
  BY <1>1 DEF Agreed
<1>8. /\ n' \in [keys : Nat, output : Nat] /\ command' \in Seq(Symbol)
      /\ browsed' \in Nat \ {0} /\ listed' \in BOOLEAN
  BY <1>1, Found, KeyCounted DEF IInv
<1>9. /\ astray \subseteq astray' /\ astray' \subseteq Causes
      /\ "vi" \in astray' => "vi" \in astray
  BY <1>1, Found DEF Causes, InFront
<1>10. QED
  BY <1>1, <1>3, <1>4, <1>6, <1>7, <1>8, <1>9, EditedStep

\* Backspace and delete.
LEMMA EraseStep ==
  ASSUME IInv, NEW back \in BOOLEAN, Erase(back)
  PROVE  IInv' /\ OutputStays
<1> DEFINE at == IF back THEN caret ELSE caret + 1
           index == at - start
           t == RemoveAt(text, at)
<1>1. /\ Key /\ caret > start
      /\ IF at <= Len(text) THEN Edited(t, at - 1)
         ELSE UNCHANGED <<text, caret, past, future>>
      /\ command' = IF index \in DOMAIN command THEN RemoveAt(command, index) ELSE command
      /\ astray' = IF astray # {} THEN astray \cup {"edited"} ELSE astray
      /\ UNCHANGED <<setup, start, commands, browsed, enabled, listed, running>>
  BY DEF Erase
<1>2. at \in Nat /\ start < at /\ 1 <= at /\ at <= Len(text) + 1
  BY <1>1, Found
<1>3. DOMAIN command = 1..Len(command) /\ index \in Int
  BY <1>2, Found
<1> HIDE DEF at
<1>4. /\ n' \in [keys : Nat, output : Nat] /\ browsed' \in Nat \ {0}
      /\ listed' \in BOOLEAN
  BY <1>1, Found, KeyCounted DEF IInv
<1>5. /\ astray \subseteq astray' /\ astray' \subseteq Causes
      /\ "vi" \in astray' => "vi" \in astray
      /\ astray' \subseteq {"output"} => astray = {} /\ astray' = {}
  BY <1>1, Found DEF Causes
<1>6. command' \in Seq(Symbol)
  <2>1. CASE index \in DOMAIN command
    <3>1. index \in Nat /\ 1 <= index /\ index <= Len(command)
      BY <1>3, <2>1, Found
    <3> HIDE DEF index
    <3>2. RemoveAt(command, index) \in Seq(Symbol)
      BY <3>1, Found, Removed
    <3>3. QED
      BY <1>1, <2>1, <3>2
  <2>2. QED
    BY <1>1, <2>1, Found
<1>7. CASE at <= Len(text)
  <2>1. t \in Seq(Symbol) /\ Len(t) = Len(text) - 1
    BY <1>2, <1>7, Found, Removed
  <2>2. Behind(t, text, start)
    BY <1>2, <1>7, Found, BehindRemoved
  <2>3. at - 1 \in 0..Len(t)
    BY <1>2, <1>7, <2>1, Found
  <2>4. Agreed(astray', t, command', start)
    <3>1. CASE ~(astray' \subseteq {"output"})
      BY <3>1 DEF Agreed
    <3>2. CASE astray' \subseteq {"output"}
      <4>1. astray = {} /\ astray' = {} /\ Agreed({}, text, command, start)
        BY <1>5, <3>2, Found
      <4>2. Len(text) - start = Len(command)
        BY <4>1, Found, AgreedSame
      <4>3. index \in DOMAIN command
        BY <1>2, <1>3, <1>7, <4>2, Found
      <4>4. Agreed({}, t, RemoveAt(command, index), start)
        BY <1>2, <1>7, <4>1, Found, AgreedRemoved
      <4>5. QED
        BY <1>1, <4>1, <4>3, <4>4
    <3>3. QED
      BY <3>1, <3>2
  <2> HIDE DEF t, index
  <2>5. QED
    BY <1>1, <1>4, <1>5, <1>6, <1>7, <2>1, <2>2, <2>3, <2>4, EditedStep
<1>8. CASE ~(at <= Len(text))
  <2>1. UNCHANGED buffer
    BY <1>1, <1>8 DEF buffer
  <2>2. Buffered' /\ FrontKept' /\ OutputStays
    BY <1>5, <2>1, StayStep DEF Calm
  <2>3. Agree'
    <3>1. CASE ~(astray' \subseteq {"output"})
      BY <3>1 DEF Agree, Agreed
    <3>2. CASE astray' \subseteq {"output"}
      <4>1. astray = {} /\ astray' = {} /\ Agreed({}, text, command, start)
        BY <1>5, <3>2, Found
      <4>2. Len(text) - start = Len(command)
        BY <4>1, Found, AgreedSame
      <4>3. index \notin DOMAIN command
        BY <1>2, <1>3, <1>8, <4>2, Found
      <4>4. command' = command /\ text' = text /\ start' = start
        BY <1>1, <1>8, <4>3
      <4>5. QED
        BY <4>1, <4>4 DEF Agree
    <3>3. QED
      BY <3>1, <3>2
  <2>4. TypeOK'
    BY <1>1, <1>4, <1>5, <1>6, <2>2 DEF IInv, TypeOK, Buffered, Causes
  <2>5. ViOnly'
    BY <1>1, <1>5 DEF IInv, ViOnly
  <2>6. QED
    BY <2>2, <2>3, <2>4, <2>5 DEF IInv
<1>9. QED
  BY <1>7, <1>8

\* What the clipboard has, at the caret or at the end.
LEMMA PasteStep ==
  ASSUME IInv, NEW s \in Clips, Paste(s)
  PROVE  IInv' /\ OutputStays
<1> DEFINE p == AtInput
           t == InsertedAt(text, p, s)
<1>1. /\ Key /\ Edited(t, p + Len(s)) /\ command' = command \o s
      /\ browsed' \in {browsed, End(commands)}
      /\ astray' = IF p < Len(text) THEN astray \cup {"inside"} ELSE astray
      /\ UNCHANGED <<setup, start, commands, enabled, listed, running>>
  BY DEF Paste
<1>2. p \in Nat /\ p <= Len(text) /\ (Calm => start <= p)
  BY FrontShown
<1>3. s \in Seq(Symbol) /\ Len(s) \in Nat
  BY Texts, LenProperties
<1> HIDE DEF p
<1>4. /\ t \in Seq(Symbol) /\ Len(t) = Len(text) + Len(s)
      /\ Calm' => Behind(t, text, start)
  <2>1. Calm' => Calm
    BY <1>1 DEF Calm
  <2>2. QED
    BY <1>2, <1>3, <2>1, TextInserted
<1>5. p + Len(s) \in 0..Len(t)
  BY <1>2, <1>3, <1>4, Found
<1>6. Agreed(astray', t, command', start)
  <2>1. CASE p < Len(text)
    BY <1>1, <2>1 DEF Agreed
  <2>2. CASE p = Len(text)
    <3>1. t = text \o s
      BY <1>3, <2>2, Found, InsertedAtEnd
    <3>2. astray' = astray
      BY <1>1, <1>2, <2>2
    <3>3. Agreed(astray, text \o s, command \o s, start)
      BY <1>3, Found, AgreedAppended
    <3>4. QED
      BY <1>1, <3>1, <3>2, <3>3
  <2>3. QED
    BY <1>2, <2>1, <2>2, Found
<1> HIDE DEF t
<1>7. /\ n' \in [keys : Nat, output : Nat] /\ command' \in Seq(Symbol)
      /\ browsed' \in Nat \ {0} /\ listed' \in BOOLEAN
  BY <1>1, <1>3, Found, Longer, KeyCounted DEF IInv
<1>8. /\ astray \subseteq astray' /\ astray' \subseteq Causes
      /\ "vi" \in astray' => "vi" \in astray
  BY <1>1, Found DEF Causes
<1>9. QED
  BY <1>1, <1>4, <1>5, <1>6, <1>7, <1>8, EditedStep

-----------------------------------------------------------------------------
(* Return.                                                                 *)

\* The lines of output are text.
LEMMA LinesAreText ==
  ASSUME NEW k \in Nat
  PROVE  Lines(k) \in Seq(Symbol)
<1>1. 2 * k \in Nat /\ "nl" \in Symbol /\ "o" \in Symbol
  BY DEF Symbol
<1>2. \A i \in 1..(2 * k) : (IF i % 2 = 1 THEN "nl" ELSE "o") \in Symbol
  BY <1>1
<1> DEFINE e(i) == IF i % 2 = 1 THEN "nl" ELSE "o"
<1>3. \A i \in 1..(2 * k) : e(i) \in Symbol
  BY <1>2
<1> HIDE DEF e
<1>4. [i \in 1..(2 * k) |-> e(i)] \in Seq(Symbol)
  BY <1>1, <1>3, IsASeq
<1>5. QED
  BY <1>4 DEF e, Lines

\* A prompt is appended.
LEMMA PromptStep ==
  ASSUME IInv, NEW s \in Seq(Symbol), Prompted(s)
  PROVE  Buffered' /\ FrontKept' /\ OutputStays /\ start' = Len(text')
<1> DEFINE w == <<"nl", ">">>
           r == s \o w
<1>1. w \in Seq(Symbol)
  BY DEF Symbol
<1>2. r \in Seq(Symbol)
  BY <1>1, Longer
<1>3. text' = text \o r
  <2>1. text' = (text \o s) \o w
    BY DEF Prompted
  <2> HIDE DEF w
  <2>2. text \in Seq(Symbol)
    BY Found
  <2>3. (text \o s) \o w = text \o (s \o w)
    BY <1>1, <2>2, ConcatAssociative
  <2>4. QED
    BY <2>1, <2>3
<1>4. start' = Len(text') /\ caret' = Len(text') /\ Forgotten
  BY DEF Prompted
<1> HIDE DEF r
<1>5. text' \in Seq(Symbol) /\ Len(text') \in Nat
  BY <1>2, <1>3, Found, Longer, LenProperties
<1>6. caret' \in 0..Len(text')
  BY <1>4, <1>5
<1>7. QED
  BY <1>2, <1>3, <1>4, <1>6, AppendStep

\* Output is appended.
LEMMA AppendedStep ==
  ASSUME IInv, NEW s \in Seq(Symbol), Appended(s)
  PROVE  Buffered' /\ FrontKept' /\ OutputStays /\ start' = Len(text')
<1>1. text' = text \o s /\ start' = Len(text') /\ Forgotten
  BY DEF Appended
<1>2. Len(text') = Len(text) + Len(s) /\ Len(s) \in Nat
  BY <1>1, Found, Longer, LenProperties
<1>3. caret' \in 0..Len(text')
  <2>1. caret' = Len(text') \/ caret' = caret
    BY DEF Appended
  <2>2. QED
    BY <1>2, <2>1, Found
<1>4. QED
  BY <1>1, <1>3, AppendStep

\* What is sent: the text grows, or stays without an undo history.
LEMMA SentStep ==
  ASSUME IInv, NEW s \in Seq(Symbol), Sent(s),
         Calm' => Calm \/ start' = Len(text')
  PROVE  /\ Buffered' /\ FrontKept' /\ OutputStays
         /\ running \/ setup.parent => start' = Len(text')
<1>1. CASE running
  <2>1. <<"nl">> \in Seq(Symbol)
    BY DEF Symbol
  <2>2. s \o <<"nl">> \in Seq(Symbol)
    BY <2>1, Longer
  <2>3. Appended(s \o <<"nl">>)
    BY <1>1 DEF Sent
  <2>4. QED
    BY <2>2, <2>3, AppendedStep
<1>2. CASE ~running /\ setup.parent
  <2>1. <<"nl", "o">> \in Seq(Symbol)
    BY DEF Symbol
  <2>2. s \o <<"nl", "o">> \in Seq(Symbol)
    BY <2>1, Longer
  <2>3. Prompted(s \o <<"nl", "o">>)
    BY <1>2 DEF Sent
  <2>4. QED
    BY <2>2, <2>3, PromptStep
<1>3. CASE ~running /\ ~setup.parent /\ s # <<>>
  <2>1. Appended(s)
    BY <1>3 DEF Sent
  <2>2. QED
    BY <1>3, <2>1, AppendedStep
<1>4. CASE ~running /\ ~setup.parent /\ s = <<>>
  <2>1. past' = <<>> /\ future' = <<>> /\ UNCHANGED <<text, caret, start>>
    BY <1>4 DEF Sent, Forgotten
  <2>2. Calm => start <= Len(text)
    BY FrontShown
  <2>3. Buffered'
    BY <2>1 DEF IInv, TypeOK, Buffered
  <2>4. FrontKept'
    <3>1. Calm' => start' <= Len(text')
      BY <2>1, <2>2, Found
    <3>2. DOMAIN past' = {} /\ DOMAIN future' = {}
      BY <2>1
    <3>3. QED
      BY <3>1, <3>2 DEF FrontKept, Behind
  <2>5. OutputStays
    BY <2>1, <2>2 DEF OutputStays, Behind
  <2>6. QED
    BY <1>4, <2>3, <2>4, <2>5
<1>5. QED
  BY <1>1, <1>2, <1>3, <1>4

\* The command is sent.
LEMMA ClearedStep ==
  ASSUME Cleared, Buffered'
  PROVE  /\ Agree' /\ command' \in Seq(Symbol) /\ astray' \subseteq Causes
         /\ "vi" \in astray' => "vi" \in astray
<1>1. /\ command' = <<>> /\ Len(command') = 0 /\ command' \in Seq(Symbol)
      /\ astray' = IF start' = Len(text') THEN {} ELSE Disturbed \cup {"unprompted"}
  BY DEF Cleared
<1>2. start' \in Nat /\ Len(text') \in Nat
  BY LenProperties DEF Buffered
<1>3. Agree'
  <2>1. CASE start' = Len(text')
    BY <1>1, <1>2, <2>1 DEF Agree, Agreed
  <2>2. CASE start' # Len(text')
    <3>1. ~(astray' \subseteq {"output"})
      BY <1>1, <2>2
    <3>2. QED
      BY <3>1 DEF Agree, Agreed
  <2>3. QED
    BY <2>1, <2>2
<1>4. QED
  BY <1>1, <1>3 DEF Causes, Disturbed

\* What was done in the output stays known, if nothing is appended.
LEMMA ClearedCalm ==
  ASSUME Cleared
  PROVE  Calm' => Calm \/ start' = Len(text')
BY DEF Cleared, Calm, Disturbed

\* The history grows by the command, without what is around it.
LEMMA KeptStep ==
  ASSUME IInv, NEW c \in Seq(Symbol), Kept(c)
  PROVE  commands' \in Seq(Seq(Symbol)) /\ browsed' \in Nat \ {0}
<1> DEFINE solid == {i \in DOMAIN c : c[i] # "cr"}
<1>1. Len(c) \in Nat /\ DOMAIN c = 1..Len(c) /\ solid \in SUBSET (1..Len(c))
  BY LenProperties
<1>2. Trimmed(c) = IF setup.end = "eol" \/ solid = {} THEN c
                   ELSE SubSeq(c, Min(solid), Max(solid))
  BY DEF Trimmed
<1> HIDE DEF solid
<1>3. Trimmed(c) \in Seq(Symbol)
  <2>1. CASE solid # {}
    <3>1. Min(solid) \in 1..Len(c) /\ Max(solid) \in 1..Len(c)
      BY <1>1, <2>1, MinFound, MaxFound
    <3>2. /\ Min(solid) \in Nat \ {0} /\ Max(solid) \in Int
          /\ Max(solid) <= Len(c)
      BY <1>1, <3>1
    <3>3. SubSeq(c, Min(solid), Max(solid)) \in Seq(Symbol)
      BY <3>2, PartOf
    <3>4. QED
      BY <1>2, <3>3
  <2>2. QED
    BY <1>2, <2>1
<1>4. commands' \in Seq(Seq(Symbol))
  BY <1>3, Found, AppendProperties DEF Kept
<1>5. Len(commands') \in Nat
  BY <1>4, LenProperties
<1>6. QED
  BY <1>4, <1>5 DEF Kept, End

\* A return that ends with the invariant, if no command is left.
LEMMA ReturnStep ==
  ASSUME IInv, Entered, Buffered', FrontKept', Agree', command' \in Seq(Symbol),
         astray' \subseteq Causes, "vi" \in astray' => "vi" \in astray,
         commands' \in Seq(Seq(Symbol)), browsed' \in Nat \ {0}
  PROVE  IInv'
<1>1. Key /\ UNCHANGED <<setup, enabled, listed, running>>
  BY DEF Entered
<1>2. n' \in [keys : Nat, output : Nat]
  BY <1>1, KeyCounted DEF IInv
<1>3. TypeOK'
  BY <1>1, <1>2 DEF IInv, TypeOK, Buffered, Causes
<1>4. ViOnly'
  BY <1>1 DEF IInv, ViOnly
<1>5. QED
  BY <1>3, <1>4 DEF IInv

\* A return without a command.
LEMMA SendEmptyStep ==
  ASSUME IInv, SendEmpty
  PROVE  IInv' /\ OutputStays
<1>1. /\ Entered /\ command = <<>>
      /\ UNCHANGED <<command, commands>>
      /\ browsed' = End(commands)
  BY DEF SendEmpty
<1>2. /\ commands' \in Seq(Seq(Symbol)) /\ browsed' \in Nat \ {0}
      /\ command' \in Seq(Symbol) /\ command' = <<>> /\ Len(command') = 0
  BY <1>1, Found
<1>3. CASE running \/ setup.parent
  <2>1. Sent(<<>>) /\ astray' = {} /\ <<>> \in Seq(Symbol)
    BY <1>3 DEF SendEmpty
  <2>2. Buffered' /\ FrontKept' /\ OutputStays /\ start' = Len(text')
    <3>1. start' = Len(text')
      BY <1>3, <2>1 DEF Sent, Appended, Prompted
    <3>2. QED
      BY <2>1, <3>1, SentStep
  <2>3. start' \in Nat /\ Len(text') \in Nat
    BY <2>2, LenProperties DEF Buffered
  <2>4. Agree'
    BY <1>2, <2>2, <2>3 DEF Agree, Agreed
  <2>5. astray' \subseteq Causes /\ "vi" \notin astray'
    BY <2>1
  <2>6. QED
    BY <1>1, <1>2, <2>2, <2>4, <2>5, ReturnStep
<1>4. CASE ~(running \/ setup.parent)
  <2>1. UNCHANGED <<buffer, astray>>
    BY <1>4 DEF SendEmpty
  <2>2. Buffered' /\ FrontKept' /\ OutputStays
    BY <2>1, StayStep DEF Calm
  <2>3. Agree'
    BY <1>1, <2>1 DEF IInv, Agree, buffer
  <2>4. astray' \subseteq Causes /\ ("vi" \in astray' => "vi" \in astray)
    BY <2>1, Found
  <2>5. QED
    BY <1>1, <1>2, <2>2, <2>3, <2>4, ReturnStep
<1>5. QED
  BY <1>3, <1>4

\* A return with a command.
LEMMA SendStep ==
  ASSUME IInv, Send
  PROVE  IInv' /\ OutputStays
<1>1. Entered /\ Kept(command) /\ Sent(<<>>) /\ Cleared
  BY DEF Send
<1>2. <<>> \in Seq(Symbol)
  OBVIOUS
<1>3. Buffered' /\ FrontKept' /\ OutputStays
  BY <1>1, <1>2, ClearedCalm, SentStep
<1>4. commands' \in Seq(Seq(Symbol)) /\ browsed' \in Nat \ {0}
  BY <1>1, Found, KeptStep
<1>5. /\ Agree' /\ command' \in Seq(Symbol) /\ astray' \subseteq Causes
      /\ "vi" \in astray' => "vi" \in astray
  BY <1>1, <1>3, ClearedStep
<1>6. QED
  BY <1>1, <1>3, <1>4, <1>5, ReturnStep

\* The command history.
LEMMA ShowHistoryStep ==
  ASSUME IInv, ShowHistory
  PROVE  IInv' /\ OutputStays
<1>1. Entered /\ Kept(command) /\ Prompted(Lines(Len(commands'))) /\ Cleared
  BY DEF ShowHistory
<1>2. commands' \in Seq(Seq(Symbol)) /\ browsed' \in Nat \ {0}
  BY <1>1, Found, KeptStep
<1>3. Len(commands') \in Nat
  BY <1>2, LenProperties
<1>4. Lines(Len(commands')) \in Seq(Symbol)
  BY <1>3, LinesAreText
<1>5. Buffered' /\ FrontKept' /\ OutputStays
  BY <1>1, <1>4, PromptStep
<1>6. /\ Agree' /\ command' \in Seq(Symbol) /\ astray' \subseteq Causes
      /\ "vi" \in astray' => "vi" \in astray
  BY <1>1, <1>5, ClearedStep
<1>7. QED
  BY <1>1, <1>2, <1>5, <1>6, ReturnStep

\* What is asked for is a command of the history, or nothing.
LEMMA AskedIsText ==
  ASSUME IInv
  PROVE  Asked \in Seq(Symbol)
<1> DEFINE short == SubSeq(command, 2, Len(command))
           from  == SubSeq(short, 1, Len(short) - Len(EndText))
           those == IF short # <<>> /\ Head(short) = "1" THEN {1} \cap DOMAIN commands
                    ELSE {i \in DOMAIN commands : IsPrefix(from, commands[i])}
<1>1. DOMAIN commands = 1..Len(commands) /\ Len(commands) \in Nat
  BY Found, LenProperties
<1>2. those \in SUBSET (1..Len(commands))
  BY <1>1
<1>3. Asked = IF those = {} THEN <<>> ELSE commands[Max(those)]
  BY DEF Asked
<1> HIDE DEF those
<1>4. CASE those # {}
  <2>1. Max(those) \in 1..Len(commands)
    BY <1>1, <1>2, <1>4, MaxFound
  <2>2. commands[Max(those)] \in Seq(Symbol)
    BY <2>1, Found, ElementOfSeq
  <2>3. QED
    BY <1>3, <1>4, <2>2
<1>5. QED
  BY <1>3, <1>4

\* A command from the history.
LEMMA SendFromHistoryStep ==
  ASSUME IInv, SendFromHistory
  PROVE  IInv' /\ OutputStays
<1>1. Entered /\ Cleared
  BY DEF SendFromHistory
<1>2. /\ Buffered' /\ FrontKept' /\ OutputStays
      /\ commands' \in Seq(Seq(Symbol)) /\ browsed' \in Nat \ {0}
  <2>1. CASE Asked # <<>>
    <3>1. Kept(Asked) /\ Sent(<<"nl">> \o Asked)
      BY <2>1 DEF SendFromHistory
    <3>2. Asked \in Seq(Symbol) /\ <<"nl">> \in Seq(Symbol)
      BY AskedIsText DEF Symbol
    <3>3. <<"nl">> \o Asked \in Seq(Symbol)
      BY <3>2, Longer
    <3>4. Buffered' /\ FrontKept' /\ OutputStays
      BY <1>1, <3>1, <3>3, ClearedCalm, SentStep
    <3>5. commands' \in Seq(Seq(Symbol)) /\ browsed' \in Nat \ {0}
      BY <3>1, <3>2, KeptStep
    <3>6. QED
      BY <3>4, <3>5
  <2>2. CASE Asked = <<>>
    <3>1. Prompted(<<"nl", "o">>) /\ browsed' = End(commands) /\ UNCHANGED commands
      BY <2>2 DEF SendFromHistory
    <3>2. <<"nl", "o">> \in Seq(Symbol)
      BY DEF Symbol
    <3>3. Buffered' /\ FrontKept' /\ OutputStays
      BY <3>1, <3>2, PromptStep
    <3>4. QED
      BY <3>1, <3>3, Found
  <2>3. QED
    BY <2>1, <2>2
<1>3. /\ Agree' /\ command' \in Seq(Symbol) /\ astray' \subseteq Causes
      /\ "vi" \in astray' => "vi" \in astray
  BY <1>1, <1>2, ClearedStep
<1>4. QED
  BY <1>1, <1>2, <1>3, ReturnStep

-----------------------------------------------------------------------------
(* Undo, the history and the names.                                        *)

\* What undo, the up and down keys and the names leave alone.
LEMMA OtherStep ==
  ASSUME IInv, Buffered', FrontKept', Agree', command' \in Seq(Symbol),
         astray' \subseteq Causes, "vi" \in astray' => "vi" \in astray,
         browsed' \in Nat \ {0}, listed' \in BOOLEAN, Key,
         UNCHANGED <<setup, commands, enabled, running>>
  PROVE  IInv'
<1>1. n' \in [keys : Nat, output : Nat]
  BY KeyCounted DEF IInv
<1>2. TypeOK'
  BY <1>1 DEF IInv, TypeOK, Buffered, Causes
<1>3. ViOnly'
  BY DEF IInv, ViOnly
<1>4. QED
  BY <1>2, <1>3 DEF IInv

\* Undo.
LEMMA UndoKeyStep ==
  ASSUME IInv, Undo
  PROVE  IInv' /\ OutputStays
<1>1. /\ Key /\ Undone /\ caret' \in 0..Len(text')
      /\ UNCHANGED <<setup, start, commands, browsed, enabled, listed, running>>
  BY DEF Undo
<1>2. /\ Buffered' /\ FrontKept' /\ OutputStays /\ Agree'
      /\ command' \in Seq(Symbol) /\ astray' \subseteq Causes
      /\ "vi" \in astray' => "vi" \in astray
  BY <1>1, UndoStep
<1>3. browsed' \in Nat \ {0} /\ listed' \in BOOLEAN
  BY <1>1, Found
<1>4. QED
  BY <1>1, <1>2, <1>3, OtherStep

\* Redo.
LEMMA RedoStep ==
  ASSUME IInv, Redo
  PROVE  IInv' /\ OutputStays
<1>1. /\ Key /\ Shown /\ caret' \in 0..Len(text')
      /\ UNCHANGED <<setup, start, command, commands, browsed, enabled, listed, running>>
  BY DEF Redo
<1>2. text \in Alike /\ past \in Seq(Alike) /\ future \in Seq(Alike)
  BY HistoryAlike
<1>3. PICK k \in DOMAIN future :
        /\ text' = future[k]
        /\ past' = past \o <<text>> \o SubSeq(future, 1, k - 1)
        /\ future' = SubSeq(future, k + 1, Len(future))
  BY DEF Redo
<1>4. Len(future) \in Nat /\ k \in 1..Len(future)
  BY <1>2, LenProperties
<1>5. text' \in Alike
  BY <1>2, <1>3, <1>4, ElementOfSeq
<1>6. past' \in Seq(Alike)
  <2> DEFINE b == SubSeq(future, 1, k - 1)
  <2>1. b \in Seq(Alike)
    BY <1>2, <1>4, PartOf
  <2> HIDE DEF b
  <2>2. <<text>> \in Seq(Alike)
    BY <1>2
  <2>3. past \o <<text>> \in Seq(Alike)
    BY <1>2, <2>2, ConcatProperties
  <2>4. past \o <<text>> \o b \in Seq(Alike)
    BY <2>1, <2>3, ConcatProperties
  <2>5. QED
    BY <1>3, <2>4 DEF b
<1>7. future' \in Seq(Alike)
  BY <1>2, <1>3, <1>4, PartOf
<1>8. /\ command' \in Seq(Symbol) /\ browsed' \in Nat \ {0}
      /\ listed' \in BOOLEAN
  BY <1>1, Found
<1>9. /\ Buffered' /\ FrontKept' /\ OutputStays /\ Agree'
      /\ astray' \subseteq Causes
      /\ "vi" \in astray' => "vi" \in astray
  BY <1>1, <1>5, <1>6, <1>7, <1>8, AlikeStep
<1>10. QED
  BY <1>1, <1>8, <1>9, OtherStep

\* The larger and the smaller of two.
LEMMA OfTwo ==
  ASSUME NEW a \in Int, NEW b \in Int
  PROVE  /\ Max({a, b}) \in {a, b} /\ Max({a, b}) >= a
         /\ Min({a, b}) \in {a, b}
<1>1. \E x \in {a, b} : \A y \in {a, b} : x >= y
  OBVIOUS
<1>2. \E x \in {a, b} : \A y \in {a, b} : x <= y
  OBVIOUS
<1>3. Max({a, b}) \in {a, b} /\ \A y \in {a, b} : Max({a, b}) >= y
  BY <1>1 DEF Max
<1>4. Min({a, b}) \in {a, b}
  BY <1>2 DEF Min
<1>5. QED
  BY <1>3, <1>4

\* A command of the history is shown behind the prompt.
LEMMA ShowStep ==
  ASSUME IInv, NEW c \in Seq(Symbol), Show(c), start' = start, start <= Len(text)
  PROVE  /\ Buffered' /\ FrontKept' /\ OutputStays /\ Agree'
         /\ command' \in Seq(Symbol) /\ astray' \subseteq Causes
         /\ "vi" \in astray' => "vi" \in astray
<1> DEFINE f == SubSeq(text, 1, start)
           t == f \o c
<1>1. start <= Len(text) /\ start \in Nat /\ text \in Seq(Symbol) /\ Len(text) \in Nat
  BY Found
<1>2. /\ Edited(t, start + Len(c)) /\ astray' = Disturbed
      /\ command' = c
  BY <1>1 DEF Show
<1>3. /\ f \in Seq(Symbol) /\ Len(f) = start
      /\ \A i \in 1..start : f[i] = text[i]
  <2>1. /\ f \in Seq(Symbol) /\ Len(f) = IF 1 <= start THEN start - 1 + 1 ELSE 0
        /\ \A i \in 1..(start - 1 + 1) : f[i] = text[1 + i - 1]
    BY <1>1, PartOf
  <2> HIDE DEF f
  <2>2. QED
    BY <1>1, <2>1
<1> HIDE DEF f
<1>4. /\ t \in Seq(Symbol) /\ Len(t) = start + Len(c) /\ Len(c) \in Nat
      /\ \A i \in 1..start : t[i] = f[i]
      /\ \A i \in 1..Len(c) : t[start + i] = c[i]
  BY <1>3, Longer, LenProperties
<1> HIDE DEF t
<1>5. Behind(t, text, start)
  BY <1>1, <1>3, <1>4 DEF Behind
<1>6. start + Len(c) \in 0..Len(t)
  BY <1>1, <1>4
<1>7. Buffered' /\ FrontKept'
  <2>1. Calm' => Calm /\ Behind(t, text, start)
    BY <1>2, <1>5 DEF Calm, Disturbed
  <2>2. QED
    BY <1>2, <1>4, <1>6, <2>1, EditStep
<1>8. text' = t
  BY <1>2 DEF Edited
<1>9. OutputStays
  BY <1>5, <1>8 DEF OutputStays
<1>10. Agree'
  <2>1. CASE ~(astray' \subseteq {"output"})
    BY <2>1 DEF Agree, Agreed
  <2>2. CASE astray' \subseteq {"output"}
    <3>1. astray' = {}
      BY <1>2, <2>2 DEF Disturbed
    <3>2. start <= Len(t) /\ Len(t) - start = Len(c)
      BY <1>1, <1>4
    <3>3. ASSUME NEW i \in (start + 1)..Len(t)
          PROVE  t[i] = c[i - start]
      <4> DEFINE j == i - start
      <4>1. j \in 1..Len(c) /\ i = start + j
        BY <1>1, <1>4
      <4> HIDE DEF j
      <4>2. t[i] = c[j]
        BY <1>4, <4>1
      <4>3. QED
        BY <4>2 DEF j
    <3>4. Agreed({}, t, c, start)
      BY <1>1, <1>4, <3>2, <3>3, AgreedSame
    <3>5. QED
      BY <1>2, <1>8, <3>1, <3>4 DEF Agree
  <2>3. QED
    BY <2>1, <2>2
<1>11. astray' \subseteq Causes /\ ("vi" \in astray' => "vi" \in astray)
  BY <1>2 DEF Causes, Disturbed
<1>12. QED
  BY <1>2, <1>7, <1>9, <1>10, <1>11

\* Or only asked for, when so much of the text was erased that there is no prompt.
LEMMA UnshownStep ==
  ASSUME IInv, NEW c \in Seq(Symbol), Show(c), start' = start, ~(start <= Len(text))
  PROVE  /\ Buffered' /\ FrontKept' /\ OutputStays /\ Agree'
         /\ command' \in Seq(Symbol) /\ astray' \subseteq Causes
         /\ "vi" \in astray' => "vi" \in astray
<1>1. command' = c /\ UNCHANGED <<text, caret, past, future, astray>>
  BY DEF Show
<1>2. ~Calm /\ UNCHANGED buffer
  BY <1>1, FrontShown DEF buffer
<1>3. Buffered' /\ FrontKept' /\ OutputStays
  BY <1>1, <1>2, StayStep DEF Calm
<1>4. Agree'
  BY <1>1, <1>2 DEF Agree, Agreed, Calm
<1>5. QED
  BY <1>1, <1>3, <1>4, Found

\* The up and the down key.
LEMMA ShowCommandStep ==
  ASSUME IInv, NEW up \in BOOLEAN, ShowCommand(up)
  PROVE  IInv' /\ OutputStays
<1>1. /\ Key
      /\ browsed' = IF up THEN Max({1, browsed - 1}) ELSE Min({End(commands), browsed + 1})
      /\ IF browsed' < End(commands) THEN Show(commands[browsed'])
         ELSE Undone /\ caret' = Len(text')
      /\ UNCHANGED <<setup, start, commands, enabled, listed, running>>
  BY DEF ShowCommand
<1>2. browsed' \in Nat \ {0}
  <2>1. /\ browsed - 1 \in Int /\ browsed + 1 \in Nat \ {0}
        /\ End(commands) \in Nat \ {0}
    BY Found
  <2>2. CASE up
    <3>1. Max({1, browsed - 1}) \in {1, browsed - 1} /\ Max({1, browsed - 1}) >= 1
      BY <2>1, OfTwo
    <3>2. QED
      BY <1>1, <2>1, <2>2, <3>1
  <2>3. CASE ~up
    <3> DEFINE e == End(commands)
               b == browsed + 1
    <3>1. e \in Nat \ {0} /\ b \in Nat \ {0}
      BY <2>1
    <3>2. browsed' = Min({e, b})
      BY <1>1, <2>3
    <3> HIDE DEF e, b
    <3>3. Min({e, b}) \in {e, b}
      BY <3>1, OfTwo
    <3>4. QED
      BY <3>1, <3>2, <3>3
  <2>4. QED
    BY <2>2, <2>3
<1>3. /\ Buffered' /\ FrontKept' /\ OutputStays /\ Agree'
      /\ command' \in Seq(Symbol) /\ astray' \subseteq Causes
      /\ "vi" \in astray' => "vi" \in astray
  <2>1. CASE browsed' < End(commands)
    <3>1. Len(commands) \in Nat
      BY Found, LenProperties
    <3>2. browsed' \in 1..Len(commands)
      BY <1>2, <2>1, <3>1 DEF End
    <3>3. commands[browsed'] \in Seq(Symbol)
      BY <3>2, Found, ElementOfSeq
    <3>4. QED
      BY <1>1, <2>1, <3>3, ShowStep, UnshownStep
  <2>2. CASE ~(browsed' < End(commands))
    <3>1. Undone /\ caret' = Len(text')
      BY <1>1, <2>2
    <3>2. CASE caret' \in 0..Len(text')
      BY <1>1, <3>1, <3>2, UndoStep
    <3>3. Len(text') \in Nat
      <4>1. text' = text \/ \E k \in DOMAIN past : text' = past[k]
        BY <3>1 DEF Undone
      <4>2. past \in Seq(Seq(Symbol)) /\ DOMAIN past = 1..Len(past)
        BY DEF IInv, TypeOK
      <4>3. text' \in Seq(Symbol)
        BY <4>1, <4>2, Found
      <4>4. QED
        BY <4>3, LenProperties
    <3>4. QED
      BY <3>1, <3>2, <3>3
  <2>3. QED
    BY <2>1, <2>2
<1>4. listed' \in BOOLEAN
  BY <1>1, Found
<1>5. QED
  BY <1>1, <1>2, <1>3, <1>4, OtherStep

\* The rest of a name.
LEMMA ExpandedStep ==
  ASSUME IInv, NEW f \in Files, Expanded(f), start' = start
  PROVE  /\ Buffered' /\ FrontKept' /\ OutputStays /\ Agree'
         /\ command' \in Seq(Symbol) /\ astray' = astray
<1> DEFINE rest == SubSeq(f, Len(command) + 1, Len(f))
<1>1. f \in Seq(Symbol) /\ Len(f) \in Nat
  BY Texts, LenProperties
<1>2. rest \in Seq(Symbol)
  <2>1. Len(command) + 1 \in Nat \ {0} /\ Len(f) \in Int /\ Len(f) <= Len(f)
    BY <1>1, Found
  <2>2. QED
    BY <1>1, <2>1, PartOf
<1>3. IF rest = <<>> THEN UNCHANGED <<text, caret, past, future, command, astray>>
      ELSE /\ Edited(text \o rest, Len(text) + Len(rest))
           /\ command' = command \o rest /\ UNCHANGED astray
  BY DEF Expanded
<1> HIDE DEF rest
<1>4. CASE rest = <<>>
  <2>1. UNCHANGED buffer /\ UNCHANGED <<command, astray>>
    BY <1>3, <1>4 DEF buffer
  <2>2. Agree'
    BY <2>1 DEF IInv, Agree, buffer
  <2>3. QED
    BY <2>1, <2>2, StayStep, Found DEF Calm
<1>5. CASE rest # <<>>
  <2> DEFINE t == text \o rest
  <2>1. Edited(t, Len(text) + Len(rest)) /\ command' = command \o rest /\ astray' = astray
    BY <1>3, <1>5
  <2>2. /\ t \in Seq(Symbol) /\ Len(t) = Len(text) + Len(rest) /\ Len(rest) \in Nat
        /\ \A i \in 1..Len(text) : t[i] = text[i]
    BY <1>2, Found, Longer, LenProperties
  <2>3. Agreed(astray, t, command \o rest, start)
    BY <1>2, Found, AgreedAppended
  <2>4. command' \in Seq(Symbol)
    BY <1>2, <2>1, Found, Longer
  <2> HIDE DEF t
  <2>5. Calm => Behind(t, text, start)
    <3> SUFFICES ASSUME Calm
                 PROVE  Behind(t, text, start)
      OBVIOUS
    <3>1. start <= Len(text) /\ start \in Nat /\ Len(text) \in Nat
      BY FrontShown, Found
    <3>2. start <= Len(t) /\ \A i \in 1..start : i \in 1..Len(text)
      BY <2>2, <3>1
    <3>3. QED
      BY <2>2, <3>2 DEF Behind
  <2>6. Len(text) + Len(rest) \in 0..Len(t)
    BY <2>2, Found
  <2>7. Buffered' /\ FrontKept'
    <3>1. Calm' => Calm
      BY <2>1 DEF Calm
    <3>2. QED
      BY <2>1, <2>2, <2>5, <2>6, <3>1, EditStep
  <2>8. text' = t
    BY <2>1 DEF Edited
  <2>9. OutputStays
    BY <2>5, <2>8 DEF OutputStays
  <2>10. Agree'
    BY <2>1, <2>3, <2>8 DEF Agree
  <2>11. QED
    BY <2>1, <2>4, <2>7, <2>9, <2>10
<1>6. QED
  BY <1>4, <1>5

\* The tab.
LEMMA ExpandStep ==
  ASSUME IInv, Expand
  PROVE  IInv' /\ OutputStays
<1>1. /\ Key
      /\ UNCHANGED <<setup, start, commands, browsed, enabled, running>>
  BY DEF Expand
<1>2. listed' \in BOOLEAN
  <2> DEFINE several == Cardinality(Matches) > 1
  <2>1. several \in BOOLEAN
    OBVIOUS
  <2>2. IF listed THEN listed' = FALSE ELSE listed' = several
    BY DEF Expand
  <2> HIDE DEF several
  <2>3. QED
    BY <2>1, <2>2
<1>3. /\ Buffered' /\ FrontKept' /\ OutputStays /\ Agree'
      /\ command' \in Seq(Symbol) /\ astray' = astray
  <2>1. CASE Matches # {} /\ ~listed'
    <3>1. PICK f \in Matches : Expanded(f)
      BY <2>1 DEF Expand
    <3>2. f \in Files
      BY DEF Matches
    <3>3. QED
      BY <1>1, <3>1, <3>2, ExpandedStep
  <2>2. CASE ~(Matches # {} /\ ~listed')
    <3>1. UNCHANGED <<text, caret, past, future, command, astray>>
      BY <2>2 DEF Expand
    <3>2. UNCHANGED buffer
      BY <1>1, <3>1 DEF buffer
    <3>3. Agree'
      BY <3>1, <3>2 DEF IInv, Agree, buffer
    <3>4. QED
      BY <3>1, <3>2, <3>3, StayStep, Found DEF Calm
  <2>3. QED
    BY <2>1, <2>2
<1>4. browsed' \in Nat \ {0} /\ astray' \subseteq Causes
  BY <1>1, <1>3, Found
<1>5. QED
  BY <1>1, <1>2, <1>3, <1>4, OtherStep

-----------------------------------------------------------------------------
(* The other steps.                                                        *)

\* vi deletes a character.
LEMMA ViEraseStep ==
  ASSUME IInv, ViErase
  PROVE  IInv' /\ OutputStays
<1> DEFINE t == RemoveAt(text, caret + 1)
<1>1. /\ ~enabled /\ Key /\ caret < Len(text) /\ Edited(t, caret)
      /\ astray' = astray \cup {"vi"}
      /\ UNCHANGED <<setup, start, command, commands, browsed, enabled, listed, running>>
  BY DEF ViErase
<1>2. caret + 1 \in Nat /\ 1 <= caret + 1 /\ caret + 1 <= Len(text)
  BY <1>1, Found
<1>3. t \in Seq(Symbol) /\ Len(t) = Len(text) - 1
  BY <1>2, Found, Removed
<1>4. caret \in 0..Len(t)
  BY <1>1, <1>3, Found
<1> HIDE DEF t
<1>5. Buffered' /\ FrontKept'
  <2>1. ~Calm'
    BY <1>1 DEF Calm
  <2>2. QED
    BY <1>1, <1>3, <1>4, <2>1, EditStep
<1>6. n' \in [keys : Nat, output : Nat] /\ astray' \subseteq Causes
  BY <1>1, Found, KeyCounted DEF Causes, IInv
<1>7. TypeOK'
  BY <1>1, <1>5, <1>6 DEF IInv, TypeOK, Buffered, Causes
<1>8. Agree'
  BY <1>1 DEF Agree, Agreed
<1>9. ViOnly'
  BY <1>1 DEF IInv, ViOnly
<1>10. OutputStays
  BY <1>1 DEF OutputStays
<1>11. QED
  BY <1>5, <1>7, <1>8, <1>9, <1>10 DEF IInv

\* Output of the process.
LEMMA OutputStep ==
  ASSUME IInv, Output
  PROVE  IInv' /\ OutputStays
<1>1. /\ n' = [n EXCEPT !.output = n.output + 1]
      /\ Appended(<<"o", "nl">>)
      /\ astray' = IF command = <<>> THEN {} ELSE {"output"}
      /\ UNCHANGED <<setup, command, commands, browsed, enabled, listed, running>>
  BY DEF Output
<1>2. <<"o", "nl">> \in Seq(Symbol)
  BY DEF Symbol
<1>3. Buffered' /\ FrontKept' /\ OutputStays /\ start' = Len(text')
  BY <1>1, <1>2, AppendedStep
<1>4. n' \in [keys : Nat, output : Nat] /\ astray' \subseteq Causes /\ "vi" \notin astray'
  <2>1. n \in [keys : Nat, output : Nat] /\ n.output + 1 \in Nat
    BY Found
  <2>2. astray' \subseteq Causes /\ "vi" \notin astray'
    BY <1>1 DEF Causes
  <2>3. QED
    BY <1>1, <2>1, <2>2
<1>5. TypeOK'
  BY <1>1, <1>3, <1>4 DEF IInv, TypeOK, Buffered, Causes
<1>6. Agree'
  <2>1. start' \in Nat /\ Len(text') \in Nat
    BY <1>3, LenProperties DEF Buffered
  <2>2. /\ command' = command /\ Len(command) \in Nat
        /\ astray' = {} => Len(command) = 0
    BY <1>1, Found
  <2>3. QED
    BY <1>3, <2>1, <2>2 DEF Agree, Agreed
<1>7. ViOnly'
  BY <1>1, <1>4 DEF IInv, ViOnly
<1>8. QED
  BY <1>3, <1>5, <1>6, <1>7 DEF IInv

\* The caret moves, the list is gone, and the process and vi come and go.
LEMMA QuietStep ==
  ASSUME IInv,
         UNCHANGED <<setup, text, start, past, future, command, commands, browsed, n, astray>>,
         caret' \in 0..Len(text), enabled' \in BOOLEAN, listed' \in BOOLEAN,
         running' \in BOOLEAN, ~setup.vi => enabled'
  PROVE  IInv' /\ OutputStays
<1>1. TypeOK'
  BY DEF IInv, TypeOK
<1>2. FrontKept' /\ Agree'
  BY DEF IInv, FrontKept, Agree, Calm
<1>3. ViOnly'
  BY DEF IInv, ViOnly
<1>4. OutputStays
  BY DEF IInv, FrontKept, OutputStays
<1>5. QED
  BY <1>1, <1>2, <1>3, <1>4 DEF IInv

\* All of these.
LEMMA QuietSteps ==
  ASSUME IInv,
         \/ Unlist
         \/ \E pos \in 0..Len(text) : Move(pos)
         \/ \E on \in BOOLEAN : Enabled(on)
         \/ Exit \/ SetProcess
  PROVE  IInv' /\ OutputStays
<1>1. /\ caret \in 0..Len(text) /\ enabled \in BOOLEAN /\ listed \in BOOLEAN
      /\ running \in BOOLEAN /\ (~setup.vi => enabled)
  BY DEF IInv, TypeOK, ViOnly
<1>2. CASE Unlist
  BY <1>1, <1>2, QuietStep DEF Unlist, buffer
<1>3. CASE \E pos \in 0..Len(text) : Move(pos)
  <2>1. PICK pos \in 0..Len(text) : Move(pos)
    BY <1>3
  <2>2. QED
    BY <1>1, <2>1, QuietStep DEF Move
<1>4. CASE \E on \in BOOLEAN : Enabled(on)
  <2>1. PICK on \in BOOLEAN : Enabled(on)
    BY <1>4
  <2>2. /\ UNCHANGED <<setup, buffer, command, commands, browsed, listed, running, n, astray>>
        /\ enabled' = on /\ (~on => setup.vi)
    BY <2>1 DEF Enabled
  <2>3. UNCHANGED <<setup, text, caret, start, past, future, command, commands,
                    browsed, listed, running, n, astray>>
    BY <2>2 DEF buffer
  <2>4. QED
    BY <1>1, <2>2, <2>3, QuietStep
<1>5. CASE Exit
  BY <1>1, <1>5, QuietStep DEF Exit, buffer
<1>6. CASE SetProcess
  BY <1>1, <1>6, QuietStep DEF SetProcess, buffer
<1>7. QED
  BY <1>2, <1>3, <1>4, <1>5, <1>6

-----------------------------------------------------------------------------
(* What the properties say.                                                *)

\* The newlines of a text.
LEMMA PlainIs ==
  ASSUME NEW s \in Seq(Symbol)
  PROVE  /\ Plain(s) \in Seq(Symbol) /\ Len(Plain(s)) = Len(s)
         /\ \A i \in 1..Len(s) : Plain(s)[i] = Look(s[i])
<1>1. Len(s) \in Nat /\ DOMAIN s = 1..Len(s) /\ \A i \in 1..Len(s) : s[i] \in Symbol
  BY LenProperties, ElementOfSeq
<1> DEFINE e(i) == IF s[i] = "cr" THEN "nl" ELSE s[i]
<1>2. \A i \in 1..Len(s) : e(i) \in Symbol
  BY <1>1 DEF Symbol
<1>3. Plain(s) = [i \in 1..Len(s) |-> e(i)]
  BY <1>1 DEF Plain
<1>4. \A i \in 1..Len(s) : e(i) = Look(s[i])
  BY DEF Look
<1> HIDE DEF e
<1>5. Plain(s) \in Seq(Symbol)
  BY <1>1, <1>2, <1>3, IsASeq
<1>6. DOMAIN Plain(s) = 1..Len(s) /\ \A i \in 1..Len(s) : Plain(s)[i] = e(i)
  BY <1>3
<1>7. Len(Plain(s)) = Len(s)
  BY <1>1, <1>5, <1>6, LenProperties
<1>8. QED
  BY <1>4, <1>5, <1>6, <1>7

\* A sequence that another one starts with.
LEMMA PrefixIs ==
  ASSUME NEW S, NEW s \in Seq(S), NEW t \in Seq(S), Len(s) <= Len(t),
         \A i \in 1..Len(s) : s[i] = t[i]
  PROVE  IsPrefix(s, t)
<1> DEFINE m == Len(s)
           u == SubSeq(t, 1, m)
<1>1. m \in Nat /\ Len(t) \in Nat /\ m <= Len(t)
  BY LenProperties
<1>2. SubSeq(s, 1, m) = s
  BY SubSeqFull
<1>3. \A i \in 1..m : s[i] = t[i]
  OBVIOUS
<1>4. u \in Seq(S) /\ Len(u) = m /\ \A i \in 1..m : u[i] = t[i]
  <2> HIDE DEF m
  <2>1. /\ u \in Seq(S) /\ Len(u) = IF 1 <= m THEN m - 1 + 1 ELSE 0
        /\ \A i \in 1..(m - 1 + 1) : u[i] = t[1 + i - 1]
    BY <1>1, PartOf
  <2> HIDE DEF u
  <2>2. QED
    BY <1>1, <2>1
<1> HIDE DEF u
<1>5. Len(s) = Len(u) /\ \A i \in 1..Len(s) : s[i] = u[i]
  BY <1>3, <1>4
<1>6. s = u
  BY <1>4, <1>5, SeqEqual
<1>7. QED
  BY <1>1, <1>2, <1>6 DEF IsPrefix, u

\* A sequence that another one ends with.
LEMMA SuffixIs ==
  ASSUME NEW S, NEW s \in Seq(S), NEW t \in Seq(S), Len(s) <= Len(t),
         \A i \in 1..Len(s) : s[i] = t[i + Len(t) - Len(s)]
  PROVE  IsSuffix(s, t)
<1> DEFINE a == Reverse(s)
           b == Reverse(t)
           m == Len(s)
           k == Len(t)
<1>1. m \in Nat /\ k \in Nat /\ m <= k
  BY LenProperties
<1>2. a = [i \in 1..m |-> s[(m - i) + 1]] /\ b = [i \in 1..k |-> t[(k - i) + 1]]
  BY DEF Reverse
<1>3. \A i \in 1..m : s[i] \in S
  BY ElementOfSeq
<1>4. \A i \in 1..k : t[i] \in S
  BY ElementOfSeq
<1>5. \A i \in 1..m : s[i] = t[i + k - m]
  OBVIOUS
<1> HIDE DEF a, b, m, k
<1>6. \A i \in 1..m : a[i] = b[i]
  <2> SUFFICES ASSUME NEW i \in 1..m
               PROVE  a[i] = b[i]
    OBVIOUS
  <2>1. (m - i) + 1 \in 1..m /\ ((m - i) + 1) + k - m = (k - i) + 1 /\ i \in 1..k
    BY <1>1
  <2>2. a[i] = s[(m - i) + 1] /\ b[i] = t[(k - i) + 1]
    BY <1>2, <2>1
  <2>3. QED
    BY <1>5, <2>1, <2>2
<1>7. a \in Seq(S) /\ Len(a) = m
  <2>1. \A i \in 1..m : (m - i) + 1 \in 1..m
    BY <1>1
  <2>2. \A i \in 1..m : s[(m - i) + 1] \in S
    BY <1>3, <2>1
  <2> DEFINE e(i) == s[(m - i) + 1]
  <2>3. \A i \in 1..m : e(i) \in S
    BY <2>2
  <2>4. a = [i \in 1..m |-> e(i)]
    BY <1>2
  <2> HIDE DEF e
  <2>5. a \in Seq(S) /\ DOMAIN a = 1..m
    BY <1>1, <2>3, <2>4, IsASeq
  <2>6. QED
    BY <1>1, <2>5, LenProperties
<1>8. b \in Seq(S) /\ Len(b) = k
  <2>1. \A i \in 1..k : (k - i) + 1 \in 1..k
    BY <1>1
  <2>2. \A i \in 1..k : t[(k - i) + 1] \in S
    BY <1>4, <2>1
  <2> DEFINE e(i) == t[(k - i) + 1]
  <2>3. \A i \in 1..k : e(i) \in S
    BY <2>2
  <2>4. b = [i \in 1..k |-> e(i)]
    BY <1>2
  <2> HIDE DEF e
  <2>5. b \in Seq(S) /\ DOMAIN b = 1..k
    BY <1>1, <2>3, <2>4, IsASeq
  <2>6. QED
    BY <1>1, <2>5, LenProperties
<1>9. IsPrefix(a, b)
  BY <1>1, <1>6, <1>7, <1>8, PrefixIs
<1>10. QED
  BY <1>9 DEF IsSuffix, a, b

\* What is shown is the command, or its end.
LEMMA AgreeShows ==
  ASSUME IInv
  PROVE  CommandIsShown
<1>1. Agreed(astray, text, command, start)
  BY Found
<1>2. CASE ~(astray \subseteq {"output"})
  BY <1>2 DEF CommandIsShown
<1>3. CASE astray \subseteq {"output"}
  <2> DEFINE s == Input
             m == Len(text) - start
             k == Len(command)
  <2>1. /\ start <= Len(text) /\ m <= k /\ (astray = {} => m = k)
        /\ \A i \in (start + 1)..Len(text) :
             Look(text[i]) = Look(command[i + Len(command) - Len(text)])
    BY <1>1, <1>3 DEF Agreed
  <2>2. m \in Nat /\ k \in Nat
    BY <2>1, Found
  <2>3. s \in Seq(Symbol) /\ Len(s) = m /\ \A i \in 1..m : s[i] = text[start + i]
    <3> DEFINE l == Len(text)
               b == start + 1
    <3>1. /\ b \in Nat \ {0} /\ l \in Int /\ l <= Len(text) /\ text \in Seq(Symbol)
          /\ s = SubSeq(text, b, l)
      BY Found DEF Input
    <3> HIDE DEF s, b, l
    <3>2. /\ s \in Seq(Symbol) /\ Len(s) = IF b <= l THEN l - b + 1 ELSE 0
          /\ \A i \in 1..(l - b + 1) : s[i] = text[b + i - 1]
      BY <3>1, PartOf
    <3>3. l - b + 1 = m /\ (b <= l \/ m = 0) /\ m \in Nat
      BY <2>1, <2>2, Found DEF b, l
    <3>4. \A i \in Int : b + i - 1 = start + i
      BY Found DEF b
    <3> HIDE DEF m
    <3>5. Len(s) = m
      BY <3>1, <3>2, <3>3
    <3>6. \A i \in 1..m : s[i] = text[start + i]
      <4> SUFFICES ASSUME NEW i \in 1..m
                   PROVE  s[i] = text[start + i]
        OBVIOUS
      <4>1. i \in 1..(l - b + 1)
        BY <3>3
      <4>2. b + i - 1 = start + i
        BY <3>3, <3>4
      <4>3. QED
        BY <3>2, <4>1, <4>2
    <3>7. QED
      BY <3>2, <3>5, <3>6
  <2>4. \A i \in 1..m : Look(s[i]) = Look(command[i + k - m])
    <3> SUFFICES ASSUME NEW i \in 1..m
                 PROVE  Look(s[i]) = Look(command[i + k - m])
      OBVIOUS
    <3>1. /\ start + i \in (start + 1)..Len(text)
          /\ (start + i) + Len(command) - Len(text) = i + k - m
      BY <2>1, Found
    <3>2. s[i] = text[start + i]
      BY <2>3
    <3> HIDE DEF s, m, k
    <3>3. QED
      BY <2>1, <3>1, <3>2
  <2> HIDE DEF s, m, k
  <2>5. /\ Plain(s) \in Seq(Symbol) /\ Len(Plain(s)) = m
        /\ \A i \in 1..m : Plain(s)[i] = Look(s[i])
    BY <2>3, PlainIs
  <2>6. /\ Plain(command) \in Seq(Symbol) /\ Len(Plain(command)) = k
        /\ \A i \in 1..k : Plain(command)[i] = Look(command[i])
    BY Found, PlainIs DEF k
  <2>7. \A i \in 1..m : Plain(s)[i] = Plain(command)[i + k - m]
    <3> SUFFICES ASSUME NEW i \in 1..m
                 PROVE  Plain(s)[i] = Plain(command)[i + k - m]
      OBVIOUS
    <3>1. i + k - m \in 1..k
      BY <2>1, <2>2
    <3>2. QED
      BY <2>4, <2>5, <2>6, <3>1
  <2>8. IsSuffix(Plain(s), Plain(command))
    BY <2>1, <2>5, <2>6, <2>7, SuffixIs
  <2>9. astray = {} => Plain(s) = Plain(command)
    <3> SUFFICES ASSUME astray = {}
                 PROVE  Plain(s) = Plain(command)
      OBVIOUS
    <3>1. m = k
      BY <2>1
    <3>2. \A i \in 1..m : i + k - m = i
      BY <2>2, <3>1
    <3>3. \A i \in 1..m : Plain(s)[i] = Plain(command)[i]
      BY <2>7, <3>2
    <3>4. QED
      BY <2>5, <2>6, <3>1, <3>3, SeqEqual
  <2>10. QED
    BY <2>8, <2>9 DEF CommandIsShown, s
<1>4. QED
  BY <1>2, <1>3

\* The text in front of the command is in the text of the next state.
LEMMA FrontIsPrefix ==
  ASSUME IInv, IInv', OutputStays, enabled, Disturbed = {}, "front" \notin astray'
  PROVE  IsPrefix(SubSeq(text, 1, start), text')
<1> DEFINE f == SubSeq(text, 1, start)
<1>1. start <= Len(text) /\ Behind(text', text, start)
  BY DEF IInv, FrontKept, OutputStays, Behind, Disturbed, Calm
<1>2. /\ f \in Seq(Symbol) /\ Len(f) = start
      /\ \A i \in 1..start : f[i] = text[i]
  <2>1. /\ f \in Seq(Symbol) /\ Len(f) = IF 1 <= start THEN start - 1 + 1 ELSE 0
        /\ \A i \in 1..(start - 1 + 1) : f[i] = text[1 + i - 1]
    BY <1>1, Found, PartOf
  <2> HIDE DEF f
  <2>2. QED
    BY <2>1, Found
<1> HIDE DEF f
<1>3. text' \in Seq(Symbol) /\ start <= Len(text') /\ \A i \in 1..start : f[i] = text'[i]
  BY <1>1, <1>2 DEF IInv, TypeOK, Behind
<1>4. IsPrefix(f, text')
  BY <1>2, <1>3, PrefixIs
<1>5. QED
  BY <1>4 DEF f

-----------------------------------------------------------------------------
(* The theorems.                                                           *)

\* The first state.
LEMMA InitHolds ==
  ASSUME Init
  PROVE  IInv
<1>1. /\ setup \in Setups /\ text = <<">">> /\ caret = 1 /\ start = 1 /\ past = <<>>
      /\ future = <<>> /\ command = <<>> /\ commands \in Histories /\ browsed = End(commands)
      /\ enabled = TRUE /\ listed = FALSE /\ running = setup.process
      /\ n = [keys |-> 0, output |-> 0] /\ astray = {}
  BY DEF Init
<1>2. text \in Seq(Symbol) /\ Len(text) = 1 /\ Len(command) = 0
  BY <1>1 DEF Symbol
<1>3. commands \in Seq(Seq(Symbol)) /\ Len(commands) \in Nat
  BY <1>1, Texts, LenProperties
<1>4. browsed \in Nat \ {0}
  BY <1>1, <1>3 DEF End
<1>5. running \in BOOLEAN
  BY <1>1, ShellAssumption
<1>6. TypeOK
  <2>1. caret \in 0..Len(text) /\ start \in Nat /\ past \in Seq(Seq(Symbol))
    BY <1>1, <1>2
  <2>2. future \in Seq(Seq(Symbol))
    BY <1>1
  <2>3. n \in [keys : Nat, output : Nat] /\ command \in Seq(Symbol)
    BY <1>1
  <2>4. QED
    BY <1>1, <1>2, <1>3, <1>4, <1>5, <2>1, <2>2, <2>3 DEF TypeOK
<1>7. FrontKept
  BY <1>1, <1>2 DEF FrontKept, Behind
<1>8. Agree
  BY <1>1, <1>2 DEF Agree, Agreed
<1>9. QED
  BY <1>1, <1>6, <1>7, <1>8 DEF IInv, ViOnly

\* Every step.
LEMMA NextHolds ==
  ASSUME IInv, [Next]_vars
  PROVE  IInv' /\ (text' # text => OutputStays)
<1>1. CASE Next
  BY <1>1, TypeStep, DeleteStep, EraseStep, PasteStep, SendEmptyStep, SendStep, ShowHistoryStep,
     SendFromHistoryStep, NewLineStep, UndoKeyStep, RedoStep, ExpandStep, ShowCommandStep,
     ViEraseStep, OutputStep, QuietSteps DEF Next
<1>2. CASE UNCHANGED vars
  BY <1>2 DEF vars, IInv, TypeOK, FrontKept, ViOnly, Agree, Calm
<1>3. QED
  BY <1>1, <1>2

(* The state is always as the types say, the text in front of the command  *)
(* is in every text that undo may show, only a shell with vi mode is edited *)
(* by vi, and the command ends with what is shown behind the prompt.       *)
THEOREM InductiveInvariant == Spec => []IInv
<1>1. Init => IInv
  BY InitHolds
<1>2. IInv /\ [Next]_vars => IInv'
  BY NextHolds
<1>3. QED
  BY <1>1, <1>2, PTL DEF Spec

(* The types of the shell: its text, its command, its history and its      *)
(* caret, which is always in the text.                                     *)
THEOREM TypeCorrect == Spec => []TypeOK
<1>1. IInv => TypeOK
  BY DEF IInv
<1>2. QED
  BY <1>1, InductiveInvariant, PTL

(* What return sends is what is shown behind the prompt, but for the causes *)
(* that astray tells: for any number of keys and of lines of output.       *)
THEOREM CommandIsShownAlways == Spec => []CommandIsShown
<1>1. IInv => CommandIsShown
  BY AgreeShows
<1>2. QED
  BY <1>1, InductiveInvariant, PTL

(* No key, paste, undo, redo or output changes the text in front of the    *)
(* command while the shell is enabled, for any number of these, but for a  *)
(* return, a character with a modifier and the delete command with the     *)
(* caret there, and what follows these or vi until something is appended.  *)
THEOREM OutputKeptAlways == Spec => OutputKept
<1>1. IInv /\ IInv' /\ [Next]_vars
        => [enabled /\ Disturbed = {} /\ "front" \notin astray'
              => IsPrefix(SubSeq(text, 1, start), text')]_text
  BY NextHolds, FrontIsPrefix
<1>2. QED
  BY <1>1, InductiveInvariant, PTL DEF Spec, OutputKept
===============================================================================
