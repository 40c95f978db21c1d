---------------------------- MODULE ExStream_proofs -----------------------------
(***************************************************************************)
(* For all files, texts, substitutions, line sizes and bounds: the types   *)
(* of ExStream, that what is shown is what the commands say, that every    *)
(* search ends but in the known cases, and that a line count stays right.  *)
(*                                                                         *)
(* Texts put together (FlattenSeq), lines that are handled (Handled) and   *)
(* loops (Loop) are recursive functions, and what they give is shown by    *)
(* induction over a set of numbers.  Chunked says that the lines that are  *)
(* handled are the text, cut behind its newlines and where they are full;  *)
(* Turns, that a loop is a sequence of turns, each one line further.  A    *)
(* search forward moves its position with each turn, and one back makes    *)
(* Left smaller, so that both end.  Does says what a pass ends with.       *)
(***************************************************************************)
EXTENDS ExStream, SequenceTheorems, FiniteSetTheorems, WellFoundedInduction, TLAPS

-----------------------------------------------------------------------------
(* Numbers and sequences.                                                  *)

\* Induction over a set of numbers.
LEMMA Induction ==
  ASSUME NEW S, 0 \in S, \A k \in Nat : k \in S => k + 1 \in S
  PROVE  \A k \in Nat : k \in S
<1> DEFINE bads == {k \in Nat : k \notin S}
<1>1. \A k \in Nat : k \in S <=> k \notin bads
  OBVIOUS
<1>2. bads \subseteq Nat
  OBVIOUS
<1> HIDE DEF bads
<1>3. ASSUME bads # {}
      PROVE  FALSE
  <2>1. PICK k \in bads : \A i \in bads : ~ (<<i, k>> \in OpToRel(<, Nat))
    BY <1>2, <1>3, NatLessThanWellFounded, WFMin
  <2>2. \A i \in bads : ~ (i < k)
    BY <1>2, <2>1 DEF OpToRel
  <2>3. k \in Nat /\ k # 0
    BY <1>1, <1>2
  <2>4. k - 1 \in Nat /\ k - 1 < k /\ (k - 1) + 1 = k
    BY <2>3
  <2>5. k - 1 \in S
    BY <1>1, <2>2, <2>4
  <2>6. k \in S
    BY <2>4, <2>5
  <2>7. QED
    BY <1>1, <2>3, <2>6
<1>4. QED
  BY <1>1, <1>3

\* The function that puts texts together exists.
LEMMA Flattens ==
  ASSUME NEW q, NEW m \in Nat
  PROVE  \E f : f = [i \in 1..m |-> IF i = 1 THEN q[i] ELSE f[i - 1] \o q[i]]
<1> DEFINE Whole1(f, k) == f = [i \in 1..k |-> IF i = 1 THEN q[i] ELSE f[i - 1] \o q[i]]
           P == {k \in Nat : \E f : Whole1(f, k)}
<1>1. 0 \in P
  <2>1. Whole1([i \in 1..0 |-> q[1]], 0)
    OBVIOUS
  <2>2. QED
    BY <2>1
<1>2. ASSUME NEW k \in Nat, k \in P
      PROVE  k + 1 \in P
  <2>1. PICK f : Whole1(f, k)
    BY <1>2
  <2> DEFINE g == [i \in 1..(k + 1) |-> IF i <= k THEN f[i]
                                        ELSE IF i = 1 THEN q[i] ELSE f[i - 1] \o q[i]]
  <2>2. ASSUME NEW i \in 1..(k + 1)
        PROVE  g[i] = IF i = 1 THEN q[i] ELSE g[i - 1] \o q[i]
    <3>1. i # 1 => i - 1 \in 1..k /\ i - 1 \in 1..(k + 1)
      BY <2>2
    <3>2. CASE i <= k
      <4>1. i \in 1..k
        BY <3>2
      <4>2. f[i] = IF i = 1 THEN q[i] ELSE f[i - 1] \o q[i]
        BY <2>1, <4>1
      <4>3. QED
        BY <3>1, <4>1, <4>2
    <3>3. CASE ~ (i <= k)
      <4>1. g[i] = IF i = 1 THEN q[i] ELSE f[i - 1] \o q[i]
        BY <3>3
      <4>2. i # 1 => g[i - 1] = f[i - 1]
        BY <3>1
      <4>3. QED
        BY <4>1, <4>2
    <3>4. QED
      BY <3>2, <3>3
  <2>3. Whole1(g, k + 1)
    BY <2>2
  <2> HIDE DEF g, Whole1
  <2>4. QED
    BY <2>3
<1>3. m \in P
  <2> HIDE DEF P
  <2>1. QED
    BY <1>1, <1>2, Induction
<1>4. QED
  BY <1>3

\* Nothing put together is empty.
LEMMA FlattenEmpty ==
  FlattenSeq(<<>>) = <<>>
BY EmptySeq DEF FlattenSeq

\* What FlattenSeq is, without the choice in its definition.
LEMMA FlattenIs ==
  ASSUME NEW S, NEW q \in Seq(S), q # <<>>
  PROVE  \E f : /\ f = [i \in 1..Len(q) |-> IF i = 1 THEN q[i] ELSE f[i - 1] \o q[i]]
                /\ FlattenSeq(q) = f[Len(q)]
<1>1. Len(q) \in Nat /\ Len(q) # 0
  BY EmptySeq
<1> DEFINE f == CHOOSE f : f = [i \in 1..Len(q) |-> IF i = 1 THEN q[i] ELSE f[i - 1] \o q[i]]
<1>2. f = [i \in 1..Len(q) |-> IF i = 1 THEN q[i] ELSE f[i - 1] \o q[i]]
  BY <1>1, Flattens
<1>3. FlattenSeq(q) = f[Len(q)]
  BY <1>1 DEF FlattenSeq
<1>4. QED
  BY <1>2, <1>3

\* Putting one more text at the end.
LEMMA FlattenAppend ==
  ASSUME NEW S, NEW q \in Seq(Seq(S)), NEW a \in Seq(S)
  PROVE  FlattenSeq(Append(q, a)) = FlattenSeq(q) \o a
<1> DEFINE r == Append(q, a)
           n == Len(q)
<1>1. /\ r \in Seq(Seq(S)) /\ Len(r) = n + 1 /\ r # <<>> /\ n \in Nat
      /\ \A i \in 1..n : r[i] = q[i]
      /\ r[n + 1] = a
  BY AppendProperties
<1> HIDE DEF r
<1>2. PICK g : /\ g = [i \in 1..Len(r) |-> IF i = 1 THEN r[i] ELSE g[i - 1] \o r[i]]
               /\ FlattenSeq(r) = g[Len(r)]
  BY <1>1, FlattenIs
<1>3. \A i \in 1..(n + 1) : g[i] = IF i = 1 THEN r[i] ELSE g[i - 1] \o r[i]
  BY <1>1, <1>2
<1>4. CASE q = <<>>
  <2>1. n = 0
    BY <1>4
  <2>2. FlattenSeq(r) = a
    BY <1>1, <1>2, <1>3, <2>1
  <2>3. <<>> \o a = a
    BY ConcatEmptySeq
  <2>4. QED
    BY <1>4, <2>2, <2>3, FlattenEmpty DEF r
<1>5. CASE q # <<>>
  <2>0. n # 0
    BY <1>5, EmptySeq
  <2>1. PICK f : /\ f = [i \in 1..n |-> IF i = 1 THEN q[i] ELSE f[i - 1] \o q[i]]
                 /\ FlattenSeq(q) = f[n]
    BY <1>5, FlattenIs
  <2>2. \A i \in 1..n : f[i] = IF i = 1 THEN q[i] ELSE f[i - 1] \o q[i]
    BY <2>1
  <2> DEFINE P == {k \in Nat : k + 1 \in 1..n => f[k + 1] = g[k + 1]}
  <2>3. 0 \in P
    BY <1>1, <1>3, <2>0, <2>2
  <2>4. ASSUME NEW k \in Nat, k \in P
        PROVE  k + 1 \in P
    <3>1. SUFFICES ASSUME (k + 1) + 1 \in 1..n
                   PROVE  f[(k + 1) + 1] = g[(k + 1) + 1]
      OBVIOUS
    <3>2. k + 1 \in 1..n /\ (k + 1) + 1 \in 1..(n + 1) /\ (k + 1) + 1 # 1
          /\ ((k + 1) + 1) - 1 = k + 1
      BY <1>1, <3>1
    <3>3. f[k + 1] = g[k + 1]
      BY <2>4, <3>2
    <3>4. f[(k + 1) + 1] = f[k + 1] \o q[(k + 1) + 1]
      BY <2>2, <3>1, <3>2
    <3>5. g[(k + 1) + 1] = g[k + 1] \o r[(k + 1) + 1]
      BY <1>3, <3>2
    <3>6. QED
      BY <1>1, <3>1, <3>3, <3>4, <3>5
  <2>5. n - 1 \in P
    <3> HIDE DEF P
    <3>1. n - 1 \in Nat
      BY <1>1, <2>0
    <3>2. QED
      BY <2>3, <2>4, <3>1, Induction
  <2>6. f[n] = g[n]
    BY <1>1, <2>0, <2>5
  <2>7. g[n + 1] = g[n] \o r[n + 1]
    <3>1. n + 1 \in 1..(n + 1) /\ n + 1 # 1 /\ (n + 1) - 1 = n
      BY <1>1, <2>0
    <3>2. QED
      BY <1>3, <3>1
  <2>8. QED
    BY <1>1, <1>2, <2>1, <2>6, <2>7 DEF r
<1>6. QED
  BY <1>4, <1>5

\* What comes first in a sequence.
LEMMA Firsts ==
  ASSUME NEW S, NEW q \in Seq(S), NEW k \in 0..Len(q)
  PROVE  /\ SubSeq(q, 1, k) \in Seq(S) /\ Len(SubSeq(q, 1, k)) = k
         /\ \A i \in 1..k : SubSeq(q, 1, k)[i] = q[i]
OBVIOUS

\* A sequence with something in it, from its front and its last element.
LEMMA FrontLast ==
  ASSUME NEW S, NEW q \in Seq(S), q # <<>>
  PROVE  /\ Front(q) \in Seq(S) /\ Last(q) \in S
         /\ Len(q) \in Nat \ {0} /\ Len(Front(q)) = Len(q) - 1
         /\ \A i \in 1..(Len(q) - 1) : Front(q)[i] = q[i]
         /\ Last(q) = q[Len(q)]
         /\ q = Append(Front(q), Last(q))
<1>1. Len(q) \in Nat \ {0} /\ \A i \in 1..Len(q) : q[i] \in S
  BY EmptySeq
<1>2. /\ Front(q) \in Seq(S) /\ Len(Front(q)) = Len(q) - 1
      /\ \A i \in 1..(Len(q) - 1) : Front(q)[i] = q[i]
  <2>1. Len(q) - 1 \in 0..Len(q)
    BY <1>1
  <2>2. QED
    BY <2>1, Firsts DEF Front
<1>3. Last(q) \in S /\ Last(q) = q[Len(q)]
  BY <1>1 DEF Last
<1>4. q = Append(Front(q), Last(q))
  <2> DEFINE r == Append(Front(q), Last(q))
  <2>1. /\ r \in Seq(S) /\ Len(r) = Len(q)
        /\ \A i \in 1..Len(Front(q)) : r[i] = Front(q)[i]
        /\ r[Len(Front(q)) + 1] = Last(q)
    BY <1>1, <1>2, <1>3, AppendProperties
  <2> HIDE DEF r
  <2>2. ASSUME NEW i \in 1..Len(q)
        PROVE  r[i] = q[i]
    <3>1. CASE i = Len(q)
      BY <1>1, <1>2, <1>3, <2>1, <3>1
    <3>2. CASE i # Len(q)
      <4>1. i \in 1..(Len(q) - 1)
        BY <1>1, <3>2
      <4>2. QED
        BY <1>2, <2>1, <4>1
    <3>3. QED
      BY <3>1, <3>2
  <2>3. r = q
    BY <2>1, <2>2, SeqEqual
  <2>4. QED
    BY <2>3 DEF r
<1>5. QED
  BY <1>1, <1>2, <1>3, <1>4

\* Texts put together are a text.
LEMMA FlattenType ==
  ASSUME NEW S
  PROVE  \A q \in Seq(Seq(S)) : FlattenSeq(q) \in Seq(S)
<1> DEFINE P == {n \in Nat : \A q \in Seq(Seq(S)) : Len(q) = n => FlattenSeq(q) \in Seq(S)}
<1>1. 0 \in P
  <2>1. ASSUME NEW q \in Seq(Seq(S)), Len(q) = 0
        PROVE  FlattenSeq(q) \in Seq(S)
    <3>1. q = <<>>
      BY <2>1, EmptySeq
    <3>2. <<>> \in Seq(S)
      OBVIOUS
    <3>3. QED
      BY <3>1, <3>2, FlattenEmpty
  <2>2. QED
    BY <2>1
<1>2. ASSUME NEW n \in Nat, n \in P
      PROVE  n + 1 \in P
  <2>1. ASSUME NEW q \in Seq(Seq(S)), Len(q) = n + 1
        PROVE  FlattenSeq(q) \in Seq(S)
    <3>1. q # <<>>
      BY <2>1, EmptySeq
    <3>2. /\ Front(q) \in Seq(Seq(S)) /\ Last(q) \in Seq(S)
          /\ Len(Front(q)) = Len(q) - 1 /\ q = Append(Front(q), Last(q))
      BY <3>1, FrontLast
    <3>3. Len(Front(q)) = n
      BY <2>1, <3>2
    <3>4. FlattenSeq(Front(q)) \in Seq(S)
      BY <1>2, <3>2, <3>3
    <3>5. FlattenSeq(q) = FlattenSeq(Front(q)) \o Last(q)
      BY <3>2, FlattenAppend
    <3>6. QED
      BY <3>2, <3>4, <3>5, ConcatProperties
  <2>2. QED
    BY <2>1
<1>3. \A n \in Nat : n \in P
  <2> HIDE DEF P
  <2>1. QED
    BY <1>1, <1>2, Induction
<1>4. QED
  BY <1>3

\* What comes first is not longer than all of it.
LEMMA FlattenFirst ==
  ASSUME NEW S
  PROVE  \A q \in Seq(Seq(S)) : \A k \in 0..Len(q) :
           Len(FlattenSeq(SubSeq(q, 1, k))) <= Len(FlattenSeq(q))
<1> DEFINE Good(q) == \A k \in 0..Len(q) :
             Len(FlattenSeq(SubSeq(q, 1, k))) <= Len(FlattenSeq(q))
           P == {n \in Nat : \A q \in Seq(Seq(S)) : Len(q) = n => Good(q)}
<1>0. \A q \in Seq(Seq(S)) : Len(FlattenSeq(q)) \in Nat
  BY FlattenType, LenProperties
<1>1. 0 \in P
  <2>1. ASSUME NEW q \in Seq(Seq(S)), Len(q) = 0, NEW k \in 0..Len(q)
        PROVE  Len(FlattenSeq(SubSeq(q, 1, k))) <= Len(FlattenSeq(q))
    <3>1. k = Len(q)
      BY <2>1
    <3>2. SubSeq(q, 1, k) = q
      BY <3>1, SubSeqFull
    <3>3. Len(FlattenSeq(q)) \in Nat
      BY <1>0
    <3>4. FlattenSeq(SubSeq(q, 1, k)) = FlattenSeq(q)
      BY <3>2, Zenon
    <3>5. QED
      BY <3>3, <3>4
  <2>2. QED
    BY <2>1
<1>2. ASSUME NEW n \in Nat, n \in P
      PROVE  n + 1 \in P
  <2>1. ASSUME NEW q \in Seq(Seq(S)), Len(q) = n + 1, NEW k \in 0..Len(q)
        PROVE  Len(FlattenSeq(SubSeq(q, 1, k))) <= Len(FlattenSeq(q))
    <3>1. q # <<>>
      BY <2>1, EmptySeq
    <3>2. /\ Front(q) \in Seq(Seq(S)) /\ Last(q) \in Seq(S)
          /\ Len(Front(q)) = Len(q) - 1 /\ q = Append(Front(q), Last(q))
          /\ \A i \in 1..(Len(q) - 1) : Front(q)[i] = q[i]
      BY <3>1, FrontLast
    <3>3. CASE k = Len(q)
      <4>1. SubSeq(q, 1, k) = q
        BY <3>3, SubSeqFull
      <4>2. Len(FlattenSeq(q)) \in Nat
        BY <1>0
      <4>3. FlattenSeq(SubSeq(q, 1, k)) = FlattenSeq(q)
        BY <4>1, Zenon
      <4>4. QED
        BY <4>2, <4>3
    <3>4. CASE k # Len(q)
      <4>1. k \in 0..Len(Front(q)) /\ Len(Front(q)) = n
        BY <2>1, <3>2, <3>4
      <4>2. SubSeq(q, 1, k) = SubSeq(Front(q), 1, k)
        <5>1. /\ SubSeq(q, 1, k) \in Seq(Seq(S)) /\ Len(SubSeq(q, 1, k)) = k
              /\ \A i \in 1..k : SubSeq(q, 1, k)[i] = q[i]
          BY <2>1, Firsts
        <5>2. /\ SubSeq(Front(q), 1, k) \in Seq(Seq(S)) /\ Len(SubSeq(Front(q), 1, k)) = k
              /\ \A i \in 1..k : SubSeq(Front(q), 1, k)[i] = Front(q)[i]
          BY <3>2, <4>1, Firsts
        <5>3. \A i \in 1..k : Front(q)[i] = q[i]
          BY <2>1, <3>2, <4>1
        <5>4. \A i \in 1..k : SubSeq(q, 1, k)[i] = SubSeq(Front(q), 1, k)[i]
          BY <5>1, <5>2, <5>3
        <5>5. QED
          BY <5>1, <5>2, <5>4, SeqEqual
      <4>3. Len(FlattenSeq(SubSeq(Front(q), 1, k))) <= Len(FlattenSeq(Front(q)))
        BY <1>2, <3>2, <4>1
      <4>4. FlattenSeq(q) = FlattenSeq(Front(q)) \o Last(q)
        BY <3>2, FlattenAppend
      <4>5. FlattenSeq(Front(q)) \in Seq(S)
        BY <3>2, FlattenType
      <4>6. Len(FlattenSeq(q)) = Len(FlattenSeq(Front(q))) + Len(Last(q))
        BY <3>2, <4>4, <4>5, ConcatProperties
      <4>7. Len(Last(q)) \in Nat
        BY <3>2
      <4>8. SubSeq(Front(q), 1, k) \in Seq(Seq(S))
        BY <3>2, <4>1, Firsts
      <4>9. /\ Len(FlattenSeq(Front(q))) \in Nat
            /\ Len(FlattenSeq(SubSeq(Front(q), 1, k))) \in Nat
        BY <1>0, <3>2, <4>8
      <4>10. FlattenSeq(SubSeq(q, 1, k)) = FlattenSeq(SubSeq(Front(q), 1, k))
        BY <4>2, Zenon
      <4>11. QED
        BY <4>3, <4>6, <4>7, <4>9, <4>10
    <3>5. QED
      BY <3>3, <3>4
  <2>2. QED
    BY <2>1
<1>3. \A n \in Nat : n \in P
  <2> HIDE DEF P
  <2>1. QED
    BY <1>1, <1>2, Induction
<1>4. QED
  BY <1>3

\* A line whose characters are each put back, or replaced.
LEMMA ReplacedAppend ==
  ASSUME NEW S, NEW with \in Seq(S), NEW t \in Seq(S), NEW x \in S, NEW places
  PROVE  Replaced(with, Append(t, x), places)
           = Replaced(with, t, places)
               \o (IF Len(t) + 1 \in places THEN with ELSE <<x>>)
<1> DEFINE h == Append(t, x)
           n == Len(t)
           f == [i \in DOMAIN t |-> IF i \in places THEN with ELSE <<t[i]>>]
           g == [i \in DOMAIN h |-> IF i \in places THEN with ELSE <<h[i]>>]
           a == IF n + 1 \in places THEN with ELSE <<x>>
<1>1. /\ h \in Seq(S) /\ Len(h) = n + 1 /\ n \in Nat /\ h[n + 1] = x
      /\ \A i \in 1..n : h[i] = t[i] /\ t[i] \in S
  BY AppendProperties
<1>2. \A y \in S : <<y>> \in Seq(S)
  OBVIOUS
<1>3. DOMAIN t = 1..n /\ DOMAIN h = 1..(n + 1)
  BY <1>1
<1> HIDE DEF h
<1>4. a \in Seq(S)
  BY <1>2
<1>5. f \in Seq(Seq(S)) /\ Len(f) = n
  <2>1. f \in [1..n -> Seq(S)]
    BY <1>1, <1>2, <1>3
  <2>2. QED
    BY <1>1, <2>1
<1>6. g \in Seq(Seq(S)) /\ Len(g) = n + 1
  <2>1. \A i \in 1..(n + 1) : h[i] \in S
    BY <1>1
  <2>2. g \in [1..(n + 1) -> Seq(S)]
    BY <1>2, <1>3, <2>1
  <2>3. QED
    BY <1>1, <2>2
<1>7. \A i \in 1..n : g[i] = f[i]
  BY <1>1, <1>3
<1>8. g[n + 1] = a
  BY <1>1, <1>3
<1> HIDE DEF f, g, a
<1>9. g = Append(f, a)
  <2>1. /\ Append(f, a) \in Seq(Seq(S)) /\ Len(Append(f, a)) = n + 1
        /\ \A i \in 1..n : Append(f, a)[i] = f[i]
        /\ Append(f, a)[n + 1] = a
    BY <1>4, <1>5, AppendProperties
  <2>2. ASSUME NEW i \in 1..(n + 1)
        PROVE  g[i] = Append(f, a)[i]
    <3>1. i \in 1..n \/ i = n + 1
      BY <1>1
    <3>2. QED
      BY <1>7, <1>8, <2>1, <3>1
  <2>3. QED
    BY <1>6, <2>1, <2>2, SeqEqual
<1>10. FlattenSeq(g) = FlattenSeq(f) \o a
  BY <1>4, <1>5, <1>9, FlattenAppend
<1>11. QED
  BY <1>10 DEF Replaced, f, g, a, h

\* A line with something replaced is a text.
LEMMA ReplacedType ==
  ASSUME NEW S, NEW with \in Seq(S), NEW h \in Seq(S), NEW places
  PROVE  Replaced(with, h, places) \in Seq(S)
<1> DEFINE g == [i \in DOMAIN h |-> IF i \in places THEN with ELSE <<h[i]>>]
<1>1. Len(h) \in Nat /\ DOMAIN h = 1..Len(h) /\ \A i \in 1..Len(h) : h[i] \in S
  OBVIOUS
<1>2. \A y \in S : <<y>> \in Seq(S)
  OBVIOUS
<1>3. g \in [1..Len(h) -> Seq(S)]
  BY <1>1, <1>2
<1>4. g \in Seq(Seq(S))
  BY <1>1, <1>3
<1> HIDE DEF g
<1>5. FlattenSeq(g) \in Seq(S)
  BY <1>4, FlattenType
<1>6. QED
  BY <1>5 DEF Replaced, g

\* Nothing can be replaced in an empty line.
LEMMA ReplacedEmpty ==
  ASSUME NEW with, NEW places
  PROVE  Replaced(with, <<>>, places) = <<>>
<1> DEFINE g == [i \in DOMAIN <<>> |-> IF i \in places THEN with ELSE <<(<<>>)[i]>>]
<1>1. g = <<>>
  OBVIOUS
<1> HIDE DEF g
<1>2. QED
  BY <1>1, FlattenEmpty DEF Replaced, g

\* A line with nothing replaced is the line.
LEMMA ReplacedNone ==
  ASSUME NEW S, NEW with \in Seq(S), NEW places
  PROVE  \A h \in Seq(S) :
           (\A i \in 1..Len(h) : i \notin places) => Replaced(with, h, places) = h
<1> DEFINE Good(h) == (\A i \in 1..Len(h) : i \notin places)
                        => Replaced(with, h, places) = h
           P == {n \in Nat : \A h \in Seq(S) : Len(h) = n => Good(h)}
<1>1. 0 \in P
  <2>1. ASSUME NEW h \in Seq(S), Len(h) = 0
        PROVE  Replaced(with, h, places) = h
    <3>1. h = <<>>
      BY <2>1, EmptySeq
    <3>2. QED
      BY <3>1, ReplacedEmpty
  <2>2. QED
    BY <2>1
<1>2. ASSUME NEW n \in Nat, n \in P
      PROVE  n + 1 \in P
  <2>1. ASSUME NEW h \in Seq(S), Len(h) = n + 1,
               \A i \in 1..Len(h) : i \notin places
        PROVE  Replaced(with, h, places) = h
    <3> DEFINE t == Front(h)
               x == Last(h)
    <3>1. h # <<>>
      BY <2>1, EmptySeq
    <3>2. t \in Seq(S) /\ x \in S /\ Len(t) = n /\ h = Append(t, x)
      <4>1. Len(Front(h)) = Len(h) - 1 /\ Front(h) \in Seq(S) /\ Last(h) \in S
            /\ h = Append(Front(h), Last(h))
        BY <3>1, FrontLast
      <4>2. QED
        BY <2>1, <4>1
    <3> HIDE DEF t, x
    <3>3. (\A i \in 1..Len(t) : i \notin places) /\ Len(t) + 1 \notin places
      BY <2>1, <3>2
    <3>4. Replaced(with, t, places) = t
      BY <1>2, <3>2, <3>3
    <3>5. Replaced(with, h, places) = t \o <<x>>
      <4>1. Replaced(with, Append(t, x), places)
             = Replaced(with, t, places) \o (IF Len(t) + 1 \in places THEN with ELSE <<x>>)
        BY <3>2, ReplacedAppend
      <4>2. QED
        BY <3>2, <3>3, <3>4, <4>1
    <3>6. Append(t, x) = t \o <<x>>
      BY <3>2, AppendIsConcat
    <3>7. QED
      BY <3>2, <3>5, <3>6
  <2>2. ASSUME NEW h \in Seq(S), Len(h) = n + 1
        PROVE  Good(h)
    BY <2>1, <2>2
  <2> HIDE DEF Good
  <2>3. QED
    BY <2>2
<1>3. \A n \in Nat : n \in P
  <2> HIDE DEF P
  <2>1. QED
    BY <1>1, <1>2, Induction
<1>4. QED
  BY <1>3

-----------------------------------------------------------------------------
(* The lines that are handled.                                             *)

\* One more character is read.
Reads(h, p) ==
  LET line == Append(Last(h), p)
  IN  IF p = Nl \/ Len(line) = reader.size
      THEN Front(h) \o <<line, <<>>>>
      ELSE Append(Front(h), line)

\* The lines when n characters are read: together they are what is read, and
\* only at the end of a line that is complete there is a newline.
Chunked(c, n, h) ==
  /\ h \in Seq(Seq(Piece)) /\ h # <<>>
  /\ FlattenSeq(h) = SubSeq(c, 1, n)
  /\ \A k \in 1..(Len(h) - 1) :
       h[k] # <<>> /\ \A i \in 1..(Len(h[k]) - 1) : h[k][i] # Nl
  /\ \A i \in 1..Len(h[Len(h)]) : h[Len(h)][i] # Nl
  /\ n # 0 /\ c[n] = Nl => h[Len(h)] = <<>>

\* Two elements more are one more, twice.
LEMMA AppendTwo ==
  ASSUME NEW S, NEW q \in Seq(S), NEW x \in S, NEW y \in S
  PROVE  q \o <<x, y>> = Append(Append(q, x), y)
OBVIOUS

\* A text up to the next character.
LEMMA NextPiece ==
  ASSUME NEW S, NEW c \in Seq(S), NEW n \in Nat, n + 1 <= Len(c)
  PROVE  SubSeq(c, 1, n + 1) = Append(SubSeq(c, 1, n), c[n + 1])
<1>1. /\ SubSeq(c, 1, n) \in Seq(S) /\ Len(SubSeq(c, 1, n)) = n
      /\ \A i \in 1..n : SubSeq(c, 1, n)[i] = c[i]
  BY Firsts
<1>2. /\ SubSeq(c, 1, n + 1) \in Seq(S) /\ Len(SubSeq(c, 1, n + 1)) = n + 1
      /\ \A i \in 1..(n + 1) : SubSeq(c, 1, n + 1)[i] = c[i]
  <2>1. n + 1 \in 0..Len(c)
    OBVIOUS
  <2>2. QED
    BY <2>1, Firsts
<1>3. c[n + 1] \in S
  OBVIOUS
<1> DEFINE a == SubSeq(c, 1, n)
           b == SubSeq(c, 1, n + 1)
           r == Append(a, c[n + 1])
<1>4. /\ r \in Seq(S) /\ Len(r) = n + 1
      /\ \A i \in 1..n : r[i] = a[i]
      /\ r[n + 1] = c[n + 1]
  BY <1>1, <1>3, AppendProperties
<1> HIDE DEF r
<1>5. ASSUME NEW i \in 1..(n + 1)
      PROVE  b[i] = r[i]
  <2>1. i \in 1..n \/ i = n + 1
    OBVIOUS
  <2>2. QED
    BY <1>1, <1>2, <1>4, <2>1
<1>6. b = r
  <2> HIDE DEF a, b
  <2>1. b \in Seq(S) /\ Len(b) = n + 1
    BY <1>2 DEF b
  <2>2. QED
    BY <1>4, <1>5, <2>1, SeqEqual
<1>7. QED
  BY <1>6 DEF r

\* An element appended to the second of two sequences.
LEMMA ConcatAppend ==
  ASSUME NEW S, NEW a \in Seq(S), NEW l \in Seq(S), NEW p \in S
  PROVE  a \o Append(l, p) = Append(a \o l, p)
<1>1. <<p>> \in Seq(S)
  OBVIOUS
<1>2. a \o (l \o <<p>>) = (a \o l) \o <<p>>
  BY <1>1, ConcatAssociative
<1>3. a \o l \in Seq(S)
  BY ConcatProperties
<1>4. Append(l, p) = l \o <<p>>
  BY AppendIsConcat
<1>5. Append(a \o l, p) = (a \o l) \o <<p>>
  BY <1>3, AppendIsConcat
<1>6. QED
  BY <1>2, <1>4, <1>5, Zenon

\* One character more is read: the lines stay cut where they were, and the
\* last one grows or is complete.
LEMMA ReadsStep ==
  ASSUME NEW c \in Seq(Piece), NEW n \in Nat, n + 1 <= Len(c),
         NEW h, Chunked(c, n, h)
  PROVE  Chunked(c, n + 1, Reads(h, c[n + 1]))
<1> DEFINE p == c[n + 1]
           f == Front(h)
           l == Last(h)
           line == Append(l, p)
           one == Append(f, line)
           m == Len(h)
<1>1. /\ f \in Seq(Seq(Piece)) /\ l \in Seq(Piece) /\ m \in Nat \ {0} /\ Len(f) = m - 1
      /\ \A i \in 1..(m - 1) : f[i] = h[i]
      /\ l = h[m] /\ h = Append(f, l)
  BY FrontLast DEF Chunked
<1>2. p \in Piece
  OBVIOUS
<1>3. \A i \in 1..Len(l) : l[i] # Nl
  BY <1>1 DEF Chunked
<1>4. \A k \in 1..(m - 1) : f[k] # <<>> /\ \A i \in 1..(Len(f[k]) - 1) : f[k][i] # Nl
  BY <1>1 DEF Chunked
<1>5. FlattenSeq(f) \in Seq(Piece) /\ FlattenSeq(f) \o l = SubSeq(c, 1, n)
  <2>1. FlattenSeq(Append(f, l)) = FlattenSeq(f) \o l
    BY <1>1, FlattenAppend
  <2>2. FlattenSeq(f) \in Seq(Piece)
    BY <1>1, FlattenType
  <2>3. FlattenSeq(h) = SubSeq(c, 1, n)
    BY DEF Chunked
  <2>4. QED
    BY <1>1, <2>1, <2>2, <2>3, Zenon
<1> HIDE DEF f, l
<1>6. /\ line \in Seq(Piece) /\ Len(line) = Len(l) + 1 /\ Len(l) \in Nat
      /\ \A i \in 1..Len(l) : line[i] = l[i]
      /\ line[Len(l) + 1] = p
  BY <1>1, <1>2, AppendProperties
<1> HIDE DEF line
<1>7. /\ one \in Seq(Seq(Piece)) /\ Len(one) = m
      /\ \A i \in 1..(m - 1) : one[i] = f[i]
      /\ one[m] = line
  BY <1>1, <1>6, AppendProperties
<1>8. FlattenSeq(one) = SubSeq(c, 1, n + 1)
  <2>1. FlattenSeq(one) = FlattenSeq(f) \o line
    BY <1>1, <1>6, FlattenAppend
  <2>2. FlattenSeq(f) \o Append(l, p) = Append(FlattenSeq(f) \o l, p)
    <3>1. l \in Seq(Piece) /\ p \in Piece /\ FlattenSeq(f) \in Seq(Piece)
      BY <1>1, <1>2, <1>5
    <3> HIDE DEF p
    <3>2. QED
      BY <3>1, ConcatAppend
  <2>3. SubSeq(c, 1, n + 1) = Append(SubSeq(c, 1, n), p)
    BY NextPiece
  <2>4. QED
    BY <1>5, <2>1, <2>2, <2>3, Zenon DEF line
<1> HIDE DEF one, p
<1>9. CASE p = Nl \/ Len(line) = reader.size
  <2> DEFINE two == Append(one, <<>>)
  <2>1. <<>> \in Seq(Piece)
    OBVIOUS
  <2>2. Reads(h, p) = two
    <3>1. f \o <<line, <<>>>> = Append(Append(f, line), <<>>)
      BY <1>1, <1>6, <2>1, AppendTwo
    <3>2. Reads(h, p) = f \o <<line, <<>>>>
      BY <1>9 DEF Reads, f, l, line
    <3>3. QED
      BY <3>1, <3>2 DEF one
  <2>3. /\ two \in Seq(Seq(Piece)) /\ Len(two) = m + 1
        /\ \A i \in 1..m : two[i] = one[i]
        /\ two[m + 1] = <<>>
    BY <1>1, <1>7, <2>1, AppendProperties
  <2>4. FlattenSeq(two) = SubSeq(c, 1, n + 1)
    <3>1. FlattenSeq(two) = FlattenSeq(one) \o <<>>
      BY <1>7, <2>1, FlattenAppend
    <3>2. FlattenSeq(one) \in Seq(Piece)
      BY <1>7, FlattenType
    <3>3. FlattenSeq(one) \o <<>> = FlattenSeq(one)
      BY <3>2, ConcatEmptySeq
    <3>4. QED
      BY <1>8, <3>1, <3>3, Zenon
  <2> HIDE DEF two
  <2>5. ASSUME NEW k \in 1..m
        PROVE  two[k] # <<>> /\ \A i \in 1..(Len(two[k]) - 1) : two[k][i] # Nl
    <3>1. CASE k = m
      <4>1. two[k] = line
        BY <1>7, <2>3, <3>1
      <4>2. line # <<>>
        BY <1>6, EmptySeq
      <4>3. \A i \in 1..(Len(line) - 1) : line[i] # Nl
        <5>1. Len(line) - 1 = Len(l)
          BY <1>6
        <5>2. QED
          BY <1>3, <1>6, <5>1
      <4>4. QED
        BY <4>1, <4>2, <4>3
    <3>2. CASE k # m
      <4>1. k \in 1..(m - 1)
        BY <1>1, <3>2
      <4>2. two[k] = f[k]
        BY <1>7, <2>3, <4>1
      <4>3. QED
        BY <1>4, <4>1, <4>2
    <3>3. QED
      BY <3>1, <3>2
  <2>6. two # <<>> /\ Len(two) - 1 = m /\ two[Len(two)] = <<>> /\ Len(<<>>) = 0
    BY <1>1, <2>3, EmptySeq
  <2>7. Chunked(c, n + 1, two)
    BY <2>3, <2>4, <2>5, <2>6 DEF Chunked
  <2>8. QED
    BY <2>2, <2>7 DEF p
<1>10. CASE ~ (p = Nl \/ Len(line) = reader.size)
  <2>1. Reads(h, p) = one
    BY <1>10 DEF Reads, f, l, line, one
  <2>2. one # <<>>
    BY <1>1, <1>7, EmptySeq
  <2>3. \A i \in 1..Len(line) : line[i] # Nl
    <3>1. ASSUME NEW i \in 1..Len(line)
          PROVE  line[i] # Nl
      <4>1. i \in 1..Len(l) \/ i = Len(l) + 1
        BY <1>6
      <4>2. QED
        BY <1>3, <1>6, <1>10, <4>1
    <3>2. QED
      BY <3>1
  <2>4. \A k \in 1..(Len(one) - 1) :
          one[k] # <<>> /\ \A i \in 1..(Len(one[k]) - 1) : one[k][i] # Nl
    BY <1>4, <1>7
  <2>5. c[n + 1] # Nl
    BY <1>10 DEF p
  <2>6. one[Len(one)] = line
    BY <1>7
  <2>7. Chunked(c, n + 1, one)
    BY <1>7, <1>8, <2>2, <2>3, <2>4, <2>5, <2>6 DEF Chunked
  <2>8. QED
    BY <2>1, <2>7 DEF p
<1>11. QED
  BY <1>9, <1>10

\* The function that reads the lines exists.
LEMMA ReadsExist ==
  ASSUME NEW c, NEW m \in Nat
  PROVE  \E f : f = [i \in 0..m |-> IF i = 0 THEN <<<<>>>> ELSE Reads(f[i - 1], c[i])]
<1> DEFINE Reading(f, k) ==
             f = [i \in 0..k |-> IF i = 0 THEN <<<<>>>> ELSE Reads(f[i - 1], c[i])]
           P == {k \in Nat : \E f : Reading(f, k)}
<1>1. 0 \in P
  <2>1. Reading([i \in 0..0 |-> <<<<>>>>], 0)
    OBVIOUS
  <2>2. QED
    BY <2>1
<1>2. ASSUME NEW k \in Nat, k \in P
      PROVE  k + 1 \in P
  <2>1. PICK f : Reading(f, k)
    BY <1>2
  <2> DEFINE g == [i \in 0..(k + 1) |-> IF i <= k THEN f[i] ELSE Reads(f[i - 1], c[i])]
  <2>2. ASSUME NEW i \in 0..(k + 1)
        PROVE  g[i] = IF i = 0 THEN <<<<>>>> ELSE Reads(g[i - 1], c[i])
    <3>1. i # 0 => i - 1 \in 0..k /\ i - 1 \in 0..(k + 1)
      BY <2>2
    <3>2. i # 0 => g[i - 1] = f[i - 1]
      BY <3>1
    <3>3. CASE i <= k
      <4>1. i \in 0..k
        BY <3>3
      <4>2. f[i] = IF i = 0 THEN <<<<>>>> ELSE Reads(f[i - 1], c[i])
        BY <2>1, <4>1
      <4>3. g[i] = f[i]
        BY <3>3
      <4>4. QED
        BY <3>2, <4>2, <4>3
    <3>4. CASE ~ (i <= k)
      <4>1. g[i] = Reads(f[i - 1], c[i]) /\ i # 0
        BY <3>4
      <4>2. QED
        BY <3>2, <4>1
    <3>5. QED
      BY <3>3, <3>4
  <2>3. Reading(g, k + 1)
    BY <2>2
  <2> HIDE DEF g, Reading
  <2>4. QED
    BY <2>3
<1>3. m \in P
  <2> HIDE DEF P
  <2>1. QED
    BY <1>1, <1>2, Induction
<1>4. QED
  BY <1>3

\* The lines that are handled are the text, cut behind its newlines, and only
\* there and where they are full.
LEMMA HandledIs ==
  ASSUME NEW c \in Seq(Piece)
  PROVE  Chunked(c, Len(c), Handled(c))
<1> DEFINE f == CHOOSE f : f = [i \in 0..Len(c) |->
                  IF i = 0 THEN <<<<>>>> ELSE Reads(f[i - 1], c[i])]
<1>1. Len(c) \in Nat
  OBVIOUS
<1>2. f = [i \in 0..Len(c) |-> IF i = 0 THEN <<<<>>>> ELSE Reads(f[i - 1], c[i])]
  BY <1>1, ReadsExist
<1>3. Handled(c) = f[Len(c)]
  BY DEF Handled, Reads
<1> HIDE DEF f
<1>4. \A i \in 0..Len(c) : f[i] = IF i = 0 THEN <<<<>>>> ELSE Reads(f[i - 1], c[i])
  BY <1>2
<1> DEFINE P == {k \in Nat : k <= Len(c) => Chunked(c, k, f[k])}
<1>5. 0 \in P
  <2> DEFINE e == <<<<>>>>
  <2>1. f[0] = e
    BY <1>1, <1>4
  <2>2. e \in Seq(Seq(Piece)) /\ Len(e) = 1 /\ e[1] = <<>> /\ Len(<<>>) = 0
    BY EmptySeq
  <2>3. e = Append(<<>>, <<>>) /\ <<>> \in Seq(Seq(Piece)) /\ <<>> \in Seq(Piece)
    OBVIOUS
  <2>4. e # <<>>
    OBVIOUS
  <2> HIDE DEF e
  <2>5. FlattenSeq(e) = <<>>
    <3>1. FlattenSeq(Append(<<>>, <<>>)) = FlattenSeq(<<>>) \o <<>>
      BY <2>3, FlattenAppend
    <3>2. <<>> \o <<>> = <<>>
      BY <2>3, ConcatEmptySeq
    <3>3. QED
      BY <2>3, <3>1, <3>2, FlattenEmpty, Zenon
  <2>6. SubSeq(c, 1, 0) = <<>>
    <3>1. SubSeq(c, 1, 0) \in Seq(Piece) /\ Len(SubSeq(c, 1, 0)) = 0
      BY <1>1, Firsts
    <3>2. QED
      BY <3>1, EmptySeq
  <2>7. Chunked(c, 0, e)
    BY <2>2, <2>4, <2>5, <2>6 DEF Chunked
  <2>8. QED
    BY <2>1, <2>7
<1>6. ASSUME NEW k \in Nat, k \in P
      PROVE  k + 1 \in P
  <2>1. SUFFICES ASSUME k + 1 <= Len(c)
                 PROVE  Chunked(c, k + 1, f[k + 1])
    OBVIOUS
  <2>2. Chunked(c, k, f[k])
    BY <1>1, <1>6, <2>1
  <2>3. k + 1 \in 0..Len(c) /\ k + 1 # 0 /\ (k + 1) - 1 = k
    BY <1>1, <2>1
  <2>4. f[k + 1] = Reads(f[k], c[k + 1])
    BY <1>4, <2>3
  <2>5. QED
    BY <2>1, <2>2, <2>4, ReadsStep
<1>7. Len(c) \in P
  <2> HIDE DEF P
  <2>1. QED
    BY <1>1, <1>5, <1>6, Induction
<1>8. QED
  BY <1>1, <1>3, <1>7

\* What a reader of the proofs below needs of them.
LEMMA HandledType ==
  ASSUME NEW c \in Seq(Piece)
  PROVE  /\ Handled(c) \in Seq(Seq(Piece)) /\ Len(Handled(c)) \in Nat \ {0}
         /\ DOMAIN Handled(c) = 1..Len(Handled(c))
         /\ \A k \in 1..Len(Handled(c)) : Handled(c)[k] \in Seq(Piece)
         /\ FlattenSeq(Handled(c)) = c
<1> DEFINE h == Handled(c)
<1>1. h \in Seq(Seq(Piece)) /\ h # <<>> /\ FlattenSeq(h) = SubSeq(c, 1, Len(c))
  BY HandledIs DEF Chunked
<1>2. SubSeq(c, 1, Len(c)) = c
  BY SubSeqFull
<1> HIDE DEF h
<1>3. Len(h) \in Nat \ {0} /\ DOMAIN h = 1..Len(h) /\ \A k \in 1..Len(h) : h[k] \in Seq(Piece)
  BY <1>1, EmptySeq
<1>4. QED
  BY <1>1, <1>2, <1>3, Zenon DEF h

-----------------------------------------------------------------------------
(* Reading on and back.                                                    *)

\* What goes around in goto_line and find.
Reading == [pos : Nat, state : {"good", "eof", "fail"}, line : Int, size : Int,
            block : BOOLEAN, ok : BOOLEAN, text : Seq(Piece)]

Read(p, s, l, n, b, o, t) ==
  [pos |-> p, state |-> s, line |-> l, size |-> n, block |-> b, ok |-> o, text |-> t]

Within(c, y) == y \in Reading /\ y.pos <= Len(c) /\ y.line >= Unknown

\* The least of a set of numbers.
LEMMA Least ==
  ASSUME NEW S, S \subseteq Nat, S # {}
  PROVE  Min(S) \in S /\ \A i \in S : Min(S) <= i
<1> DEFINE P == {k \in Nat : \A i \in S : k <= i}
<1>1. \E k \in S : k \in P
  <2>1. SUFFICES ASSUME \A k \in S : k \notin P
                 PROVE  FALSE
    OBVIOUS
  <2>2. 0 \in P
    OBVIOUS
  <2>3. ASSUME NEW k \in Nat, k \in P
        PROVE  k + 1 \in P
    <3>1. k \notin S
      BY <2>1, <2>3
    <3>2. QED
      BY <2>3, <3>1
  <2>4. PICK k \in S : TRUE
    OBVIOUS
  <2>5. k + 1 \in Nat /\ k + 1 \in P
    <3> HIDE DEF P
    <3>1. QED
      BY <2>2, <2>3, <2>4, Induction
  <2>6. QED
    BY <2>4, <2>5
<1>2. QED
  BY <1>1 DEF Min

\* The largest of a set of numbers with a bound.
LEMMA Largest ==
  ASSUME NEW n \in Nat, NEW S, S \subseteq 0..n, S # {}
  PROVE  Max(S) \in S /\ \A i \in S : Max(S) >= i
<1> DEFINE T == {n - i : i \in S}
<1>1. T \subseteq Nat /\ T # {}
  <2>1. \A i \in S : n - i \in Nat
    OBVIOUS
  <2>2. QED
    BY <2>1
<1>2. Min(T) \in T /\ \A i \in T : Min(T) <= i
  <2> HIDE DEF T
  <2>1. QED
    BY <1>1, Least
<1>3. PICK k \in S : Min(T) = n - k
  BY <1>2
<1>4. ASSUME NEW i \in S
      PROVE  k >= i
  <2>1. n - i \in T
    OBVIOUS
  <2>2. Min(T) <= n - i
    BY <1>2, <2>1
  <2>3. i \in Int /\ k \in Int
    OBVIOUS
  <2>4. QED
    BY <1>3, <2>2, <2>3
<1>5. QED
  BY <1>4 DEF Max

\* A record with these fields is a reader that goes on.
LEMMA IsRead ==
  ASSUME NEW y \in Reading
  PROVE  /\ y.pos \in Nat /\ y.state \in {"good", "eof", "fail"} /\ y.line \in Int
         /\ y.size \in Int /\ y.block \in BOOLEAN /\ y.ok \in BOOLEAN
         /\ y.text \in Seq(Piece)
BY DEF Reading

\* Reading on: there is more behind, and the size stays.
LEMMA NextLineIs ==
  ASSUME NEW c \in Seq(Piece), NEW y, Within(c, y)
  PROVE  /\ Within(c, NextLine(c, y))
         /\ NextLine(c, y).size = y.size
         /\ y.state # "fail" => NextLine(c, y).state # "fail"
         /\ y.state # "fail" /\ y.size > 1 /\ NextLine(c, y).ok
              => NextLine(c, y).pos > y.pos
<1> DEFINE S == {i \in Newlines(c) : i > y.pos}
           end == IF S = {} THEN Len(c) ELSE Min(S) - 1
           room == IF y.size > 0 THEN y.size - 1 ELSE 0
           z == NextLine(c, y)
<1>0. SUFFICES /\ z \in Reading /\ z.pos <= Len(c) /\ z.line >= -1
               /\ z.size = y.size
               /\ y.state # "fail" => z.state # "fail"
               /\ y.state # "fail" /\ y.size > 1 /\ z.ok => z.pos > y.pos
  BY DEF Within, Unknown
<1>1. /\ y \in Reading /\ y.pos \in Nat /\ y.pos <= Len(c) /\ Len(c) \in Nat
      /\ y.line \in Int /\ y.line >= -1 /\ y.size \in Int /\ y.ok \in BOOLEAN
      /\ y.state \in {"good", "eof", "fail"} /\ y.text \in Seq(Piece) /\ y.block \in BOOLEAN
  BY IsRead DEF Within, Unknown
<1>2. room \in Nat /\ room >= y.size - 1
  BY <1>1
<1>3. /\ end \in Nat /\ end <= Len(c) /\ end >= y.pos
      /\ S # {} => end + 1 \in 1..Len(c) /\ end + 1 > y.pos
  <2>1. S \subseteq 1..Len(c) /\ S \subseteq Nat /\ \A i \in S : i > y.pos
    BY <1>1 DEF Newlines
  <2>2. CASE S = {}
    <3>1. end = Len(c)
      BY <2>2
    <3>2. QED
      BY <1>1, <2>2, <3>1
  <2>3. CASE S # {}
    <3> DEFINE k == Min(S)
    <3>1. k \in S
      <4> HIDE DEF S
      <4>1. QED
        BY <2>1, <2>3, Least
    <3>2. end = k - 1
      BY <2>3
    <3>3. k \in 1..Len(c) /\ k > y.pos
      BY <2>1, <3>1
    <3> HIDE DEF end, k, S
    <3>4. QED
      BY <1>1, <2>3, <3>2, <3>3
  <2>4. QED
    BY <2>2, <2>3
<1>4. \/ y.state = "eof" /\ z = [y EXCEPT !.ok = FALSE]
      \/ y.state = "fail" /\ z = [y EXCEPT !.text = <<>>, !.line = @ + 1, !.block = TRUE,
                                           !.state = "good"]
      \/ y.state = "good" /\ y.pos = Len(c) /\ z = [y EXCEPT !.ok = FALSE, !.state = "eof"]
      \/ /\ y.state = "good" /\ y.pos < Len(c) /\ end - y.pos > room
         /\ z = [y EXCEPT !.text = SubSeq(c, y.pos + 1, y.pos + room), !.line = @ + 1,
                          !.pos = @ + room, !.block = TRUE]
      \/ /\ y.state = "good" /\ y.pos < Len(c) /\ ~ (end - y.pos > room)
         /\ z = [y EXCEPT !.text = SubSeq(c, y.pos + 1, end), !.line = @ + 1,
                          !.pos = IF S = {} THEN end ELSE end + 1,
                          !.state = IF S = {} THEN "eof" ELSE "good"]
  BY <1>1 DEF NextLine
<1> HIDE DEF S, end, room, z
<1>5. CASE y.state = "eof" /\ z = [y EXCEPT !.ok = FALSE]
  <2>1. z = Read(y.pos, y.state, y.line, y.size, y.block, FALSE, y.text)
    BY <1>1, <1>5 DEF Read, Reading
  <2>2. QED
    BY <1>1, <1>5, <2>1 DEF Read, Reading
<1>6. CASE y.state = "fail" /\ z = [y EXCEPT !.text = <<>>, !.line = @ + 1, !.block = TRUE,
                                             !.state = "good"]
  <2>0. y.state = "fail"
    BY <1>6
  <2>1. z = Read(y.pos, "good", y.line + 1, y.size, TRUE, y.ok, <<>>)
    BY <1>1, <1>6 DEF Read, Reading
  <2>2. <<>> \in Seq(Piece)
    OBVIOUS
  <2>3. QED
    BY <1>1, <2>0, <2>1, <2>2 DEF Read, Reading
<1>7. CASE y.state = "good" /\ y.pos = Len(c) /\ z = [y EXCEPT !.ok = FALSE, !.state = "eof"]
  <2>1. z = Read(y.pos, "eof", y.line, y.size, y.block, FALSE, y.text)
    BY <1>1, <1>7 DEF Read, Reading
  <2>2. QED
    BY <1>1, <1>7, <2>1 DEF Read, Reading
<1>8. CASE /\ y.state = "good" /\ y.pos < Len(c) /\ end - y.pos > room
           /\ z = [y EXCEPT !.text = SubSeq(c, y.pos + 1, y.pos + room), !.line = @ + 1,
                            !.pos = @ + room, !.block = TRUE]
  <2> DEFINE t == SubSeq(c, y.pos + 1, y.pos + room)
  <2>0. y.state = "good" /\ y.pos < Len(c) /\ end - y.pos > room
    BY <1>8
  <2>1. y.pos + room \in Nat /\ y.pos + room <= Len(c) /\ (y.size > 1 => room >= 1)
    <3>1. \A p \in Nat, r \in Nat, e \in Nat, n \in Nat :
            e <= n /\ e - p > r => p + r \in Nat /\ p + r <= n
      OBVIOUS
    <3>2. y.pos + room \in Nat /\ y.pos + room <= Len(c)
      BY <1>1, <1>2, <1>3, <2>0, <3>1
    <3>3. y.size > 1 => room >= 1
      BY <1>1, <1>2
    <3>4. QED
      BY <3>2, <3>3
  <2>2. t \in Seq(Piece)
    BY <1>1, <1>2, <2>1
  <2>3. z = [y EXCEPT !.text = t, !.line = @ + 1, !.pos = @ + room, !.block = TRUE]
    BY <1>8
  <2> HIDE DEF t
  <2>4. z = Read(y.pos + room, "good", y.line + 1, y.size, TRUE, y.ok, t)
    BY <1>1, <1>8, <2>3 DEF Read, Reading
  <2>5. QED
    BY <1>1, <1>2, <2>0, <2>1, <2>2, <2>4 DEF Read, Reading
<1>9. CASE /\ y.state = "good" /\ y.pos < Len(c) /\ ~ (end - y.pos > room)
           /\ z = [y EXCEPT !.text = SubSeq(c, y.pos + 1, end), !.line = @ + 1,
                            !.pos = IF S = {} THEN end ELSE end + 1,
                            !.state = IF S = {} THEN "eof" ELSE "good"]
  <2> DEFINE t == SubSeq(c, y.pos + 1, end)
             p == IF S = {} THEN end ELSE end + 1
             s == IF S = {} THEN "eof" ELSE "good"
  <2>1. z = [y EXCEPT !.text = t, !.line = @ + 1, !.pos = p, !.state = s]
    BY <1>9
  <2>0. y.state = "good" /\ y.pos < Len(c)
    BY <1>9
  <2>2. p \in Nat /\ p <= Len(c) /\ p > y.pos
    <3>1. S = {} => end = Len(c)
      BY DEF end
    <3>2. QED
      BY <1>1, <1>3, <2>0, <3>1
  <2>3. t \in Seq(Piece) /\ s \in {"good", "eof"}
    BY <1>1, <1>3
  <2> HIDE DEF t, p, s
  <2>4. z = Read(p, s, y.line + 1, y.size, y.block, y.ok, t)
    BY <1>1, <2>1 DEF Read, Reading
  <2>5. QED
    BY <1>1, <2>0, <2>2, <2>3, <2>4 DEF Read, Reading
<1>10. QED
  BY <1>4, <1>5, <1>6, <1>7, <1>8, <1>9

\* How far a search that goes back can still get, for its position and for what
\* it reads at once.
Left(c, y) ==
  LET m == IF y.size > Len(c) THEN Len(c) ELSE y.size
  IN  IF y.pos > m THEN y.pos ELSE m

\* Reading back: there is less in front, unless the text begins with more than
\* is read at once.
LEMMA PreviousLineIs ==
  ASSUME NEW c \in Seq(Piece), NEW y, Within(c, y)
  PROVE  /\ Within(c, PreviousLine(c, y))
         /\ PreviousLine(c, y).state # "fail"
         /\ PreviousLine(c, y).ok
              => \/ \A i \in Newlines(c) : i > LineSize
                 \/ Left(c, PreviousLine(c, y)) < Left(c, y)
<1> DEFINE from == IF y.pos > y.size THEN y.pos - y.size ELSE 0
           to == IF Len(c) > from + y.size THEN from + y.size ELSE Len(c)
           got == SubSeq(c, from + 1, to)
           i == Max(Newlines(got))
           z == PreviousLine(c, y)
<1>0. SUFFICES /\ z \in Reading /\ z.pos <= Len(c) /\ z.line >= -1
               /\ z.state # "fail"
               /\ z.ok => \/ \A j \in Newlines(c) : j > LineSize
                          \/ Left(c, z) < Left(c, y)
  BY DEF Within, Unknown
<1>1. /\ y \in Reading /\ y.pos \in Nat /\ y.pos <= Len(c) /\ Len(c) \in Nat
      /\ y.line \in Int /\ y.line >= -1 /\ y.size \in Int /\ y.ok \in BOOLEAN
      /\ y.state \in {"good", "eof", "fail"} /\ y.text \in Seq(Piece) /\ y.block \in BOOLEAN
  BY IsRead DEF Within, Unknown
<1>2. LineSize \in Nat \ {0}
  BY TextsAssumption
<1>3. \/ y.size < 0 /\ z = [y EXCEPT !.ok = FALSE, !.pos = IF c = <<>> THEN 0 ELSE 1,
                                     !.state = "eof"]
      \/ /\ y.size >= 0 /\ got = <<>>
         /\ z = [y EXCEPT !.ok = FALSE, !.pos = from,
                          !.state = IF y.size = 0 THEN "good" ELSE "eof"]
      \/ /\ y.size >= 0 /\ got # <<>> /\ Newlines(got) # {}
         /\ z = [y EXCEPT !.text = SubSeq(got, i + 1, Len(got)), !.line = Upwards(@),
                          !.state = "good", !.pos = IF from = 0 THEN 0 ELSE from + i - 1,
                          !.size = IF from = 0 THEN i - 2 ELSE @]
      \/ /\ y.size >= 0 /\ got # <<>> /\ Newlines(got) = {}
         /\ z = [y EXCEPT !.text = got, !.pos = from, !.line = Upwards(@),
                          !.state = "good", !.block = @ \/ y.size = LineSize,
                          !.ok = y.size = LineSize /\ Len(got) = y.size]
  <2>1. z = IF y.size < 0
            THEN [y EXCEPT !.ok = FALSE, !.pos = IF c = <<>> THEN 0 ELSE 1, !.state = "eof"]
            ELSE IF got = <<>>
            THEN [y EXCEPT !.ok = FALSE, !.pos = from,
                           !.state = IF y.size = 0 THEN "good" ELSE "eof"]
            ELSE IF Newlines(got) # {}
            THEN [y EXCEPT !.text = SubSeq(got, i + 1, Len(got)), !.line = Upwards(@),
                           !.state = "good", !.pos = IF from = 0 THEN 0 ELSE from + i - 1,
                           !.size = IF from = 0 THEN i - 2 ELSE @]
            ELSE [y EXCEPT !.text = got, !.pos = from, !.line = Upwards(@),
                           !.state = "good", !.block = @ \/ y.size = LineSize,
                           !.ok = y.size = LineSize /\ Len(got) = y.size]
    BY Zenon DEF PreviousLine, FilterLine
  <2>2. y.size < 0 \/ y.size >= 0
    BY <1>1
  <2>3. ~ (y.size < 0 /\ y.size >= 0)
    BY <1>1
  <2> HIDE DEF from, to, got, i, z
  <2>4. QED
    BY <2>1, <2>2, <2>3, Zenon
<1>4. ASSUME y.size >= 0
      PROVE  /\ from \in Nat /\ from <= y.pos /\ to \in Nat /\ to <= Len(c) /\ to <= from + y.size
             /\ from > 0 => y.pos = from + y.size /\ to = y.pos
             /\ from = 0 => y.pos <= y.size
             /\ from = 0 /\ y.size <= Len(c) => to = y.size
             /\ from = 0 /\ y.size > Len(c) => to = Len(c)
             /\ got \in Seq(Piece) /\ Len(got) = IF to >= from THEN to - from ELSE 0
             /\ \A k \in 1..Len(got) : got[k] = c[from + k]
  <2>1. /\ from \in Nat /\ from <= y.pos /\ to \in Nat /\ to <= Len(c) /\ to <= from + y.size
        /\ from > 0 => y.pos = from + y.size /\ to = y.pos
        /\ from = 0 => y.pos <= y.size
        /\ from = 0 /\ y.size <= Len(c) => to = y.size
        /\ from = 0 /\ y.size > Len(c) => to = Len(c)
    <3>1. /\ from \in Nat /\ from <= y.pos
          /\ from > 0 => y.pos = from + y.size
          /\ from = 0 => y.pos <= y.size
      <4>1. y.pos \in Nat /\ y.size \in Nat
        BY <1>1, <1>4
      <4>2. from = IF y.pos > y.size THEN y.pos - y.size ELSE 0
        OBVIOUS
      <4> HIDE DEF from
      <4>3. QED
        BY <4>1, <4>2
    <3>2. to = IF Len(c) > from + y.size THEN from + y.size ELSE Len(c)
      OBVIOUS
    <3> HIDE DEF from, to
    <3>3. to \in Nat /\ to <= Len(c) /\ to <= from + y.size
      BY <1>1, <1>4, <3>1, <3>2
    <3>4. from > 0 => to = y.pos
      BY <1>1, <1>4, <3>1, <3>2
    <3>5. /\ from = 0 /\ y.size <= Len(c) => to = y.size
          /\ from = 0 /\ y.size > Len(c) => to = Len(c)
      BY <1>1, <1>4, <3>2
    <3>6. QED
      BY <3>1, <3>3, <3>4, <3>5
  <2>2. from + 1 \in Nat /\ from + 1 >= 1 /\ to - (from + 1) + 1 = to - from
    BY <2>1
  <2> HIDE DEF from, to
  <2>3. /\ got \in Seq(Piece) /\ Len(got) = IF to >= from THEN to - from ELSE 0
        /\ \A k \in 1..Len(got) : got[k] = c[from + k]
    BY <2>1, <2>2
  <2>4. QED
    BY <2>1, <2>3
<1>5. Upwards(y.line) \in Int /\ Upwards(y.line) >= -1
  BY <1>1 DEF Upwards
<1>6. Left(c, y) \in Int /\ Left(c, y) >= y.pos /\ Left(c, y) >= IF y.size > Len(c) THEN Len(c) ELSE y.size
  BY <1>1 DEF Left
<1> HIDE DEF from, to, got, i, z
<1>7. CASE y.size < 0 /\ z = [y EXCEPT !.ok = FALSE, !.pos = IF c = <<>> THEN 0 ELSE 1,
                                       !.state = "eof"]
  <2> DEFINE p == IF c = <<>> THEN 0 ELSE 1
  <2>1. p \in Nat /\ p <= Len(c)
    BY <1>1, EmptySeq
  <2>2. z = [y EXCEPT !.ok = FALSE, !.pos = p, !.state = "eof"]
    BY <1>7
  <2> HIDE DEF p
  <2>3. z = Read(p, "eof", y.line, y.size, y.block, FALSE, y.text)
    BY <1>1, <2>2 DEF Read, Reading
  <2>4. QED
    BY <1>1, <2>1, <2>3 DEF Read, Reading
<1>8. CASE /\ y.size >= 0 /\ got = <<>>
           /\ z = [y EXCEPT !.ok = FALSE, !.pos = from,
                            !.state = IF y.size = 0 THEN "good" ELSE "eof"]
  <2> DEFINE s == IF y.size = 0 THEN "good" ELSE "eof"
  <2>1. s \in {"good", "eof"} /\ from \in Nat /\ from <= Len(c)
    BY <1>1, <1>4, <1>8
  <2>2. z = [y EXCEPT !.ok = FALSE, !.pos = from, !.state = s]
    BY <1>8
  <2> HIDE DEF s
  <2>3. z = Read(from, s, y.line, y.size, y.block, FALSE, y.text)
    BY <1>1, <2>2 DEF Read, Reading
  <2>4. QED
    BY <1>1, <2>1, <2>3 DEF Read, Reading
<1>9. CASE /\ y.size >= 0 /\ got # <<>> /\ Newlines(got) # {}
           /\ z = [y EXCEPT !.text = SubSeq(got, i + 1, Len(got)), !.line = Upwards(@),
                            !.state = "good", !.pos = IF from = 0 THEN 0 ELSE from + i - 1,
                            !.size = IF from = 0 THEN i - 2 ELSE @]
  <2>0. y.size >= 0 /\ Newlines(got) # {}
    BY <1>9
  <2>1. i \in 1..Len(got) /\ Len(got) \in Nat
    <3>1. Newlines(got) \subseteq 0..Len(got) /\ Newlines(got) \subseteq 1..Len(got) /\ Len(got) \in Nat
      BY <1>4, <2>0 DEF Newlines
    <3>2. i \in Newlines(got)
      BY <2>0, <3>1, Largest DEF i
    <3>3. QED
      BY <3>1, <3>2
  <2> DEFINE t == SubSeq(got, i + 1, Len(got))
             p == IF from = 0 THEN 0 ELSE from + i - 1
             n == IF from = 0 THEN i - 2 ELSE y.size
             l == Upwards(y.line)
  <2>2. t \in Seq(Piece)
    BY <1>4, <2>0, <2>1
  <2>3. p \in Nat /\ p <= Len(c) /\ n \in Int
    BY <1>1, <1>4, <2>0, <2>1
  <2>4. z = [y EXCEPT !.text = t, !.line = l, !.state = "good", !.pos = p, !.size = n]
    BY <1>9
  <2>5. n < Left(c, y) /\ p < Left(c, y)
    <3>1. CASE from = 0
      <4>1. p = 0 /\ n = i - 2 /\ i <= to /\ to <= Left(c, y) /\ to \in Nat
        BY <1>1, <1>4, <1>6, <2>0, <2>1, <3>1
      <4> HIDE DEF p, n
      <4>3. Left(c, y) \in Int
        BY <1>6
      <4>2. QED
        BY <2>1, <4>1, <4>3
    <3>2. CASE from # 0
      <4>1. p = from + i - 1 /\ n = y.size /\ i <= to - from /\ to = y.pos /\ y.pos = from + y.size
            /\ from \in Nat /\ from # 0
        BY <1>1, <1>4, <2>0, <2>1, <3>2
      <4>3. Left(c, y) \in Int /\ Left(c, y) >= y.pos
        BY <1>6
      <4> HIDE DEF p, n
      <4>2. QED
        <5>1. i \in Nat /\ y.pos \in Nat /\ y.size \in Int
          BY <1>1, <2>1
        <5>2. p <= y.pos - 1 /\ p \in Int
          <6>1. i <= y.pos - from /\ from \in Nat
            BY <4>1
          <6>2. p = from + i - 1
            BY <4>1
          <6>3. QED
            BY <5>1, <6>1, <6>2
        <5>3. n < y.pos
          BY <4>1, <5>1
        <5>4. n \in Int
          BY <4>1, <5>1
        <5>5. QED
          BY <4>3, <5>1, <5>2, <5>3, <5>4
    <3>3. QED
      BY <3>1, <3>2
  <2> HIDE DEF t, p, n, l
  <2>6. z = Read(p, "good", l, n, y.block, y.ok, t)
    BY <1>1, <2>4 DEF Read, Reading
  <2>7. z.pos = p /\ z.size = n
    BY <2>6 DEF Read
  <2>8. Left(c, z) < Left(c, y)
    <3>1. Left(c, z) = IF p > (IF n > Len(c) THEN Len(c) ELSE n) THEN p
                       ELSE IF n > Len(c) THEN Len(c) ELSE n
      BY <2>7 DEF Left
    <3>2. QED
      BY <1>1, <1>6, <2>3, <2>5, <3>1
  <2>9. l \in Int /\ l >= -1
    BY <1>5 DEF l
  <2>10. z \in Reading /\ z.pos <= Len(c) /\ z.line >= -1 /\ z.state # "fail"
    BY <1>1, <2>2, <2>3, <2>6, <2>9 DEF Read, Reading
  <2>11. QED
    BY <2>8, <2>10
<1>10. CASE /\ y.size >= 0 /\ got # <<>> /\ Newlines(got) = {}
            /\ z = [y EXCEPT !.text = got, !.pos = from, !.line = Upwards(@),
                             !.state = "good", !.block = @ \/ y.size = LineSize,
                             !.ok = y.size = LineSize /\ Len(got) = y.size]
  <2>0. y.size >= 0 /\ Newlines(got) = {}
    BY <1>10
  <2> DEFINE l == Upwards(y.line)
             b == y.block \/ y.size = LineSize
             o == y.size = LineSize /\ Len(got) = y.size
  <2>1. z = [y EXCEPT !.text = got, !.pos = from, !.line = l, !.state = "good",
                      !.block = b, !.ok = o]
    BY <1>10
  <2>2. b \in BOOLEAN /\ o \in BOOLEAN
    BY Zenon
  <2>3. l \in Int /\ l >= -1
    BY <1>5
  <2>4. ASSUME o
        PROVE  \/ \A j \in Newlines(c) : j > LineSize
               \/ from < Left(c, y) /\ y.size < Left(c, y)
    <3>1. y.size = LineSize /\ Len(got) = y.size
      BY <2>4
    <3>2. CASE from = 0
      <4>1. ASSUME NEW j \in Newlines(c), ~ (j > LineSize)
            PROVE  FALSE
        <5>1. j \in 1..Len(c) /\ c[j] = Nl
          BY DEF Newlines
        <5>2. j \in 1..Len(got)
          BY <1>2, <3>1, <4>1, <5>1
        <5>3. got[j] = c[0 + j]
          BY <1>4, <2>0, <3>2, <5>2
        <5>4. DOMAIN got = 1..Len(got)
          BY <1>4, <2>0
        <5>5. j \in Newlines(got)
          BY <5>1, <5>2, <5>3, <5>4 DEF Newlines
        <5>6. QED
          BY <2>0, <5>5
      <4>2. QED
        <5>1. \A j \in Newlines(c) : j \in Int /\ LineSize \in Int
          BY <1>1, <1>2 DEF Newlines
        <5>2. QED
          BY <4>1, <5>1
    <3>3. CASE from # 0
      <4>1. from \in Nat /\ from # 0 /\ y.pos = from + y.size /\ y.size >= 1
        BY <1>2, <1>4, <2>0, <3>1, <3>3
      <4>2. QED
        BY <1>1, <1>6, <4>1
    <3>4. QED
      BY <3>2, <3>3
  <2>5. from \in Nat /\ from <= Len(c) /\ got \in Seq(Piece)
    BY <1>1, <1>4, <2>0
  <2> HIDE DEF l, b, o
  <2>6. /\ z.pos = from /\ z.size = y.size /\ z.state = "good" /\ z.line = l /\ z.text = got
        /\ z.block = b /\ z.ok = o
    BY <1>1, <2>1 DEF Reading
  <2>7. z = Read(from, "good", l, y.size, b, o, got)
    BY <1>1, <2>1 DEF Read, Reading
  <2>8. z \in Reading
    BY <1>1, <2>2, <2>3, <2>5, <2>7 DEF Read, Reading
  <2>9. from < Left(c, y) /\ y.size < Left(c, y) => Left(c, z) < Left(c, y)
    <3>1. Left(c, z) = IF from > (IF y.size > Len(c) THEN Len(c) ELSE y.size) THEN from
                       ELSE IF y.size > Len(c) THEN Len(c) ELSE y.size
      BY <2>6 DEF Left
    <3>2. QED
      BY <1>1, <1>6, <2>5, <3>1
  <2>10. QED
    BY <2>3, <2>4, <2>5, <2>6, <2>8, <2>9
<1>11. QED
  BY <1>3, <1>7, <1>8, <1>9, <1>10

\* Whether the loop goes on, for find and for goto_line forward and back.
Goes(kind, arg, y) ==
  CASE kind = "find" -> arg \notin Range(y.text)
    [] kind = "below" -> y.line < arg
    [] kind = "above" -> y.line > arg

Turn(c, kind, arg, way, y) ==
  IF ~y.ok \/ ~Goes(kind, arg, y) THEN y
  ELSE IF way = "forward" THEN NextLine(c, y)
  ELSE PreviousLine(c, y)

\* The turns of the loop.
Turns(f, c, x, m, kind, arg, way) ==
  f = [n \in 0..m |-> IF n = 0 THEN x ELSE Turn(c, kind, arg, way, f[n - 1])]

\* The function that goes from turn to turn exists, and ends where Loop does.
LEMMA TurnsExist ==
  ASSUME NEW c, NEW x, NEW m \in Nat, NEW kind, NEW arg, NEW way
  PROVE  \E f : Turns(f, c, x, m, kind, arg, way)
<1> DEFINE T(f, k) == Turns(f, c, x, k, kind, arg, way)
           P == {k \in Nat : \E f : T(f, k)}
<1>1. 0 \in P
  <2>1. T([n \in 0..0 |-> x], 0)
    BY DEF Turns
  <2>2. QED
    BY <2>1
<1>2. ASSUME NEW k \in Nat, k \in P
      PROVE  k + 1 \in P
  <2>1. PICK f : T(f, k)
    BY <1>2
  <2> DEFINE g == [n \in 0..(k + 1) |-> IF n <= k THEN f[n]
                                        ELSE Turn(c, kind, arg, way, f[n - 1])]
  <2>2. ASSUME NEW n \in 0..(k + 1)
        PROVE  g[n] = IF n = 0 THEN x ELSE Turn(c, kind, arg, way, g[n - 1])
    <3>1. n # 0 => n - 1 \in 0..k /\ n - 1 \in 0..(k + 1)
      BY <2>2
    <3>2. n # 0 => g[n - 1] = f[n - 1]
      BY <3>1
    <3>3. CASE n <= k
      <4>1. n \in 0..k
        BY <3>3
      <4>2. f[n] = IF n = 0 THEN x ELSE Turn(c, kind, arg, way, f[n - 1])
        BY <2>1, <4>1 DEF Turns
      <4>3. g[n] = f[n]
        BY <3>3
      <4>4. QED
        BY <3>2, <4>2, <4>3
    <3>4. CASE ~ (n <= k)
      <4>1. g[n] = Turn(c, kind, arg, way, f[n - 1]) /\ n # 0
        BY <3>4
      <4>2. QED
        BY <3>2, <4>1
    <3>5. QED
      BY <3>3, <3>4
  <2>3. T(g, k + 1)
    BY <2>2 DEF Turns
  <2> HIDE DEF g, T
  <2>4. QED
    BY <2>3
<1>3. m \in P
  <2> HIDE DEF P
  <2>1. QED
    BY <1>1, <1>2, Induction
<1>4. QED
  BY <1>3

\* The loops of find and of goto_line.
Finds(c, x, m, way, w) == Loop(c, x, m, way, LAMBDA y : w \notin Range(y.text))
Comes(c, x, m, way, no) == Loop(c, x, m, way, LAMBDA y : y.line < no)
Rises(c, x, m, way, no) == Loop(c, x, m, way, LAMBDA y : y.line > no)

\* What a loop ends with is its last turn.
LEMMA FindTurns ==
  ASSUME NEW c, NEW x, NEW m \in Nat, NEW w, NEW way
  PROVE  \E f : /\ Turns(f, c, x, m, "find", w, way)
                /\ Finds(c, x, m, way, w) = f[m]
<1> DEFINE E(run) ==
      run = [n \in 0..m |->
               IF n = 0 THEN x
               ELSE IF ~run[n - 1].ok \/ ~(w \notin Range(run[n - 1].text)) THEN run[n - 1]
               ELSE IF way = "forward" THEN NextLine(c, run[n - 1])
               ELSE PreviousLine(c, run[n - 1])]
<1>1. \A run : E(run) <=> Turns(run, c, x, m, "find", w, way)
  BY DEF Turns, Turn, Goes
<1>2. \E run : E(run)
  <2> HIDE DEF E
  <2>1. QED
    BY <1>1, TurnsExist
<1>3. Finds(c, x, m, way, w) = (CHOOSE run : E(run))[m]
  BY DEF Finds, Loop
<1>4. QED
  <2> HIDE DEF E
  <2>1. E(CHOOSE run : E(run))
    BY <1>2
  <2>2. QED
    BY <1>1, <1>3, <2>1

\* The same of the loops of goto_line,
LEMMA BelowTurns ==
  ASSUME NEW c, NEW x, NEW m \in Nat, NEW no, NEW way
  PROVE  \E f : /\ Turns(f, c, x, m, "below", no, way)
                /\ Comes(c, x, m, way, no) = f[m]
<1> DEFINE E(run) ==
      run = [n \in 0..m |->
               IF n = 0 THEN x
               ELSE IF ~run[n - 1].ok \/ ~(run[n - 1].line < no) THEN run[n - 1]
               ELSE IF way = "forward" THEN NextLine(c, run[n - 1])
               ELSE PreviousLine(c, run[n - 1])]
<1>1. \A run : E(run) <=> Turns(run, c, x, m, "below", no, way)
  BY DEF Turns, Turn, Goes
<1>2. \E run : E(run)
  <2> HIDE DEF E
  <2>1. QED
    BY <1>1, TurnsExist
<1>3. Comes(c, x, m, way, no) = (CHOOSE run : E(run))[m]
  BY DEF Comes, Loop
<1>4. QED
  <2> HIDE DEF E
  <2>1. E(CHOOSE run : E(run))
    BY <1>2
  <2>2. QED
    BY <1>1, <1>3, <2>1

\* downwards and upwards.
LEMMA AboveTurns ==
  ASSUME NEW c, NEW x, NEW m \in Nat, NEW no, NEW way
  PROVE  \E f : /\ Turns(f, c, x, m, "above", no, way)
                /\ Rises(c, x, m, way, no) = f[m]
<1> DEFINE E(run) ==
      run = [n \in 0..m |->
               IF n = 0 THEN x
               ELSE IF ~run[n - 1].ok \/ ~(run[n - 1].line > no) THEN run[n - 1]
               ELSE IF way = "forward" THEN NextLine(c, run[n - 1])
               ELSE PreviousLine(c, run[n - 1])]
<1>1. \A run : E(run) <=> Turns(run, c, x, m, "above", no, way)
  BY DEF Turns, Turn, Goes
<1>2. \E run : E(run)
  <2> HIDE DEF E
  <2>1. QED
    BY <1>1, TurnsExist
<1>3. Rises(c, x, m, way, no) = (CHOOSE run : E(run))[m]
  BY DEF Rises, Loop
<1>4. QED
  <2> HIDE DEF E
  <2>1. E(CHOOSE run : E(run))
    BY <1>2
  <2>2. QED
    BY <1>1, <1>3, <2>1

\* Every turn stays in the text, and reading on keeps the size.
Stays(c, x, way, y) ==
  /\ Within(c, y)
  /\ x.state # "fail" => y.state # "fail"
  /\ way = "forward" => y.size = x.size

\* Every turn is in the text, and has gone on if the next one does.
LEMMA TurnsWithin ==
  ASSUME NEW c \in Seq(Piece), NEW x, Within(c, x), NEW m \in Nat, NEW kind, NEW arg,
         NEW way, NEW f, Turns(f, c, x, m, kind, arg, way)
  PROVE  \A n \in 0..m : Stays(c, x, way, f[n])
<1> DEFINE Good(n) == /\ Within(c, f[n])
                      /\ x.state # "fail" => f[n].state # "fail"
                      /\ way = "forward" => f[n].size = x.size
           P == {n \in Nat : n <= m => Good(n)}
<1>1. \A n \in 0..m : f[n] = IF n = 0 THEN x ELSE Turn(c, kind, arg, way, f[n - 1])
  BY DEF Turns
<1>2. 0 \in P
  BY <1>1
<1>3. ASSUME NEW n \in Nat, n \in P
      PROVE  n + 1 \in P
  <2>1. SUFFICES ASSUME n + 1 <= m
                 PROVE  Good(n + 1)
    OBVIOUS
  <2>2. Good(n)
    BY <1>3, <2>1
  <2>3. n + 1 \in 0..m /\ n + 1 # 0 /\ (n + 1) - 1 = n
    BY <2>1
  <2>4. f[n + 1] = Turn(c, kind, arg, way, f[n])
    BY <1>1, <2>3
  <2>5. CASE ~f[n].ok \/ ~Goes(kind, arg, f[n])
    <3>1. f[n + 1] = f[n]
      BY <2>4, <2>5 DEF Turn
    <3>2. QED
      BY <2>2, <3>1
  <2>6. CASE ~(~f[n].ok \/ ~Goes(kind, arg, f[n])) /\ way = "forward"
    <3>1. f[n + 1] = NextLine(c, f[n])
      BY <2>4, <2>6 DEF Turn
    <3>2. /\ Within(c, NextLine(c, f[n]))
          /\ NextLine(c, f[n]).size = f[n].size
          /\ f[n].state # "fail" => NextLine(c, f[n]).state # "fail"
      BY <2>2, NextLineIs
    <3>3. QED
      BY <2>2, <3>1, <3>2
  <2>7. CASE ~(~f[n].ok \/ ~Goes(kind, arg, f[n])) /\ way # "forward"
    <3>1. f[n + 1] = PreviousLine(c, f[n])
      BY <2>4, <2>7 DEF Turn
    <3>2. /\ Within(c, PreviousLine(c, f[n]))
          /\ PreviousLine(c, f[n]).state # "fail"
      BY <2>2, PreviousLineIs
    <3>3. QED
      BY <2>7, <3>1, <3>2
  <2>8. QED
    BY <2>5, <2>6, <2>7
<1>4. \A n \in Nat : n \in P
  <2> HIDE DEF P
  <2>1. QED
    BY <1>2, <1>3, Induction
<1>5. QED
  BY <1>4 DEF Stays

\* A search that still goes on after so many turns has come so far.
LEMMA SearchForward ==
  ASSUME NEW c \in Seq(Piece), NEW x, Within(c, x), x.state # "fail", x.size > 1,
         NEW m \in Nat, NEW w, NEW way, way = "forward",
         NEW f, Turns(f, c, x, m, "find", w, way)
  PROVE  \A n \in 0..m : f[n].ok /\ Goes("find", w, f[n]) => f[n].pos >= n
<1> DEFINE Good(n) == f[n].ok /\ Goes("find", w, f[n]) => f[n].pos >= n
           P == {n \in Nat : n <= m => Good(n)}
<1>1. \A n \in 0..m : f[n] = IF n = 0 THEN x ELSE Turn(c, "find", w, way, f[n - 1])
  BY DEF Turns
<1>2. \A n \in 0..m : Within(c, f[n]) /\ f[n].state # "fail" /\ f[n].size = x.size
  <2>1. \A n \in 0..m : Stays(c, x, way, f[n])
    BY TurnsWithin
  <2>2. ASSUME NEW n \in 0..m
        PROVE  Within(c, f[n]) /\ f[n].state # "fail" /\ f[n].size = x.size
    BY <2>1 DEF Stays
  <2>3. QED
    BY <2>2
<1>3. \A n \in 0..m : f[n].pos \in Nat
  BY <1>2, IsRead DEF Within
<1>4. 0 \in P
  BY <1>3
<1>5. ASSUME NEW n \in Nat, n \in P
      PROVE  n + 1 \in P
  <2>1. SUFFICES ASSUME n + 1 <= m, f[n + 1].ok, Goes("find", w, f[n + 1])
                 PROVE  f[n + 1].pos >= n + 1
    OBVIOUS
  <2>2. n + 1 \in 0..m /\ n + 1 # 0 /\ (n + 1) - 1 = n /\ n \in 0..m
    BY <2>1
  <2>3. f[n + 1] = Turn(c, "find", w, way, f[n])
    BY <1>1, <2>2
  <2>4. f[n].ok /\ Goes("find", w, f[n])
    <3>1. SUFFICES ASSUME ~f[n].ok \/ ~Goes("find", w, f[n])
                   PROVE  FALSE
      OBVIOUS
    <3>2. f[n + 1] = f[n]
      BY <2>3, <3>1 DEF Turn
    <3>3. QED
      BY <2>1, <3>1, <3>2
  <2>5. f[n].pos >= n
    BY <1>5, <2>2, <2>4
  <2>6. f[n + 1] = NextLine(c, f[n])
    BY <2>3, <2>4 DEF Turn
  <2>7. Within(c, f[n]) /\ f[n].state # "fail" /\ f[n].size > 1
    BY <1>2, <2>2
  <2>8. NextLine(c, f[n]).pos > f[n].pos
    BY <2>1, <2>6, <2>7, NextLineIs
  <2>9. f[n + 1].pos > f[n].pos
    BY <2>6, <2>8
  <2>10. f[n].pos \in Nat /\ f[n + 1].pos \in Nat
    BY <1>3, <2>2
  <2>11. \A i \in Nat, j \in Nat : i >= n /\ j > i => j >= n + 1
    OBVIOUS
  <2>12. QED
    BY <2>5, <2>9, <2>10, <2>11
<1>6. \A n \in Nat : n \in P
  <2> HIDE DEF P
  <2>1. QED
    BY <1>4, <1>5, Induction
<1>7. QED
  BY <1>6

\* On the way back a measure decreases with each turn, unless the text begins
\* with more than is read at once.
LEMMA SearchBack ==
  ASSUME NEW c \in Seq(Piece), NEW x, Within(c, x),
         NEW m \in Nat, NEW w, NEW way, way # "forward",
         NEW f, Turns(f, c, x, m, "find", w, way),
         ~ (\A i \in Newlines(c) : i > LineSize)
  PROVE  \A n \in 0..m : f[n].ok /\ Goes("find", w, f[n]) => Left(c, f[n]) <= Left(c, x) - n
<1> DEFINE Good(n) == f[n].ok /\ Goes("find", w, f[n]) => Left(c, f[n]) <= Left(c, x) - n
           P == {n \in Nat : n <= m => Good(n)}
<1>1. \A n \in 0..m : f[n] = IF n = 0 THEN x ELSE Turn(c, "find", w, way, f[n - 1])
  BY DEF Turns
<1>2. \A n \in 0..m : Within(c, f[n])
  <2>1. \A n \in 0..m : Stays(c, x, way, f[n])
    BY TurnsWithin
  <2>2. QED
    BY <2>1 DEF Stays
<1>3. \A y : Within(c, y) => Left(c, y) \in Int
  <2>1. ASSUME NEW y, Within(c, y)
        PROVE  Left(c, y) \in Int
    <3>1. y.pos \in Nat /\ y.size \in Int /\ Len(c) \in Nat
      BY <2>1, IsRead DEF Within
    <3>2. QED
      BY <3>1 DEF Left
  <2>2. QED
    BY <2>1
<1>4. 0 \in P
  <2>1. 0 \in 0..m
    OBVIOUS
  <2>2. f[0] = x
    BY <1>1, <2>1
  <2>3. Left(c, x) \in Int
    BY <1>3
  <2>4. Left(c, f[0]) <= Left(c, x) - 0
    BY <2>2, <2>3
  <2>5. QED
    BY <2>4
<1>5. ASSUME NEW n \in Nat, n \in P
      PROVE  n + 1 \in P
  <2>1. SUFFICES ASSUME n + 1 <= m, f[n + 1].ok, Goes("find", w, f[n + 1])
                 PROVE  Left(c, f[n + 1]) <= Left(c, x) - (n + 1)
    OBVIOUS
  <2>2. n + 1 \in 0..m /\ n + 1 # 0 /\ (n + 1) - 1 = n /\ n \in 0..m
    BY <2>1
  <2>3. f[n + 1] = Turn(c, "find", w, way, f[n])
    BY <1>1, <2>2
  <2>4. f[n].ok /\ Goes("find", w, f[n])
    <3>1. SUFFICES ASSUME ~f[n].ok \/ ~Goes("find", w, f[n])
                   PROVE  FALSE
      OBVIOUS
    <3>2. f[n + 1] = f[n]
      BY <2>3, <3>1 DEF Turn
    <3>3. QED
      BY <2>1, <3>1, <3>2
  <2>5. Left(c, f[n]) <= Left(c, x) - n
    BY <1>5, <2>2, <2>4
  <2>6. f[n + 1] = PreviousLine(c, f[n])
    BY <2>3, <2>4 DEF Turn
  <2>7. Within(c, f[n])
    BY <1>2, <2>2
  <2>8. Left(c, PreviousLine(c, f[n])) < Left(c, f[n])
    BY <2>1, <2>6, <2>7, PreviousLineIs
  <2>9. Left(c, f[n + 1]) < Left(c, f[n])
    BY <2>6, <2>8
  <2>10. Left(c, f[n]) \in Int /\ Left(c, f[n + 1]) \in Int /\ Left(c, x) \in Int
    BY <1>2, <1>3, <2>2
  <2>11. QED
    BY <2>5, <2>9, <2>10
<1>6. \A n \in Nat : n \in P
  <2> HIDE DEF P
  <2>1. QED
    BY <1>4, <1>5, Induction
<1>7. QED
  BY <1>6

-----------------------------------------------------------------------------
(* Moving.                                                                 *)

\* A reader that is somewhere in the text.
Inside(c, r) == r \in Reader /\ r.pos <= Len(c) /\ r.line >= Unknown

\* The fields of a reader.
LEMMA IsReader ==
  ASSUME NEW r \in Reader
  PROVE  /\ r.pos \in Nat /\ r.state \in {"good", "eof", "fail"} /\ r.line \in Int
         /\ r.size \in Int /\ r.block \in BOOLEAN
BY DEF Reader

\* Where such a reader is.
LEMMA InsideIs ==
  ASSUME NEW c \in Seq(Piece), NEW p \in Nat, p <= Len(c), NEW s \in {"good", "eof", "fail"},
         NEW l \in Int, l >= -1, NEW n \in Int, NEW b, b \in BOOLEAN
  PROVE  /\ Inside(c, [pos |-> p, state |-> s, line |-> l, size |-> n, block |-> b])
         /\ Within(c, Read(p, s, l, n, b, TRUE, <<>>))
<1>1. <<>> \in Seq(Piece)
  OBVIOUS
<1>2. [pos |-> p, state |-> s, line |-> l, size |-> n, block |-> b] \in Reader
  BY DEF Reader
<1>3. Read(p, s, l, n, b, TRUE, <<>>) \in Reading
  BY <1>1 DEF Reading, Read
<1>4. QED
  BY <1>2, <1>3 DEF Inside, Within, Read, Unknown

\* All the ways to start a loop are in the text,
LEMMA StartsWithin ==
  ASSUME NEW c \in Seq(Piece), NEW r, Inside(c, r)
  PROVE  /\ Within(c, Starts(r)) /\ Within(c, StartsGood(r)) /\ Within(c, StartsOver(r))
         /\ StartsGood(r).state = "good"
         /\ StartsGood(r).pos = r.pos /\ StartsGood(r).size = r.size
<1> DEFINE y == Starts(r)
           x == StartsGood(r)
           t == StartsOver(r)
<1>1. /\ r.pos \in Nat /\ r.state \in {"good", "eof", "fail"} /\ r.line \in Int
      /\ r.size \in Int /\ r.block \in BOOLEAN /\ r.pos <= Len(c) /\ r.line >= -1
  BY IsReader DEF Inside, Unknown
<1>2. <<>> \in Seq(Piece) /\ Len(c) \in Nat
  OBVIOUS
<1>3. y = Read(r.pos, r.state, r.line, r.size, r.block, TRUE, <<>>)
  BY DEF Starts, Read
<1>4. y \in Reading /\ y.pos = r.pos /\ y.line = r.line
  BY <1>1, <1>2, <1>3 DEF Reading, Read
<1>5. t = Read(0, "good", -1, r.size, r.block, TRUE, <<>>)
  BY DEF StartsOver, Read, Unknown
<1> HIDE DEF x, y, t
<1>6. x = Read(y.pos, "good", y.line, y.size, y.block, y.ok, y.text)
  BY <1>4 DEF Reading, Read, StartsGood, x, y
<1>7. x \in Reading /\ x.pos = r.pos /\ x.line = r.line /\ x.size = r.size /\ x.state = "good"
  BY <1>1, <1>2, <1>3, <1>6 DEF Reading, Read
<1>8. t \in Reading /\ t.pos = 0 /\ t.line = -1
  BY <1>1, <1>2, <1>5 DEF Reading, Read
<1>9. Within(c, y) /\ Within(c, x) /\ Within(c, t)
  BY <1>1, <1>2, <1>4, <1>7, <1>8 DEF Within, Unknown
<1>10. QED
  BY <1>7, <1>9 DEF x, y, t

\* and so is where it stops.
LEMMA StopsInside ==
  ASSUME NEW c \in Seq(Piece), NEW x, Within(c, x)
  PROVE  Inside(c, Stops(x)) /\ Stops(x).size = x.size /\ Stops(x).state = x.state
<1>1. /\ x.pos \in Nat /\ x.state \in {"good", "eof", "fail"} /\ x.line \in Int
      /\ x.size \in Int /\ x.block \in BOOLEAN /\ x.pos <= Len(c) /\ x.line >= -1
  BY IsRead DEF Within, Unknown
<1>2. QED
  BY <1>1, InsideIs DEF Stops

\* goto_line ends in the text.
LEMMA GotoInside ==
  ASSUME NEW c \in Seq(Piece), NEW r, Inside(c, r), NEW no \in Int, no >= -1
  PROVE  Inside(c, Goto(c, r, no))
<1> DEFINE A == Comes(c, StartsOver(r), no + 1, "forward", no)
           B == Rises(c, StartsGood(r), r.line - no, "back", no)
           D == Comes(c, Starts(r), no - r.line, "forward", no)
<1>1. Within(c, Starts(r)) /\ Within(c, StartsGood(r)) /\ Within(c, StartsOver(r))
  BY StartsWithin
<1>2. r.line \in Int
  BY IsReader DEF Inside
<1>3. no + 1 \in Nat => Within(c, A)
  <2>1. SUFFICES ASSUME no + 1 \in Nat
                 PROVE  Within(c, A)
    OBVIOUS
  <2>2. PICK f : Turns(f, c, StartsOver(r), no + 1, "below", no, "forward") /\ A = f[no + 1]
    BY <2>1, BelowTurns
  <2>3. Stays(c, StartsOver(r), "forward", f[no + 1])
    <3>1. \A n \in 0..(no + 1) : Stays(c, StartsOver(r), "forward", f[n])
      BY <1>1, <2>1, <2>2, TurnsWithin
    <3>2. QED
      BY <2>1, <3>1
  <2>4. QED
    BY <2>2, <2>3 DEF Stays
<1>4. no < r.line => Within(c, B)
  <2>1. SUFFICES ASSUME no < r.line
                 PROVE  Within(c, B)
    OBVIOUS
  <2> DEFINE m == r.line - no
  <2>2. m \in Nat
    BY <1>2, <2>1
  <2> HIDE DEF m
  <2>3. PICK f : Turns(f, c, StartsGood(r), m, "above", no, "back") /\ B = f[m]
    BY <2>2, AboveTurns DEF m
  <2>4. Stays(c, StartsGood(r), "back", f[m])
    <3>1. \A n \in 0..m : Stays(c, StartsGood(r), "back", f[n])
      BY <1>1, <2>2, <2>3, TurnsWithin
    <3>2. QED
      BY <2>2, <3>1
  <2>5. QED
    BY <2>3, <2>4 DEF Stays
<1>5. no > r.line => Within(c, D)
  <2>1. SUFFICES ASSUME no > r.line
                 PROVE  Within(c, D)
    OBVIOUS
  <2> DEFINE m == no - r.line
  <2>2. m \in Nat
    BY <1>2, <2>1
  <2> HIDE DEF m
  <2>3. PICK f : Turns(f, c, Starts(r), m, "below", no, "forward") /\ D = f[m]
    BY <2>2, BelowTurns DEF m
  <2>4. Stays(c, Starts(r), "forward", f[m])
    <3>1. \A n \in 0..m : Stays(c, Starts(r), "forward", f[n])
      BY <1>1, <2>2, <2>3, TurnsWithin
    <3>2. QED
      BY <2>2, <3>1
  <2>5. QED
    BY <2>3, <2>4 DEF Stays
<1> DEFINE z == IF no = r.line THEN Starts(r)
                ELSE IF no = 0 \/ (no < Near /\ no < r.line) \/ no < r.line - Far THEN A
                ELSE IF no < r.line THEN B
                ELSE D
<1>6. Goto(c, r, no) = Stops(z)
  BY DEF Goto, Comes, Rises, Loop
<1>7. no + 1 \in Nat
  OBVIOUS
<1> HIDE DEF A, B, D
<1>8. Within(c, z)
  BY <1>1, <1>2, <1>3, <1>4, <1>5, <1>7
<1> HIDE DEF z
<1>9. QED
  BY <1>6, <1>8, StopsInside

-----------------------------------------------------------------------------
(* What a pass over the text ends with.                                    *)

\* The pass acted on a line and its lines are copied.
Copied(out, total, no) ==
  /\ ~bad /\ bad' = bad
  /\ work' = temp \o out /\ temp' = <<>> /\ at' = "work" /\ modified' = TRUE
  /\ last' = total
  /\ reader' = Goto(work', At(0), no)

\* The pass acted on a line, and copy fails.
Failed(out) ==
  /\ temp' = IF bad THEN temp ELSE temp \o out
  /\ bad'
  /\ UNCHANGED <<work, at, modified, last, doc, clean>>
  /\ reader' = At(Len(Current))

\* The pass acted on no line.
Passes(out, total, no) ==
  /\ temp' = IF bad THEN temp ELSE temp \o out
  /\ bad' \in BOOLEAN /\ (bad => bad')
  /\ UNCHANGED <<work, at, modified>>
  /\ last' = total
  /\ reader' = Goto(Current, At(Len(Current)), no)

Says(text) ==
  /\ clean' \in BOOLEAN
  /\ clean' => clean /\ temp' = <<>> /\ Whole(Current) /\ doc' = text
  /\ ~clean' => doc' = <<>>

\* What Ended is: the pass has copied, has failed in copy, or has passed without
\* acting on a line.
LEMMA Endings ==
  ASSUME bad \in BOOLEAN, clean \in BOOLEAN,
         NEW out, NEW acts, NEW breaks, NEW total, NEW no, NEW text, NEW wrong,
         Ended(out, acts, breaks, total, no, text, wrong)
  PROVE  /\ alive /\ at # "none" /\ Once /\ UNCHANGED <<file, alive>>
         /\ \/ /\ acts # {} /\ breaks = {} /\ Copied(out, total, no) /\ Says(text)
               /\ clean' => wrong = {}
            \/ Failed(out)
            \/ /\ acts = {} /\ Passes(out, total, no) /\ Says(text)
               /\ clean' => wrong = {}
<1>0. /\ alive /\ at # "none" /\ Once /\ UNCHANGED <<file, alive>>
      /\ Passed(out, acts, breaks)
  BY DEF Ended
<1>1. CASE acts # {} /\ bad'
  <2>1. Failed(out)
    BY <1>0, <1>1 DEF Ended, Passed, Failed
  <2>2. QED
    BY <1>0, <2>1
<1>2. CASE acts # {} /\ ~bad'
  <2>1. /\ Follows(text, wrong \cup Parts(Current)) /\ last' = total
        /\ reader' = Goto(work', At(0), no)
    BY <1>2 DEF Ended
  <2>2. breaks = {} /\ Copied(out, total, no)
    BY <1>0, <1>2, <2>1 DEF Passed, Copied
  <2>3. Says(text) /\ (clean' => wrong = {})
    BY <2>1 DEF Follows, Says, Whole
  <2>4. QED
    BY <1>0, <1>2, <2>2, <2>3
<1>3. CASE acts = {}
  <2>1. /\ Follows(text, wrong \cup Parts(Current)) /\ last' = total
        /\ reader' = Goto(Current, At(Len(Current)), no)
    BY <1>3 DEF Ended
  <2>2. Passes(out, total, no)
    BY <1>0, <1>3, <2>1 DEF Passed, Passes
  <2>3. Says(text) /\ (clean' => wrong = {})
    BY <2>1 DEF Follows, Says, Whole
  <2>4. QED
    BY <1>0, <1>3, <2>2, <2>3
<1>4. QED
  BY <1>1, <1>2, <1>3

-----------------------------------------------------------------------------
(* Types.                                                                  *)

\* The positions a pass leaves the stream at are in the text.
LEMMA AtInside ==
  ASSUME reader \in Reader, reader.line >= Unknown,
         NEW c \in Seq(Piece), NEW p \in Nat, p <= Len(c)
  PROVE  Inside(c, At(p)) /\ At(p).size = reader.size
<1>1. /\ reader.pos \in Nat /\ reader.line \in Int /\ reader.line >= -1
      /\ reader.size \in Int /\ reader.block \in BOOLEAN
  BY IsReader DEF Unknown
<1>2. At(p) = [pos |-> p, state |-> "good", line |-> reader.line, size |-> reader.size,
               block |-> reader.block]
  BY DEF At
<1>3. At(p) \in Reader /\ At(p).pos = p /\ At(p).line = reader.line /\ At(p).size = reader.size
  BY <1>1, <1>2 DEF Reader
<1>4. QED
  BY <1>1, <1>3 DEF Inside, Unknown

\* What the types say of each variable.
LEMMA IsTyped ==
  ASSUME TypeOK
  PROVE  /\ file \in Seq(Piece) /\ work \in Seq(Piece) /\ temp \in Seq(Piece)
         /\ doc \in Seq(Piece) /\ Current \in Seq(Piece)
         /\ Inside(Current, reader) /\ reader \in Reader /\ reader.line >= Unknown
         /\ bad \in BOOLEAN /\ clean \in BOOLEAN /\ alive \in BOOLEAN /\ modified \in BOOLEAN
         /\ last \in Int /\ last >= -1 /\ edits \in 0..MaxEdits
BY DEF TypeOK, Current, Inside, Unknown

\* The text and the reader decide whether the types are right after a step.
LEMMA TypedNext ==
  ASSUME file' \in Seq(Piece), work' \in Seq(Piece), temp' \in Seq(Piece),
         doc' \in Seq(Piece), bad' \in BOOLEAN, at' \in {"none", "file", "work"},
         modified' \in BOOLEAN, Inside(Current', reader'), last' \in Int, last' >= -1,
         alive' \in BOOLEAN, clean' \in BOOLEAN, edits' \in 0..MaxEdits
  PROVE  TypeOK'
BY DEF TypeOK, Inside, Unknown

\* A pass that writes texts leaves the types right.
LEMMA PassTypes ==
  ASSUME TypeOK, edits < MaxEdits,
         NEW out \in Seq(Piece), NEW text \in Seq(Piece),
         NEW total \in Int, total >= -1, NEW no \in Int, no >= -1,
         Once, UNCHANGED <<file, alive>>,
         \/ Copied(out, total, no) /\ Says(text)
         \/ Failed(out)
         \/ Passes(out, total, no) /\ Says(text)
  PROVE  TypeOK'
<1>1. /\ file \in Seq(Piece) /\ work \in Seq(Piece) /\ temp \in Seq(Piece)
      /\ doc \in Seq(Piece) /\ Current \in Seq(Piece)
      /\ reader \in Reader /\ reader.line >= Unknown
      /\ bad \in BOOLEAN /\ clean \in BOOLEAN /\ alive \in BOOLEAN /\ modified \in BOOLEAN
      /\ last \in Int /\ last >= -1 /\ edits \in 0..MaxEdits
      /\ at \in {"none", "file", "work"}
  BY IsTyped DEF TypeOK
<1>2. temp \o out \in Seq(Piece) /\ <<>> \in Seq(Piece)
  BY <1>1, ConcatProperties
<1>3. /\ edits' \in 0..MaxEdits /\ file' \in Seq(Piece) /\ alive' \in BOOLEAN
      /\ file' = file
  BY <1>1, TextsAssumption DEF Once
<1>4. Len(Current) \in Nat /\ 0 \in Nat /\ \A c \in Seq(Piece) : 0 <= Len(c)
  BY <1>1
<1>5. CASE Copied(out, total, no) /\ Says(text)
  <2>1. /\ work' \in Seq(Piece) /\ temp' \in Seq(Piece) /\ at' = "work" /\ modified' \in BOOLEAN
        /\ bad' \in BOOLEAN /\ last' = total /\ reader' = Goto(work', At(0), no)
    BY <1>1, <1>2, <1>5 DEF Copied
  <2>2. Current' = work'
    BY <2>1 DEF Current
  <2>3. Inside(work', At(0))
    BY <1>1, <1>4, <2>1, AtInside
  <2>4. Inside(work', Goto(work', At(0), no))
    BY <2>1, <2>3, GotoInside
  <2>5. clean' \in BOOLEAN /\ doc' \in Seq(Piece)
    BY <1>2, <1>5 DEF Says
  <2>6. QED
    BY <1>3, <2>1, <2>2, <2>4, <2>5, TypedNext
<1>6. CASE Failed(out)
  <2>1. /\ work' \in Seq(Piece) /\ temp' \in Seq(Piece) /\ at' = at /\ modified' \in BOOLEAN
        /\ bad' \in BOOLEAN /\ last' = last /\ reader' = At(Len(Current))
        /\ clean' \in BOOLEAN /\ doc' \in Seq(Piece) /\ work' = work
    BY <1>1, <1>2, <1>6 DEF Failed
  <2>2. Current' = Current
    BY <1>3, <2>1 DEF Current
  <2>3. Inside(Current, At(Len(Current)))
    BY <1>1, <1>4, AtInside
  <2>4. QED
    BY <1>1, <1>3, <2>1, <2>2, <2>3, TypedNext
<1>7. CASE Passes(out, total, no) /\ Says(text)
  <2>1. /\ work' \in Seq(Piece) /\ temp' \in Seq(Piece) /\ at' = at /\ modified' \in BOOLEAN
        /\ bad' \in BOOLEAN /\ last' = total /\ work' = work
        /\ reader' = Goto(Current, At(Len(Current)), no)
    BY <1>1, <1>2, <1>7 DEF Passes
  <2>2. Current' = Current
    BY <1>3, <2>1 DEF Current
  <2>3. Inside(Current, At(Len(Current)))
    BY <1>1, <1>4, AtInside
  <2>4. Inside(Current, Goto(Current, At(Len(Current)), no))
    BY <1>1, <2>3, GotoInside
  <2>5. clean' \in BOOLEAN /\ doc' \in Seq(Piece)
    BY <1>2, <1>7 DEF Says
  <2>6. QED
    BY <1>1, <1>3, <2>1, <2>2, <2>4, <2>5, TypedNext
<1>8. QED
  BY <1>5, <1>6, <1>7

-----------------------------------------------------------------------------
(* What the passes give.                                                   *)

\* Some of the lines.
LEMMA WithoutType ==
  ASSUME NEW h \in Seq(Seq(Piece)), NEW d
  PROVE  Without(h, d) \in Seq(Piece)
<1> DEFINE q == [k \in DOMAIN h |-> IF k \in d THEN <<>> ELSE h[k]]
<1>1. \A k \in DOMAIN h : h[k] \in Seq(Piece)
  OBVIOUS
<1>2. <<>> \in Seq(Piece) /\ DOMAIN h = 1..Len(h) /\ Len(h) \in Nat
  OBVIOUS
<1>3. q \in [1..Len(h) -> Seq(Piece)]
  BY <1>1, <1>2
<1>4. q \in Seq(Seq(Piece))
  BY <1>2, <1>3
<1>5. FlattenSeq(q) \in Seq(Piece)
  BY <1>4, FlattenType
<1>6. Without(h, d) = FlattenSeq(q)
  BY DEF Without, Kept
<1>7. QED
  BY <1>5, <1>6

\* Only what is in the text counts of the lines that are taken away.
LEMMA WithoutSame ==
  ASSUME NEW h, NEW d, NEW e, \A k \in DOMAIN h : k \in d <=> k \in e
  PROVE  Without(h, d) = Without(h, e)
<1>1. [k \in DOMAIN h |-> IF k \in d THEN <<>> ELSE h[k]]
        = [k \in DOMAIN h |-> IF k \in e THEN <<>> ELSE h[k]]
  OBVIOUS
<1>2. QED
  BY <1>1 DEF Without, Kept

\* Taking none of the lines away leaves the text.
LEMMA WithoutNone ==
  ASSUME NEW h \in Seq(Seq(Piece)), NEW d, \A k \in DOMAIN h : k \notin d
  PROVE  Without(h, d) = FlattenSeq(h)
<1> DEFINE q == [k \in DOMAIN h |-> IF k \in d THEN <<>> ELSE h[k]]
<1>1. q = [k \in DOMAIN h |-> h[k]]
  OBVIOUS
<1>2. [k \in DOMAIN h |-> h[k]] = h
  OBVIOUS
<1>3. q = h
  BY <1>1, <1>2
<1>4. Without(h, d) = FlattenSeq(q)
  BY DEF Without, Kept
<1> HIDE DEF q
<1>5. QED
  BY <1>3, <1>4, Zenon

\* A set of the first numbers has a cardinality, and so has each of its parts.
LEMMA CountTo ==
  ASSUME NEW m \in Nat
  PROVE  IsFiniteSet(1..m) /\ Cardinality(1..m) = m
<1>1. IsFiniteSet(1..m) /\ Cardinality(1..m) = IF 1 > m THEN 0 ELSE m - 1 + 1
  BY FS_Interval
<1>2. QED
  BY <1>1

\* The lines a command acts on are some of those that are handled.
LEMMA InIs ==
  ASSUME NEW h \in Seq(Seq(Piece)), NEW b \in Int, NEW e \in Int
  PROVE  /\ DOMAIN h = 1..Len(h) /\ Len(h) \in Nat
         /\ In(h, b, e) \subseteq 1..Len(h)
         /\ IsFiniteSet(In(h, b, e)) /\ Cardinality(In(h, b, e)) \in 0..Len(h)
         /\ \A k \in 1..Len(h) : k \in In(h, b, e) <=> k \in b..e
<1>1. DOMAIN h = 1..Len(h) /\ Len(h) \in Nat
  OBVIOUS
<1>2. In(h, b, e) \subseteq 1..Len(h) /\ \A k \in 1..Len(h) : k \in In(h, b, e) <=> k \in b..e
  BY <1>1 DEF In
<1>3. IsFiniteSet(1..Len(h)) /\ Cardinality(1..Len(h)) = Len(h)
  BY <1>1, CountTo
<1>4. /\ IsFiniteSet(In(h, b, e)) /\ Cardinality(In(h, b, e)) <= Len(h)
      /\ Cardinality(In(h, b, e)) \in Nat
  BY <1>2, <1>3, FS_Subset, FS_CardinalityType
<1>5. QED
  BY <1>1, <1>2, <1>4

\* A function on the first numbers is a sequence.
LEMMA IsSequence ==
  ASSUME NEW S, NEW m \in Nat, NEW f \in [1..m -> S]
  PROVE  f \in Seq(S)
OBVIOUS

\* Lines that are each kept as a text are a text.
LEMMA KeptType ==
  ASSUME NEW h \in Seq(Seq(Piece)), NEW q \in [1..Len(h) -> Seq(Piece)]
  PROVE  FlattenSeq(q) \in Seq(Piece)
<1>1. Len(h) \in Nat
  OBVIOUS
<1>2. q \in Seq(Seq(Piece))
  BY <1>1, IsSequence
<1>3. QED
  BY <1>2, FlattenType

\* A clamped number is one that was typed or the last line.
LEMMA ClampedIs ==
  ASSUME TypeOK, NEW n \in Nat
  PROVE  /\ Clamped(n) \in Nat /\ Clamped(n) <= n
         /\ last # -1 => Clamped(n) <= last
<1>1. last \in Int /\ last >= -1
  BY IsTyped
<1>2. CASE last = -1
  BY <1>2 DEF Clamped, Unknown
<1>3. CASE last # -1
  <2>1. Clamped(n) = Min({n, last})
    BY <1>3 DEF Clamped, Unknown
  <2> DEFINE S == {n, last}
  <2>2. S \subseteq Nat /\ S # {} /\ n \in S /\ last \in S
    BY <1>1, <1>3
  <2>3. \A i \in S : i = n \/ i = last
    OBVIOUS
  <2> HIDE DEF S
  <2>4. Min(S) \in S /\ \A i \in S : Min(S) <= i
    BY <2>2, Least
  <2>5. Min(S) \in Nat /\ Min(S) <= n /\ Min(S) <= last
    BY <2>2, <2>4
  <2>6. Clamped(n) = Min(S)
    BY <2>1 DEF S
  <2>7. QED
    BY <2>5, <2>6
<1>4. QED
  BY <1>2, <1>3

\* What a pass may do: out is what it writes, text what the command says.
Does(out, text, total, no) ==
  /\ alive /\ at # "none" /\ Once /\ UNCHANGED <<file, alive>>
  /\ total >= -1 /\ no >= -1
  /\ \/ Copied(out, total, no) /\ Says(text) /\ (clean' => out = text)
     \/ Failed(out)
     \/ Passes(out, total, no) /\ Says(text) /\ (clean' => text = Current)

Pass == \E out \in Seq(Piece), text \in Seq(Piece), total \in Int, no \in Int :
          Does(out, text, total, no)

\* An erased range is what the command says.
LEMMA EraseEnds ==
  ASSUME TypeOK, NEW b \in Int, NEW e \in Int, Erase(b, e)
  PROVE  Pass
<1> DEFINE h == Handled(Current)
           d == In(h, b, e)
           out == Without(h, d)
           text == Without(h, b..e)
           total == Fewer(h, d)
<1>1. Ended(out, d, {}, total, 0, text, {})
  BY DEF Erase
<1>2. /\ h \in Seq(Seq(Piece)) /\ Len(h) \in Nat \ {0} /\ DOMAIN h = 1..Len(h)
      /\ FlattenSeq(h) = Current
  BY IsTyped, HandledType
<1> HIDE DEF h
<1>3. /\ \A k \in 1..Len(h) : k \in d <=> k \in b..e
      /\ d \subseteq 1..Len(h) /\ Cardinality(d) \in 0..Len(h)
  BY <1>2, InIs
<1> HIDE DEF d
<1>4. out \in Seq(Piece) /\ text \in Seq(Piece)
  BY <1>2, WithoutType
<1>5. out = text
  BY <1>2, <1>3, WithoutSame
<1>6. d = {} => out = Current
  <2>1. SUFFICES ASSUME d = {}
                 PROVE  out = Current
    OBVIOUS
  <2>2. out = FlattenSeq(h)
    BY <1>2, <2>1, WithoutNone
  <2>3. QED
    BY <1>2, <2>2
<1>7. total \in Int /\ total >= -1
  BY <1>2, <1>3 DEF Fewer
<1> HIDE DEF out, text, total
<1>8. bad \in BOOLEAN /\ clean \in BOOLEAN
  BY IsTyped
<1>9. /\ alive /\ at # "none" /\ Once /\ UNCHANGED <<file, alive>>
      /\ \/ Copied(out, total, 0) /\ Says(text)
         \/ Failed(out)
         \/ d = {} /\ Passes(out, total, 0) /\ Says(text)
  BY <1>1, <1>8, Endings
<1>10. Does(out, text, total, 0)
  BY <1>5, <1>6, <1>7, <1>9 DEF Does
<1>11. QED
  BY <1>4, <1>7, <1>10 DEF Pass

\* An insertion that adds a line where it says is what the command says.
LEMMA InsertEnds ==
  ASSUME TypeOK, NEW n \in Nat, NEW after, NEW t \in Seq(Piece), Insert(n, after, t)
  PROVE  Pass
<1> DEFINE h == Handled(Current)
           line == IF after THEN n + 1 ELSE n
           b == Clamped(line)
           e == Clamped(line + 1)
           i == In(h, b, e)
           q == [k \in DOMAIN h |-> IF k \in i THEN t \o h[k] ELSE h[k]]
           r == [k \in DOMAIN h |-> IF k = line THEN t \o h[k] ELSE h[k]]
           out == FlattenSeq(q)
           text == FlattenSeq(r)
           wrong == (i \ {line}) \cup ({line} \ i)
<1>1. Ended(out, i, {}, last, line, text, wrong)
  BY DEF Insert, Kept
<1>2. /\ h \in Seq(Seq(Piece)) /\ Len(h) \in Nat \ {0} /\ DOMAIN h = 1..Len(h)
      /\ FlattenSeq(h) = Current /\ \A k \in 1..Len(h) : h[k] \in Seq(Piece)
  BY IsTyped, HandledType
<1>3. line \in Nat
  OBVIOUS
<1> HIDE DEF h, line, i
<1>4. \A k \in 1..Len(h) : t \o h[k] \in Seq(Piece)
  BY <1>2, ConcatProperties
<1>5. q \in [1..Len(h) -> Seq(Piece)] /\ r \in [1..Len(h) -> Seq(Piece)]
  BY <1>2, <1>4
<1>6. i = {line} => q = r
  OBVIOUS
<1> HIDE DEF q, r
<1>7. out \in Seq(Piece) /\ text \in Seq(Piece)
  BY <1>2, <1>5, KeptType
<1>8. wrong = {} => i = {line}
  OBVIOUS
<1>9. i = {line} => i # {} /\ out = text
  BY <1>6
<1>10. last \in Int /\ last >= -1 /\ line >= -1 /\ line \in Int
  BY <1>3, IsTyped
<1> HIDE DEF out, text, wrong
<1>11. bad \in BOOLEAN /\ clean \in BOOLEAN
  BY IsTyped
<1>12. /\ alive /\ at # "none" /\ Once /\ UNCHANGED <<file, alive>>
       /\ \/ Copied(out, last, line) /\ Says(text) /\ (clean' => wrong = {})
          \/ Failed(out)
          \/ i = {} /\ Passes(out, last, line) /\ Says(text) /\ (clean' => wrong = {})
  BY <1>1, <1>11, Endings
<1>13. Does(out, text, last, line)
  BY <1>8, <1>9, <1>10, <1>12 DEF Does
<1>14. QED
  BY <1>7, <1>10, <1>13 DEF Pass

\* The fields of a substitution.
LEMMA IsSub ==
  ASSUME NEW s \in Sub
  PROVE  s.with \in Seq(Piece) /\ s.pattern \in Piece /\ s.global \in BOOLEAN
<1>1. s.with \in {<<>>} \cup {<<w>> : w \in Word}
  BY DEF Sub
<1>2. <<>> \in Seq(Piece)
  OBVIOUS
<1>3. \A w \in Word : w \in Piece /\ <<w>> \in Seq(Piece)
  BY DEF Piece
<1>4. s.with \in Seq(Piece)
  BY <1>1, <1>2, <1>3
<1>5. QED
  BY <1>3, <1>4 DEF Sub

\* A substitution with a regular expression is what the command says when it is
\* global and matches with groups, or not at all.
LEMMA RegexEnds ==
  ASSUME TypeOK, NEW b \in Int, NEW e \in Int, NEW s \in Sub, SubstituteRegex(b, e, s)
  PROVE  Pass
<1> DEFINE h == Handled(Current)
           r == In(h, b, e)
           a == {k \in r : Search(s, h[k]) # 0}
           q == [k \in DOMAIN h |-> IF k \in a THEN Replaced(s.with, h[k], Occurs(s, h[k]))
                                               ELSE h[k]]
           t == [k \in DOMAIN h |-> IF k \in r
                                    THEN Replaced(s.with, h[k], Places(s, h[k], s.global))
                                    ELSE h[k]]
           out == FlattenSeq(q)
           text == FlattenSeq(t)
           wrong == {k \in r : ~s.global} \cup (r \ a)
<1>1. Ended(out, a, {}, last, 0, text, wrong)
  BY DEF SubstituteRegex, Kept
<1>2. /\ h \in Seq(Seq(Piece)) /\ Len(h) \in Nat \ {0} /\ DOMAIN h = 1..Len(h)
      /\ FlattenSeq(h) = Current /\ \A k \in 1..Len(h) : h[k] \in Seq(Piece)
  BY IsTyped, HandledType
<1>3. s.with \in Seq(Piece)
  BY IsSub
<1>4. a \subseteq r
  OBVIOUS
<1>5. wrong = {} => a = r /\ \A k \in r : s.global
  <2> HIDE DEF r
  <2>1. QED
    BY <1>4
<1> HIDE DEF h, r, a
<1>6. \A k \in 1..Len(h) : Replaced(s.with, h[k], Occurs(s, h[k])) \in Seq(Piece)
  BY <1>2, <1>3, ReplacedType
<1>7. \A k \in 1..Len(h) : Replaced(s.with, h[k], Places(s, h[k], s.global)) \in Seq(Piece)
  BY <1>2, <1>3, ReplacedType
<1>8. q \in [1..Len(h) -> Seq(Piece)] /\ t \in [1..Len(h) -> Seq(Piece)]
  BY <1>2, <1>6, <1>7
<1>9. wrong = {} => q = t
  <2>1. SUFFICES ASSUME wrong = {}
                 PROVE  q = t
    OBVIOUS
  <2>2. \A k \in r : Places(s, h[k], s.global) = Occurs(s, h[k])
    BY <1>5, <2>1 DEF Places
  <2>3. \A k \in r : Replaced(s.with, h[k], Places(s, h[k], s.global))
                       = Replaced(s.with, h[k], Occurs(s, h[k]))
    BY <2>2
  <2>4. a = r
    BY <1>5, <2>1
  <2>5. QED
    BY <2>3, <2>4
<1>10. wrong = {} /\ a = {} => t = h
  <2>1. SUFFICES ASSUME wrong = {}, a = {}
                 PROVE  t = h
    OBVIOUS
  <2>2. r = {}
    BY <1>5, <2>1
  <2>3. t = [k \in DOMAIN h |-> h[k]]
    BY <2>2
  <2>4. [k \in DOMAIN h |-> h[k]] = h
    BY <1>2
  <2>5. QED
    BY <2>3, <2>4
<1> HIDE DEF q, t
<1>11. out \in Seq(Piece) /\ text \in Seq(Piece)
  BY <1>2, <1>8, KeptType
<1>12. wrong = {} => out = text
  BY <1>9
<1>13. wrong = {} /\ a = {} => text = Current
  BY <1>2, <1>10
<1>14. last \in Int /\ last >= -1
  BY IsTyped
<1> HIDE DEF out, text, wrong
<1>15. bad \in BOOLEAN /\ clean \in BOOLEAN
  BY IsTyped
<1>16. /\ alive /\ at # "none" /\ Once /\ UNCHANGED <<file, alive>>
       /\ \/ Copied(out, last, 0) /\ Says(text) /\ (clean' => wrong = {})
          \/ Failed(out)
          \/ a = {} /\ Passes(out, last, 0) /\ Says(text) /\ (clean' => wrong = {})
  BY <1>1, <1>15, Endings
<1>17. Does(out, text, last, 0)
  BY <1>12, <1>13, <1>14, <1>16 DEF Does
<1>18. QED
  BY <1>11, <1>14, <1>17 DEF Pass

\* One without is when it replaces something: the line is not cut then, and what
\* is found behind it changes nothing.
LEMMA PlainEnds ==
  ASSUME TypeOK, NEW b \in Int, NEW e \in Int, NEW s \in Sub, SubstitutePlain(b, e, s)
  PROVE  Pass
<1> DEFINE h == Handled(Current)
           r == In(h, b, e)
           H(behind) == [k \in r |-> Hits(s, h[k], behind[k])]
           q(hits) == [k \in DOMAIN h |-> IF k \in r THEN Overwritten(s, h[k], hits[k])
                                          ELSE h[k]]
           t == [k \in DOMAIN h |-> IF k \in r
                                    THEN Replaced(s.with, h[k], Places(s, h[k], s.global))
                                    ELSE h[k]]
           A(hits) == {k \in r : hits[k] # 0}
           B(hits) == {k \in r : Cut(s, hits[k]) > Len(h[k])}
           text == FlattenSeq(t)
           wrong == {k \in r : s.with = <<>>}
<1>1. PICK behind \in [r -> 0..1] :
        Ended(FlattenSeq(q(H(behind))), A(H(behind)), B(H(behind)), last, 0, text, wrong)
  BY DEF SubstitutePlain, Kept
<1> DEFINE hits == H(behind)
           a == A(hits)
           f == q(hits)
           out == FlattenSeq(f)
<1>2. Ended(out, a, B(hits), last, 0, text, wrong)
  BY <1>1
<1>3. /\ h \in Seq(Seq(Piece)) /\ Len(h) \in Nat \ {0} /\ DOMAIN h = 1..Len(h)
      /\ FlattenSeq(h) = Current /\ \A k \in 1..Len(h) : h[k] \in Seq(Piece)
  BY IsTyped, HandledType
<1>4. s.with \in Seq(Piece)
  BY IsSub
<1> HIDE DEF h
<1>5. r \subseteq 1..Len(h)
  BY <1>3, InIs
<1> HIDE DEF r
<1>6. \A k \in r : hits[k] = Hits(s, h[k], behind[k]) /\ behind[k] \in Nat
  OBVIOUS
<1> HIDE DEF hits
<1>7. \A k \in r : /\ Occurs(s, h[k]) \subseteq 1..Len(h[k])
                   /\ Cardinality(Occurs(s, h[k])) \in Nat
                   /\ Cardinality(Occurs(s, h[k])) = 0 => Occurs(s, h[k]) = {}
  <2>1. SUFFICES ASSUME NEW k \in r
                 PROVE  /\ Occurs(s, h[k]) \subseteq 1..Len(h[k])
                        /\ Cardinality(Occurs(s, h[k])) \in Nat
                        /\ Cardinality(Occurs(s, h[k])) = 0 => Occurs(s, h[k]) = {}
    OBVIOUS
  <2>2. h[k] \in Seq(Piece) /\ Len(h[k]) \in Nat /\ DOMAIN h[k] = 1..Len(h[k])
    BY <1>3, <1>5
  <2>3. Occurs(s, h[k]) \subseteq 1..Len(h[k])
    BY <2>2 DEF Occurs
  <2>4. IsFiniteSet(1..Len(h[k]))
    BY <2>2, FS_Interval
  <2>5. IsFiniteSet(Occurs(s, h[k]))
    BY <2>3, <2>4, FS_Subset
  <2>6. QED
    BY <2>3, <2>5, FS_CardinalityType, FS_EmptySet
<1>8. \A k \in r : hits[k] \in Nat /\ (hits[k] = 0 => Occurs(s, h[k]) = {})
  <2>1. SUFFICES ASSUME NEW k \in r
                 PROVE  hits[k] \in Nat /\ (hits[k] = 0 => Occurs(s, h[k]) = {})
    OBVIOUS
  <2> DEFINE n == Cardinality(Occurs(s, h[k])) + behind[k]
             S == {1, n}
  <2>2. n \in Nat /\ (n = 0 => Occurs(s, h[k]) = {})
    <3>1. behind[k] \in Nat
      BY <1>6
    <3>2. /\ Cardinality(Occurs(s, h[k])) \in Nat
          /\ Cardinality(Occurs(s, h[k])) = 0 => Occurs(s, h[k]) = {}
      BY <1>7
    <3>3. \A i \in Nat, j \in Nat : i + j \in Nat /\ (i + j = 0 => i = 0)
      OBVIOUS
    <3>4. QED
      BY <3>1, <3>2, <3>3
  <2>3. hits[k] = IF s.global THEN n ELSE Min(S)
    BY <1>6 DEF Hits
  <2>4. S \subseteq Nat /\ S # {} /\ \A j \in S : j = 1 \/ j = n
    BY <2>2
  <2> HIDE DEF S, n
  <2>5. Min(S) \in S
    BY <2>4, Least
  <2>6. Min(S) = 1 \/ Min(S) = n
    BY <2>4, <2>5
  <2>7. QED
    BY <2>2, <2>3, <2>6
<1>9. \A k \in 1..Len(h) : Replaced(s.with, h[k], Places(s, h[k], s.global)) \in Seq(Piece)
  BY <1>3, <1>4, ReplacedType
<1>10. \A k \in r : /\ Overwritten(s, h[k], hits[k]) \in Seq(Piece)
                    /\ s.with # <<>> => Overwritten(s, h[k], hits[k])
                                          = Replaced(s.with, h[k], Places(s, h[k], s.global))
  <2>1. SUFFICES ASSUME NEW k \in r
                 PROVE  /\ Overwritten(s, h[k], hits[k]) \in Seq(Piece)
                        /\ s.with # <<>> => Overwritten(s, h[k], hits[k])
                                         = Replaced(s.with, h[k], Places(s, h[k], s.global))
    OBVIOUS
  <2> DEFINE o == IF s.with = <<>> THEN h[k]
                  ELSE Replaced(s.with, h[k], Places(s, h[k], s.global))
             m == Len(o) - Cut(s, hits[k])
  <2>2. o \in Seq(Piece)
    BY <1>3, <1>5, <1>9
  <2>3. Cut(s, hits[k]) \in Nat /\ (s.with # <<>> => Cut(s, hits[k]) = 0)
    BY <1>8 DEF Cut
  <2>4. Overwritten(s, h[k], hits[k]) = SubSeq(o, 1, m)
    BY DEF Overwritten
  <2>5. s.with # <<>> => o = Replaced(s.with, h[k], Places(s, h[k], s.global))
    OBVIOUS
  <2> HIDE DEF o
  <2>6. Len(o) \in Nat
    BY <2>2
  <2>7. m \in Int /\ m <= Len(o) /\ (s.with # <<>> => m = Len(o))
    BY <2>3, <2>6
  <2> HIDE DEF m
  <2>8. \A j \in 1..m : o[j] \in Piece
    BY <2>2, <2>6, <2>7
  <2>9. SubSeq(o, 1, m) \in Seq(Piece)
    BY <2>7, <2>8, SubSeqProperties
  <2>10. SubSeq(o, 1, Len(o)) = o
    BY <2>2, SubSeqFull
  <2>11. s.with # <<>> => SubSeq(o, 1, m) = o
    BY <2>7, <2>10, Zenon
  <2>12. QED
    BY <2>4, <2>5, <2>9, <2>11
<1>11. f \in [1..Len(h) -> Seq(Piece)] /\ t \in [1..Len(h) -> Seq(Piece)]
  BY <1>3, <1>9, <1>10
<1>12. wrong = {} => f = t
  <2>1. SUFFICES ASSUME wrong = {}
                 PROVE  f = t
    OBVIOUS
  <2>2. \A k \in r : s.with # <<>>
    BY <2>1
  <2>3. \A k \in r : Overwritten(s, h[k], hits[k])
                       = Replaced(s.with, h[k], Places(s, h[k], s.global))
    BY <1>10, <2>2
  <2>4. QED
    BY <2>3
<1>13. a = {} => t = h
  <2>1. SUFFICES ASSUME a = {}
                 PROVE  t = h
    OBVIOUS
  <2>2. \A k \in r : hits[k] = 0
    BY <2>1
  <2>3. \A k \in r : Places(s, h[k], s.global) = {}
    BY <1>8, <2>2 DEF Places
  <2>4. \A k \in r : Replaced(s.with, h[k], {}) = h[k]
    <3>1. \A k \in r : h[k] \in Seq(Piece)
      BY <1>3, <1>5
    <3>2. \A g \in Seq(Piece) : Replaced(s.with, g, {}) = g
      <4>1. \A g \in Seq(Piece) :
              (\A i \in 1..Len(g) : i \notin {}) => Replaced(s.with, g, {}) = g
        BY <1>4, ReplacedNone
      <4>2. QED
        BY <4>1
    <3>3. QED
      BY <3>1, <3>2
  <2>5. t = [k \in DOMAIN h |-> h[k]]
    BY <2>3, <2>4
  <2>6. [k \in DOMAIN h |-> h[k]] = h
    BY <1>3
  <2>7. QED
    BY <2>5, <2>6
<1> HIDE DEF f, t
<1>14. out \in Seq(Piece) /\ text \in Seq(Piece)
  BY <1>3, <1>11, KeptType
<1>15. (wrong = {} => out = text) /\ (a = {} => text = Current)
  BY <1>3, <1>12, <1>13
<1>16. last \in Int /\ last >= -1
  BY IsTyped
<1> DEFINE br == B(hits)
<1> HIDE DEF out, text, wrong, a, br
<1>17. bad \in BOOLEAN /\ clean \in BOOLEAN
  BY IsTyped
<1>18. Ended(out, a, br, last, 0, text, wrong)
  BY <1>2 DEF br
<1>19. /\ alive /\ at # "none" /\ Once /\ UNCHANGED <<file, alive>>
       /\ \/ Copied(out, last, 0) /\ Says(text) /\ (clean' => wrong = {})
          \/ Failed(out)
          \/ a = {} /\ Passes(out, last, 0) /\ Says(text) /\ (clean' => wrong = {})
  BY <1>17, <1>18, Endings
<1>20. Does(out, text, last, 0)
  BY <1>15, <1>16, <1>19 DEF Does
<1>21. QED
  BY <1>14, <1>16, <1>20 DEF Pass

\* The only newline of a line is at its end, and joining takes it away.
LEMMA LineEnd ==
  ASSUME NEW g \in Seq(Piece), g # <<>>, Last(g) = Nl,
         \A i \in 1..(Len(g) - 1) : g[i] # Nl
  PROVE  Newlines(g) = {Len(g)} /\ Replaced(<<>>, g, Newlines(g)) = Front(g)
<1> DEFINE f == Front(g)
           n == Len(g)
<1>1. /\ f \in Seq(Piece) /\ Last(g) \in Piece /\ n \in Nat \ {0} /\ Len(f) = n - 1
      /\ Last(g) = g[n] /\ g = Append(f, Last(g))
  BY FrontLast
<1>2. Newlines(g) = {n}
  <2>1. DOMAIN g = 1..n
    OBVIOUS
  <2>2. \A i \in 1..n : g[i] = Nl <=> i = n
    BY <1>1
  <2>3. QED
    BY <1>1, <2>1, <2>2 DEF Newlines
<1> HIDE DEF f
<1>3. <<>> \in Seq(Piece)
  OBVIOUS
<1>4. Replaced(<<>>, Append(f, Last(g)), {n})
        = Replaced(<<>>, f, {n}) \o (IF Len(f) + 1 \in {n} THEN <<>> ELSE <<Last(g)>>)
  <2> DEFINE x == Last(g)
             P == {n}
             w == <<>>
  <2>1. x \in Piece /\ w \in Seq(Piece) /\ f \in Seq(Piece)
    BY <1>1
  <2> HIDE DEF x, P, w
  <2>2. Replaced(w, Append(f, x), P)
          = Replaced(w, f, P) \o (IF Len(f) + 1 \in P THEN w ELSE <<x>>)
    BY <2>1, ReplacedAppend
  <2>3. QED
    BY <2>2 DEF x, P, w
<1>5. Replaced(<<>>, f, {n}) = f
  <2>1. \A i \in 1..Len(f) : i \notin {n}
    BY <1>1
  <2>2. QED
    BY <1>1, <1>3, <2>1, ReplacedNone
<1>6. Len(f) + 1 \in {n}
  BY <1>1
<1>7. f \o <<>> = f
  BY <1>1, ConcatEmptySeq
<1>8. Replaced(<<>>, Append(f, Last(g)), {n}) = f
  BY <1>4, <1>5, <1>6, <1>7
<1>9. QED
  BY <1>1, <1>2, <1>8, Zenon DEF f

\* Nothing is left of a text that ends in a newline.
LEMMA NothingLeft ==
  ASSUME NEW c \in Seq(Piece), Terminated(c)
  PROVE  Handled(c)[Len(Handled(c))] = <<>>
<1> DEFINE h == Handled(c)
           n == Len(c)
<1>1. Chunked(c, n, h)
  BY HandledIs
<1>2. n \in Nat
  OBVIOUS
<1>3. h \in Seq(Seq(Piece)) /\ h # <<>> /\ FlattenSeq(h) = c
  BY <1>1, HandledType DEF Chunked
<1> HIDE DEF h
<1>4. CASE c # <<>>
  <2>1. Last(c) = Nl /\ Last(c) = c[n] /\ n # 0
    BY <1>4, FrontLast DEF Terminated
  <2>2. QED
    BY <1>1, <2>1 DEF Chunked, h
<1>5. CASE c = <<>>
  <2> DEFINE f == Front(h)
             l == Last(h)
  <2>1. f \in Seq(Seq(Piece)) /\ l \in Seq(Piece) /\ l = h[Len(h)] /\ h = Append(f, l)
    BY <1>3, FrontLast
  <2> HIDE DEF f, l
  <2>2. FlattenSeq(Append(f, l)) = FlattenSeq(f) \o l
    BY <2>1, FlattenAppend
  <2>3. FlattenSeq(f) \in Seq(Piece)
    BY <2>1, FlattenType
  <2>4. FlattenSeq(f) \o l = <<>>
    BY <1>3, <1>5, <2>1, <2>2, Zenon
  <2>5. Len(FlattenSeq(f)) + Len(l) = 0
    <3>1. Len(FlattenSeq(f) \o l) = Len(FlattenSeq(f)) + Len(l)
      BY <2>1, <2>3, ConcatProperties
    <3>2. Len(<<>>) = 0
      OBVIOUS
    <3>3. QED
      BY <2>4, <3>1, <3>2
  <2>6. Len(l) = 0
    BY <2>1, <2>3, <2>5
  <2>7. l = <<>>
    BY <2>1, <2>6, EmptySeq
  <2>8. QED
    BY <2>1, <2>7 DEF h
<1>6. QED
  BY <1>4, <1>5

\* A join is what the command says: the character each line loses is its newline.
LEMMA JoinEnds ==
  ASSUME TypeOK, NEW b \in Int, NEW e \in Int, Join(b, e)
  PROVE  Pass
<1> DEFINE h == Handled(Current)
           j == In(h, b, e - 1)
           q == [k \in DOMAIN h |-> IF k \in j /\ h[k] # <<>> THEN Front(h[k]) ELSE h[k]]
           t == [k \in DOMAIN h |-> IF k \in b..(e - 1)
                                    THEN Replaced(<<>>, h[k], Newlines(h[k]))
                                    ELSE h[k]]
           out == FlattenSeq(q)
           text == FlattenSeq(t)
           breaks == {k \in j : h[k] = <<>>}
           total == Fewer(h, j)
           no == b - 1
           wrong == {k \in j : ~Terminated(Current) /\ e > Len(h)}
<1>1. IsOk(b, e) /\ Ended(out, j, breaks, total, no, text, wrong)
  BY DEF Join, Kept
<1>2. /\ h \in Seq(Seq(Piece)) /\ Len(h) \in Nat \ {0} /\ DOMAIN h = 1..Len(h)
      /\ FlattenSeq(h) = Current /\ \A k \in 1..Len(h) : h[k] \in Seq(Piece)
  BY IsTyped, HandledType
<1>3. Whole(Current) => \A k \in 1..(Len(h) - 1) : Last(h[k]) = Nl
  BY DEF Whole, Parts
<1>4. \A k \in 1..(Len(h) - 1) : h[k] # <<>> /\ \A i \in 1..(Len(h[k]) - 1) : h[k][i] # Nl
  BY IsTyped, HandledIs DEF Chunked
<1>5. Terminated(Current) => h[Len(h)] = <<>>
  BY IsTyped, NothingLeft
<1> HIDE DEF h
<1>6. /\ \A k \in 1..Len(h) : k \in j <=> k \in b..(e - 1)
      /\ j \subseteq 1..Len(h) /\ Cardinality(j) \in 0..Len(h)
  <2>1. e - 1 \in Int
    OBVIOUS
  <2>2. QED
    BY <1>2, <2>1, InIs
<1> HIDE DEF j
<1>7. \A k \in 1..Len(h) : Replaced(<<>>, h[k], Newlines(h[k])) \in Seq(Piece)
  <2>1. <<>> \in Seq(Piece)
    OBVIOUS
  <2>2. QED
    BY <1>2, <2>1, ReplacedType
<1>8. \A k \in 1..Len(h) : h[k] # <<>> => Front(h[k]) \in Seq(Piece)
  BY <1>2, FrontLast
<1>9. q \in [1..Len(h) -> Seq(Piece)] /\ t \in [1..Len(h) -> Seq(Piece)]
  BY <1>2, <1>7, <1>8
<1>10. wrong = {} /\ breaks = {} /\ Whole(Current) => q = t
  <2>1. SUFFICES ASSUME wrong = {}, breaks = {}, Whole(Current)
                 PROVE  q = t
    OBVIOUS
  <2>2. ASSUME NEW k \in 1..Len(h)
        PROVE  q[k] = t[k]
    <3>1. CASE k \notin j
      BY <1>2, <1>6, <3>1
    <3>2. CASE k \in j
      <4>1. h[k] # <<>>
        BY <2>1, <3>2
      <4>2. k # Len(h)
        <5>1. SUFFICES ASSUME k = Len(h)
                       PROVE  FALSE
          OBVIOUS
        <5>2. e > Len(h)
          BY <1>2, <1>6, <3>2, <5>1
        <5>3. Terminated(Current)
          BY <2>1, <3>2, <5>2
        <5>4. QED
          BY <1>5, <4>1, <5>1, <5>3
      <4>3. k \in 1..(Len(h) - 1)
        <5>1. \A m \in Nat : \A i \in 1..m : i # m => i \in 1..(m - 1)
          OBVIOUS
        <5>2. Len(h) \in Nat
          BY <1>2
        <5>3. QED
          BY <2>2, <4>2, <5>1, <5>2
      <4>4. h[k] \in Seq(Piece) /\ Last(h[k]) = Nl
        BY <1>2, <1>3, <2>1, <4>3
      <4>5. Replaced(<<>>, h[k], Newlines(h[k])) = Front(h[k])
        BY <1>4, <4>1, <4>3, <4>4, LineEnd
      <4>6. q[k] = Front(h[k]) /\ t[k] = Replaced(<<>>, h[k], Newlines(h[k]))
        BY <1>2, <1>6, <3>2, <4>1
      <4>7. QED
        BY <4>5, <4>6
    <3>3. QED
      BY <3>1, <3>2
  <2>3. q = [k \in 1..Len(h) |-> q[k]] /\ t = [k \in 1..Len(h) |-> t[k]]
    BY <1>2
  <2> HIDE DEF q, t
  <2>4. [k \in 1..Len(h) |-> q[k]] = [k \in 1..Len(h) |-> t[k]]
    BY <2>2
  <2>5. QED
    BY <2>3, <2>4, Zenon
<1>11. j = {} => t = h
  <2>1. SUFFICES ASSUME j = {}
                 PROVE  t = h
    OBVIOUS
  <2>2. t = [k \in DOMAIN h |-> h[k]]
    BY <1>2, <1>6, <2>1
  <2>3. [k \in DOMAIN h |-> h[k]] = h
    BY <1>2
  <2>4. QED
    BY <2>2, <2>3
<1> HIDE DEF q, t
<1>12. out \in Seq(Piece) /\ text \in Seq(Piece)
  BY <1>2, <1>9, KeptType
<1>13. /\ wrong = {} /\ breaks = {} /\ Whole(Current) => out = text
       /\ j = {} => text = Current
  BY <1>2, <1>10, <1>11
<1>14. total \in Int /\ total >= -1
  BY <1>2, <1>6 DEF Fewer
<1>15. no \in Int /\ no >= -1
  BY <1>1 DEF IsOk
<1> HIDE DEF out, text, wrong, breaks, total, no
<1>16. bad \in BOOLEAN /\ clean \in BOOLEAN
  BY IsTyped
<1>17. /\ alive /\ at # "none" /\ Once /\ UNCHANGED <<file, alive>>
       /\ \/ breaks = {} /\ Copied(out, total, no) /\ Says(text) /\ (clean' => wrong = {})
          \/ Failed(out)
          \/ j = {} /\ Passes(out, total, no) /\ Says(text)
  BY <1>1, <1>16, Endings
<1>18. Says(text) /\ clean' => Whole(Current)
  BY DEF Says
<1>19. Does(out, text, total, no)
  BY <1>13, <1>14, <1>15, <1>17, <1>18 DEF Does
<1>20. QED
  BY <1>12, <1>14, <1>15, <1>19 DEF Pass

-----------------------------------------------------------------------------
(* Searching.                                                              *)

\* What find ends with: in the text, and if it goes on for ever, either little
\* is read at once, or the text begins with more than that.
LEMMA FindEnds ==
  ASSUME NEW c \in Seq(Piece), NEW r, Inside(c, r), NEW w, NEW way \in {"forward", "back"}
  PROVE  LET x == Searched(c, r, w, way)
         IN  /\ Within(c, x)
             /\ x.ok /\ w \notin Range(x.text)
                  => \/ \A i \in Newlines(c) : i > LineSize
                     \/ x.size <= 1
<1> DEFINE m == Len(c) + 2
           s == StartsGood(r)
           x == Searched(c, r, w, way)
<1>1. /\ Within(c, s) /\ s.state # "fail" /\ s.pos \in Nat /\ s.pos <= Len(c)
      /\ s.size \in Int
  BY StartsWithin, IsReader DEF Inside
<1>2. m \in Nat /\ Len(c) \in Nat /\ m = Len(c) + 2
  OBVIOUS
<1>10. x = Finds(c, s, m, way, w)
  BY DEF Searched, Finds, Loop
<1> HIDE DEF m, s, x
<1>3. PICK f : Turns(f, c, s, m, "find", w, way) /\ x = f[m]
  BY <1>2, <1>10, FindTurns
<1>4. Stays(c, s, way, f[m])
  <2>1. \A n \in 0..m : Stays(c, s, way, f[n])
    BY <1>1, <1>2, <1>3, TurnsWithin
  <2>2. QED
    BY <1>2, <2>1
<1>5. Within(c, x) /\ (way = "forward" => x.size = s.size)
  BY <1>3, <1>4 DEF Stays
<1>6. x.pos \in Nat /\ x.pos <= Len(c) /\ x.size \in Int
  BY <1>5, IsRead DEF Within
<1>7. ASSUME x.ok, w \notin Range(x.text), way = "forward", ~ (x.size <= 1)
      PROVE  FALSE
  <2>1. s.size > 1
    BY <1>1, <1>5, <1>7
  <2>2. \A n \in 0..m : f[n].ok /\ Goes("find", w, f[n]) => f[n].pos >= n
    BY <1>1, <1>2, <1>3, <1>7, <2>1, SearchForward
  <2>3. f[m].ok /\ Goes("find", w, f[m])
    BY <1>3, <1>7 DEF Goes
  <2>4. x.pos >= m
    BY <1>2, <1>3, <2>2, <2>3
  <2>5. QED
    BY <1>2, <1>6, <2>4
<1>8. ASSUME x.ok, w \notin Range(x.text), way # "forward",
             ~ (\A i \in Newlines(c) : i > LineSize)
      PROVE  FALSE
  <2>1. \A n \in 0..m : f[n].ok /\ Goes("find", w, f[n]) => Left(c, f[n]) <= Left(c, s) - n
    BY <1>1, <1>2, <1>3, <1>8, SearchBack
  <2>2. f[m].ok /\ Goes("find", w, f[m])
    BY <1>3, <1>8 DEF Goes
  <2>3. Left(c, x) <= Left(c, s) - m
    BY <1>2, <1>3, <2>1, <2>2
  <2>4. Left(c, s) <= Len(c) /\ Left(c, s) \in Int
    BY <1>1, <1>2 DEF Left
  <2>5. Left(c, x) >= 0 /\ Left(c, x) \in Int
    BY <1>2, <1>6 DEF Left
  <2>6. QED
    BY <1>2, <2>3, <2>4, <2>5
<1>9. QED
  BY <1>5, <1>7, <1>8 DEF x, m, s

-----------------------------------------------------------------------------
(* The invariant.                                                          *)

\* What a command says is only followed while nothing is left in temp, or temp
\* cannot be copied any more, and only the work file is modified.
Followed ==
  /\ clean => temp = <<>> \/ bad
  /\ modified => at = "work"

IInv == TypeOK /\ ShownAsEdited /\ SearchEnds /\ Followed /\ (alive \/ at # "none")

\* A pass keeps the invariant.
LEMMA PassIInv ==
  ASSUME IInv, edits < MaxEdits, Pass
  PROVE  IInv'
<1>1. PICK out \in Seq(Piece), text \in Seq(Piece), total \in Int, no \in Int :
        Does(out, text, total, no)
  BY DEF Pass
<1>2. TypeOK /\ ShownAsEdited /\ Followed
  BY DEF IInv
<1>3. /\ alive /\ at # "none" /\ Once /\ UNCHANGED <<file, alive>>
      /\ total >= -1 /\ no >= -1
  BY <1>1 DEF Does
<1>4. \/ Copied(out, total, no) /\ Says(text) /\ (clean' => out = text)
      \/ Failed(out)
      \/ Passes(out, total, no) /\ Says(text) /\ (clean' => text = Current)
  BY <1>1 DEF Does
<1>5. TypeOK'
  BY <1>2, <1>3, <1>4, PassTypes
<1>6. temp \in Seq(Piece) /\ <<>> \o out = out
  BY <1>2, IsTyped, ConcatEmptySeq
<1>7. ShownAsEdited' /\ Followed'
  <2>1. CASE Copied(out, total, no) /\ Says(text) /\ (clean' => out = text)
    <3>1. ~bad /\ work' = temp \o out /\ temp' = <<>> /\ at' = "work"
      BY <2>1 DEF Copied
    <3>2. clean' => clean /\ doc' = text /\ out = text
      BY <2>1 DEF Says
    <3>3. clean' => temp = <<>>
      BY <1>2, <3>1, <3>2 DEF Followed
    <3>4. clean' => work' = doc'
      BY <1>6, <3>1, <3>2, <3>3
    <3>5. QED
      BY <3>1, <3>4 DEF ShownAsEdited, Followed, Current
  <2>2. CASE Failed(out)
    <3>1. Current' = Current
      BY <1>3, <2>2 DEF Failed, Current
    <3>2. bad' /\ doc' = doc /\ clean' = clean /\ modified' = modified /\ at' = at
      BY <2>2 DEF Failed
    <3>3. QED
      BY <1>2, <3>1, <3>2 DEF ShownAsEdited, Followed
  <2>3. CASE Passes(out, total, no) /\ Says(text) /\ (clean' => text = Current)
    <3>1. Current' = Current
      BY <1>3, <2>3 DEF Passes, Current
    <3>2. modified' = modified /\ at' = at
      BY <2>3 DEF Passes
    <3>3. clean' => temp' = <<>> /\ doc' = Current
      BY <2>3 DEF Says
    <3>4. QED
      BY <1>2, <3>1, <3>2, <3>3 DEF ShownAsEdited, Followed
  <2>4. QED
    BY <1>4, <2>1, <2>2, <2>3
<1>8. SearchEnds' /\ (alive \/ at # "none")'
  BY <1>3 DEF SearchEnds
<1>9. QED
  BY <1>5, <1>7, <1>8 DEF IInv

\* A step that leaves the text alone leaves alone what it is.
LEMMA Untouched ==
  ASSUME IInv, UNCHANGED <<files, history>>, Inside(Current, reader'),
         last' \in Int, last' >= -1, alive' = alive, alive
  PROVE  IInv'
<1>1. /\ file' = file /\ work' = work /\ temp' = temp /\ bad' = bad /\ at' = at
      /\ modified' = modified /\ doc' = doc /\ clean' = clean /\ edits' = edits
  BY DEF files, history
<1>2. Current' = Current
  BY <1>1 DEF Current
<1>3. TypeOK /\ ShownAsEdited /\ Followed
  BY DEF IInv
<1>4. /\ file \in Seq(Piece) /\ work \in Seq(Piece) /\ temp \in Seq(Piece)
      /\ doc \in Seq(Piece) /\ bad \in BOOLEAN /\ clean \in BOOLEAN /\ alive \in BOOLEAN
      /\ modified \in BOOLEAN /\ edits \in 0..MaxEdits
  BY <1>3, IsTyped
<1>5. at \in {"none", "file", "work"}
  BY <1>3 DEF TypeOK
<1>6. TypeOK'
  BY <1>1, <1>2, <1>4, <1>5, TypedNext
<1>7. ShownAsEdited' /\ Followed'
  BY <1>1, <1>2, <1>3 DEF ShownAsEdited, Followed
<1>8. SearchEnds' /\ (alive \/ at # "none")'
  BY DEF SearchEnds
<1>9. QED
  BY <1>6, <1>7, <1>8 DEF IInv

\* So does a search: if it goes on for ever, it is one of the known cases,
LEMMA FindIInv ==
  ASSUME IInv, NEW w, NEW way \in {"forward", "back"}, Find(w, way)
  PROVE  IInv'
<1> DEFINE c == Current
           x == Searched(c, reader, w, way)
<1>1. /\ c \in Seq(Piece) /\ Inside(c, reader) /\ reader \in Reader /\ reader.line >= Unknown
      /\ last \in Int /\ last >= -1
  BY IsTyped DEF IInv
<1>2. /\ Within(c, x)
      /\ x.ok /\ w \notin Range(x.text)
           => \/ \A i \in Newlines(c) : i > LineSize
              \/ x.size <= 1
  BY <1>1, FindEnds
<1>3. alive /\ at # "none" /\ UNCHANGED <<files, last, history>>
  BY DEF Find
<1>10. \/ /\ x.ok /\ w \notin Range(x.text)
          /\ alive' = FALSE /\ reader' = Stops(x)
       \/ reader' = [Stops(x) EXCEPT !.size = LineSize] /\ alive' = alive
       \/ /\ reader' = [pos |-> IF reader.state = "good" THEN reader.pos ELSE x.pos,
                        state |-> IF reader.state = "good" THEN "good" ELSE "fail",
                        line |-> reader.line, size |-> LineSize, block |-> x.block]
          /\ alive' = alive
  <2>1. CASE x.ok /\ w \notin Range(x.text)
    BY <2>1 DEF Find
  <2>2. CASE x.ok /\ w \in Range(x.text)
    BY <2>2 DEF Find
  <2>3. CASE ~x.ok
    BY <2>3 DEF Find
  <2>4. QED
    BY <2>1, <2>2, <2>3
<1> HIDE DEF c, x
<1>4. /\ x.pos \in Nat /\ x.pos <= Len(c) /\ x.block \in BOOLEAN /\ x.size \in Int
      /\ x.state \in {"good", "eof", "fail"} /\ x.line \in Int /\ x.line >= -1
      /\ Inside(c, Stops(x)) /\ Stops(x).size = x.size
  BY <1>1, <1>2, IsRead, StopsInside DEF Within, Unknown
<1>5. /\ reader.pos \in Nat /\ reader.pos <= Len(c) /\ reader.line \in Int
      /\ reader.line >= -1 /\ LineSize \in Int
  BY <1>1, IsReader, TextsAssumption DEF Inside, Unknown
<1>6. CASE /\ x.ok /\ w \notin Range(x.text)
           /\ alive' = FALSE /\ reader' = Stops(x)
  <2>1. /\ file' = file /\ work' = work /\ temp' = temp /\ bad' = bad /\ at' = at
        /\ modified' = modified /\ doc' = doc /\ clean' = clean /\ edits' = edits
        /\ last' = last /\ at # "none"
    BY <1>3 DEF files, history
  <2>2. Current' = Current
    BY <2>1 DEF Current
  <2>3. /\ file \in Seq(Piece) /\ work \in Seq(Piece) /\ temp \in Seq(Piece)
        /\ doc \in Seq(Piece) /\ bad \in BOOLEAN /\ clean \in BOOLEAN
        /\ modified \in BOOLEAN /\ edits \in 0..MaxEdits
    BY IsTyped DEF IInv
  <2>4. at \in {"none", "file", "work"}
    BY DEF IInv, TypeOK
  <2>5. Inside(Current', reader')
    BY <1>4, <1>6, <2>2 DEF c
  <2>6. TypeOK'
    BY <1>1, <1>6, <2>1, <2>3, <2>4, <2>5, TypedNext
  <2>7. ShownAsEdited' /\ Followed'
    BY <2>1, <2>2 DEF IInv, ShownAsEdited, Followed
  <2>8. SearchEnds'
    BY <1>2, <1>4, <1>6, <2>2 DEF SearchEnds, c
  <2>9. QED
    BY <2>1, <2>6, <2>7, <2>8 DEF IInv
<1>7. CASE reader' = [Stops(x) EXCEPT !.size = LineSize] /\ alive' = alive
  <2>1. reader' = [pos |-> x.pos, state |-> x.state, line |-> x.line, size |-> LineSize,
                   block |-> x.block]
    BY <1>7 DEF Stops
  <2>2. Inside(c, reader')
    BY <1>1, <1>4, <1>5, <2>1, InsideIs
  <2>3. QED
    BY <1>1, <1>3, <1>7, <2>2, Untouched DEF c
<1>8. CASE /\ reader' = [pos |-> IF reader.state = "good" THEN reader.pos ELSE x.pos,
                         state |-> IF reader.state = "good" THEN "good" ELSE "fail",
                         line |-> reader.line, size |-> LineSize, block |-> x.block]
           /\ alive' = alive
  <2>1. reader' \in Reader /\ reader'.pos <= Len(c) /\ reader'.line >= -1
    BY <1>4, <1>5, <1>8 DEF Reader
  <2>2. Inside(c, reader')
    BY <2>1 DEF Inside, Unknown
  <2>3. QED
    BY <1>1, <1>3, <1>8, <2>2, Untouched DEF c
<1>9. QED
  BY <1>10, <1>6, <1>7, <1>8

\* moving to a line,
LEMMA GotoLineIInv ==
  ASSUME IInv, NEW no \in Int, no >= -1, GotoLine(no)
  PROVE  IInv'
<1>1. /\ Current \in Seq(Piece) /\ Inside(Current, reader) /\ last \in Int /\ last >= -1
  BY IsTyped DEF IInv
<1>2. /\ alive /\ alive' = alive /\ last' = last /\ UNCHANGED <<files, history>>
      /\ reader' = Goto(Current, reader, no)
  BY DEF GotoLine
<1>3. Inside(Current, reader')
  BY <1>1, <1>2, GotoInside
<1>4. QED
  BY <1>1, <1>2, <1>3, Untouched

\* counting the lines,
LEMMA CountRequestIInv ==
  ASSUME IInv, CountRequest
  PROVE  IInv'
<1>1. /\ Current \in Seq(Piece) /\ Inside(Current, reader) /\ last \in Int /\ last >= -1
      /\ reader \in Reader
  BY IsTyped DEF IInv
<1>2. alive /\ alive' = alive /\ UNCHANGED <<files, history>>
  BY DEF CountRequest
<1> DEFINE c == Current
           block == reader.block \/ Newlines(c) = {}
<1>3. /\ reader' = [pos |-> IF reader.state = "good" THEN reader.pos ELSE Len(c),
                    state |-> IF reader.state = "good" THEN "good" ELSE "fail",
                    line |-> reader.line, size |-> reader.size, block |-> block]
      /\ \E unended \in 0..1 :
           last' = unended + IF block THEN BlockLines ELSE Cardinality(Newlines(c))
  BY DEF CountRequest
<1>4. Len(c) \in Nat /\ Newlines(c) \subseteq 1..Len(c)
  BY <1>1 DEF Newlines
<1>5. Cardinality(Newlines(c)) \in Nat
  <2>1. IsFiniteSet(1..Len(c))
    BY <1>4, FS_Interval
  <2>2. IsFiniteSet(Newlines(c))
    BY <1>4, <2>1, FS_Subset
  <2>3. QED
    BY <2>2, FS_CardinalityType
<1> HIDE DEF c
<1>6. last' \in Int /\ last' >= -1
  BY <1>3, <1>5 DEF BlockLines
<1>7. Inside(c, reader')
  <2>1. /\ reader.pos \in Nat /\ reader.pos <= Len(c) /\ reader.line \in Int
        /\ reader.line >= -1 /\ reader.size \in Int
    BY <1>1, IsReader DEF Inside, Unknown, c
  <2>2. block \in BOOLEAN
    OBVIOUS
  <2> HIDE DEF block
  <2>3. reader' \in Reader /\ reader'.pos <= Len(c) /\ reader'.line >= -1
    BY <1>3, <1>4, <2>1, <2>2 DEF Reader
  <2>4. QED
    BY <2>3 DEF Inside, Unknown
<1>8. QED
  BY <1>2, <1>6, <1>7, Untouched DEF c

\* writing a range,
LEMMA WriteRangeIInv ==
  ASSUME IInv, NEW b, NEW e, WriteRange(b, e)
  PROVE  IInv'
<1>1. /\ Current \in Seq(Piece) /\ last \in Int /\ last >= -1
      /\ reader \in Reader /\ reader.line >= Unknown
  BY IsTyped DEF IInv
<1>2. /\ alive /\ alive' = alive /\ last' = last /\ UNCHANGED <<files, history>>
      /\ reader' = At(Len(Current))
  BY DEF WriteRange
<1>3. Len(Current) \in Nat /\ Len(Current) <= Len(Current)
  BY <1>1
<1>4. Inside(Current, reader')
  BY <1>1, <1>2, <1>3, AtInside
<1>5. QED
  BY <1>1, <1>2, <1>4, Untouched

\* the start of the stream,
LEMMA StreamIInv ==
  ASSUME IInv, Stream
  PROVE  IInv'
<1>1. /\ file \in Seq(Piece) /\ Current \in Seq(Piece) /\ Inside(Current, reader)
      /\ last \in Int /\ last >= -1
  BY IsTyped DEF IInv
<1>2. /\ at = "none" /\ at' = "file" /\ reader' = Goto(file, reader, 0)
      /\ UNCHANGED <<file, work, temp, bad, modified, last, alive, history>>
  BY DEF Stream
<1>3. Current = file /\ Current' = file
  BY <1>2 DEF Current
<1>4. Inside(Current', reader')
  BY <1>1, <1>2, <1>3, GotoInside
<1>5. /\ work \in Seq(Piece) /\ temp \in Seq(Piece) /\ doc \in Seq(Piece)
      /\ bad \in BOOLEAN /\ clean \in BOOLEAN /\ alive \in BOOLEAN
      /\ modified \in BOOLEAN /\ edits \in 0..MaxEdits
  BY IsTyped DEF IInv
<1>6. TypeOK'
  BY <1>1, <1>2, <1>4, <1>5, TypedNext DEF history
<1>7. alive
  BY <1>2 DEF IInv
<1>8. (modified => at = "work") /\ ~modified
  BY <1>2 DEF IInv, Followed
<1>9. QED
  BY <1>2, <1>3, <1>6, <1>7, <1>8
  DEF IInv, ShownAsEdited, SearchEnds, Followed, history

\* writing the file,
LEMMA WriteIInv ==
  ASSUME IInv, edits < MaxEdits, Write
  PROVE  IInv'
<1>1. /\ file \in Seq(Piece) /\ work \in Seq(Piece) /\ temp \in Seq(Piece)
      /\ doc \in Seq(Piece) /\ bad \in BOOLEAN /\ clean \in BOOLEAN /\ alive \in BOOLEAN
      /\ modified \in BOOLEAN /\ edits \in 0..MaxEdits /\ last \in Int /\ last >= -1
      /\ reader \in Reader /\ reader.line >= Unknown /\ MaxEdits \in Nat
  BY IsTyped, TextsAssumption DEF IInv
<1>2. /\ alive /\ Once /\ file' = work /\ work' = <<>> /\ at' = "file"
      /\ modified' = FALSE /\ reader' = At(0)
      /\ temp' = temp /\ bad' = bad /\ last' = last /\ alive' = alive
  BY DEF Write
<1>3. /\ clean' \in BOOLEAN
      /\ clean' => clean /\ modified /\ temp = <<>> /\ doc' = doc
      /\ ~clean' => doc' = <<>>
  <2>1. CASE modified
    BY <1>2, <2>1 DEF Write, Follows
  <2>2. CASE ~modified
    BY <2>2 DEF Write
  <2>3. QED
    BY <2>1, <2>2
<1>4. Current' = work
  BY <1>2 DEF Current
<1>5. <<>> \in Seq(Piece) /\ 0 \in Nat /\ 0 <= Len(work)
  BY <1>1
<1>6. Inside(Current', reader')
  BY <1>1, <1>2, <1>4, <1>5, AtInside
<1>7. edits' \in 0..MaxEdits
  BY <1>1, <1>2 DEF Once
<1>8. doc' \in Seq(Piece)
  BY <1>1, <1>3, <1>5
<1>9. TypeOK'
  BY <1>1, <1>2, <1>3, <1>5, <1>6, <1>7, <1>8, TypedNext
<1>10. ShownAsEdited'
  <2>1. modified => Current = work
    BY DEF IInv, Followed, Current
  <2>2. clean => Current = doc
    BY DEF IInv, ShownAsEdited
  <2>3. QED
    BY <1>3, <1>4, <2>1, <2>2 DEF ShownAsEdited
<1>11. Followed'
  BY <1>2, <1>3 DEF Followed
<1>12. SearchEnds' /\ (alive \/ at # "none")'
  BY <1>2 DEF SearchEnds
<1>13. QED
  BY <1>9, <1>10, <1>11, <1>12 DEF IInv

\* and a yank, which leaves no lines in temp as long as what it says counts.
LEMMA YankRangeIInv ==
  ASSUME IInv, edits < MaxEdits, NEW b \in Int, NEW e \in Int, YankRange(b, e)
  PROVE  IInv'
<1> DEFINE c == Current
           h == Handled(c)
           out == Without(h, b..Len(h))
           S == {e + 1, Len(h)}
           k == Min(S)
           p == Len(FlattenSeq(SubSeq(h, 1, k)))
<1>1. /\ file \in Seq(Piece) /\ work \in Seq(Piece) /\ temp \in Seq(Piece)
      /\ doc \in Seq(Piece) /\ bad \in BOOLEAN /\ clean \in BOOLEAN /\ alive \in BOOLEAN
      /\ modified \in BOOLEAN /\ edits \in 0..MaxEdits /\ last \in Int /\ last >= -1
      /\ reader \in Reader /\ reader.line >= Unknown /\ MaxEdits \in Nat /\ c \in Seq(Piece)
  BY IsTyped, TextsAssumption DEF IInv
<1>2. /\ alive /\ at # "none" /\ Once /\ IsOk(b, e)
      /\ temp' = IF bad THEN temp ELSE temp \o out
      /\ reader' = At(p) /\ Follows(doc, {})
      /\ file' = file /\ work' = work /\ bad' = bad /\ at' = at /\ modified' = modified
      /\ last' = last /\ alive' = alive
  BY DEF YankRange
<1>3. /\ h \in Seq(Seq(Piece)) /\ Len(h) \in Nat \ {0} /\ FlattenSeq(h) = c
  BY <1>1, HandledType
<1>4. out \in Seq(Piece)
  <2> HIDE DEF h
  <2>1. QED
    BY <1>3, WithoutType
<1> HIDE DEF c, h
<1>5. k \in 0..Len(h)
  <2>1. S \subseteq Nat /\ S # {} /\ Len(h) \in S
    BY <1>2, <1>3 DEF IsOk
  <2> HIDE DEF S
  <2>2. Min(S) \in S /\ \A i \in S : Min(S) <= i
    BY <2>1, Least
  <2>3. Min(S) \in Nat /\ Min(S) <= Len(h) /\ Len(h) \in Nat
    BY <1>3, <2>1, <2>2
  <2>4. k = Min(S)
    OBVIOUS
  <2> HIDE DEF k
  <2>5. QED
    BY <2>3, <2>4
<1> HIDE DEF k, out
<1>6. p \in Nat /\ p <= Len(c)
  <2>1. SubSeq(h, 1, k) \in Seq(Seq(Piece))
    BY <1>3, <1>5, Firsts
  <2>2. FlattenSeq(SubSeq(h, 1, k)) \in Seq(Piece)
    BY <2>1, FlattenType
  <2>3. Len(FlattenSeq(SubSeq(h, 1, k))) <= Len(FlattenSeq(h))
    BY <1>3, <1>5, FlattenFirst
  <2>4. QED
    BY <1>3, <2>2, <2>3
<1> HIDE DEF p
<1>7. Inside(c, At(p))
  BY <1>1, <1>6, AtInside
<1>8. temp \o out \in Seq(Piece) /\ <<>> \in Seq(Piece)
  BY <1>1, <1>4, ConcatProperties
<1>9. /\ clean' \in BOOLEAN
      /\ clean' => clean /\ temp' = <<>> /\ doc' = doc
      /\ ~clean' => doc' = <<>>
  BY <1>2 DEF Follows
<1>10. Current' = Current
  BY <1>2 DEF Current
<1>11. TypeOK'
  <2>1. edits' \in 0..MaxEdits
    BY <1>1, <1>2 DEF Once
  <2>2. at' \in {"none", "file", "work"}
    BY <1>2 DEF IInv, TypeOK
  <2>3. doc' \in Seq(Piece) /\ temp' \in Seq(Piece)
    BY <1>1, <1>2, <1>8, <1>9
  <2>4. Inside(Current', reader')
    BY <1>2, <1>7, <1>10 DEF c
  <2>5. QED
    BY <1>1, <1>2, <1>9, <2>1, <2>2, <2>3, <2>4, TypedNext
<1>12. ShownAsEdited' /\ Followed'
  BY <1>2, <1>9, <1>10 DEF IInv, ShownAsEdited, Followed
<1>13. SearchEnds' /\ (alive \/ at # "none")'
  BY <1>2 DEF SearchEnds
<1>14. QED
  BY <1>11, <1>12, <1>13 DEF IInv

\* The invariant at the start.
LEMMA InitIInv ==
  Init => IInv
<1> SUFFICES ASSUME Init
             PROVE  IInv
  OBVIOUS
<1>1. /\ file \in Seq(Piece) /\ work = <<>> /\ temp = <<>> /\ doc = file
      /\ bad = FALSE /\ at = "none" /\ modified = FALSE /\ last = -1
      /\ alive = TRUE /\ clean = TRUE /\ edits = 0
      /\ reader = [pos |-> 0, state |-> "good", line |-> -1, size |-> LineSize,
                   block |-> FALSE]
      /\ LineSize \in Nat /\ MaxEdits \in Nat
  BY TextsAssumption DEF Init, Unknown
<1>2. reader \in Reader /\ reader.pos = 0 /\ reader.line = -1
  BY <1>1 DEF Reader
<1>3. Current = file /\ <<>> \in Seq(Piece) /\ Len(file) \in Nat
  BY <1>1 DEF Current
<1>4. TypeOK
  <2>1. {file, work, temp, doc} \subseteq Seq(Piece)
    BY <1>1, <1>3
  <2>2. reader.pos <= Len(Current) /\ Unknown <= reader.line
    BY <1>2, <1>3 DEF Unknown
  <2>3. last \in Int /\ last >= Unknown /\ edits \in 0..MaxEdits
    BY <1>1 DEF Unknown
  <2>4. QED
    BY <1>1, <1>2, <2>1, <2>2, <2>3 DEF TypeOK
<1>5. QED
  BY <1>1, <1>3, <1>4 DEF IInv, ShownAsEdited, SearchEnds, Followed

\* What is typed is a number.
LEMMA TypedIs ==
  ASSUME TypeOK
  PROVE  \A n \in Typed : n \in Nat
<1>1. \A n \in 1..MaxLine : n \in Nat
  BY TextsAssumption
<1>2. QED
  BY <1>1, ClampedIs DEF Typed

\* The invariant is kept by every step.
LEMMA NextIInv ==
  ASSUME IInv, [Next]_vars
  PROVE  IInv'
<1>1. TypeOK
  BY DEF IInv
<1>2. \A n \in Typed : n \in Nat
  BY <1>1, TypedIs
<1>3. CASE Stream
  BY <1>3, StreamIInv
<1>4. CASE CountRequest
  BY <1>4, CountRequestIInv
<1>5. ASSUME NEW w \in Word, NEW way \in {"forward", "back"}, Find(w, way)
      PROVE  IInv'
  BY <1>5, FindIInv
<1>6. ASSUME NEW no \in 0..MaxLine, GotoLine(no)
      PROVE  IInv'
  <2>1. no \in Int /\ no >= -1
    OBVIOUS
  <2>2. QED
    BY <1>6, <2>1, GotoLineIInv
<1>7. ASSUME NEW b \in Typed, NEW e \in Typed, WriteRange(b, e)
      PROVE  IInv'
  BY <1>7, WriteRangeIInv
<1>8. CASE edits < MaxEdits /\ Write
  BY <1>8, WriteIInv
<1>9. ASSUME edits < MaxEdits, NEW n \in Typed \cup {0}, NEW after \in BOOLEAN,
             NEW text \in Texts, Insert(n, after, text)
      PROVE  IInv'
  <2>1. n \in Nat
    BY <1>2
  <2>2. text \in Seq(Piece)
    BY TextsAssumption
  <2>3. Pass
    BY <1>1, <1>9, <2>1, <2>2, InsertEnds
  <2>4. QED
    BY <1>9, <2>3, PassIInv
<1>10. ASSUME edits < MaxEdits, NEW b \in Typed, NEW e \in Typed,
              \/ Erase(b, e) \/ Join(b, e) \/ YankRange(b, e)
              \/ \E s \in Subs : SubstitutePlain(b, e, s) \/ SubstituteRegex(b, e, s)
       PROVE  IInv'
  <2>1. b \in Int /\ e \in Int
    BY <1>2
  <2>2. CASE Erase(b, e)
    BY <1>1, <1>10, <2>1, <2>2, EraseEnds, PassIInv
  <2>3. CASE Join(b, e)
    BY <1>1, <1>10, <2>1, <2>3, JoinEnds, PassIInv
  <2>4. CASE YankRange(b, e)
    BY <1>10, <2>1, <2>4, YankRangeIInv
  <2>5. ASSUME NEW s \in Subs, SubstitutePlain(b, e, s)
        PROVE  IInv'
    <3>1. s \in Sub
      BY TextsAssumption
    <3>2. QED
      BY <1>1, <1>10, <2>1, <2>5, <3>1, PlainEnds, PassIInv
  <2>6. ASSUME NEW s \in Subs, SubstituteRegex(b, e, s)
        PROVE  IInv'
    <3>1. s \in Sub
      BY TextsAssumption
    <3>2. QED
      BY <1>1, <1>10, <2>1, <2>6, <3>1, RegexEnds, PassIInv
  <2>7. QED
    BY <1>10, <2>2, <2>3, <2>4, <2>5, <2>6
<1>11. CASE UNCHANGED vars
  BY <1>11 DEF vars, IInv, TypeOK, ShownAsEdited, SearchEnds, Followed, Current
<1>12. QED
  BY <1>3, <1>4, <1>5, <1>6, <1>7, <1>8, <1>9, <1>10, <1>11 DEF Next

\* The invariant, from every start on.
THEOREM InductiveInvariant ==
  Spec => []IInv
<1>1. Init => IInv
  BY InitIInv
<1>2. IInv /\ [Next]_vars => IInv'
  BY NextIInv
<1>3. QED
  BY <1>1, <1>2, PTL DEF Spec

-----------------------------------------------------------------------------
(* The number of lines.                                                    *)

\* A line with its newline at its end, and a piece of text without a newline.
Ends(g) == g # <<>> /\ Last(g) = Nl /\ \A i \in 1..(Len(g) - 1) : g[i] # Nl
Bare(g) == \A i \in 1..Len(g) : g[i] # Nl

\* Texts that are each a line or bare, the lines among them, and texts of which
\* the last that is not empty ends in a newline.
Tidy(q) == \A k \in 1..Len(q) : Ends(q[k]) \/ Bare(q[k])
Full(q) == {k \in 1..Len(q) : Ends(q[k])}
Closed(q) == \A k \in 1..Len(q) :
               q[k] # <<>> /\ (\A i \in (k + 1)..Len(q) : q[i] = <<>>) => Last(q[k]) = Nl

\* The newlines of a text can be counted.
LEMMA NewlinesFinite ==
  ASSUME NEW a \in Seq(Piece)
  PROVE  /\ Newlines(a) \subseteq 1..Len(a) /\ Len(a) \in Nat
         /\ IsFiniteSet(Newlines(a)) /\ Cardinality(Newlines(a)) \in Nat
<1>1. Newlines(a) \subseteq 1..Len(a) /\ Len(a) \in Nat
  BY DEF Newlines
<1>2. IsFiniteSet(1..Len(a))
  BY <1>1, FS_Interval
<1>3. IsFiniteSet(Newlines(a))
  BY <1>1, <1>2, FS_Subset
<1>4. QED
  BY <1>1, <1>3, FS_CardinalityType

\* The characters of two texts put together.
LEMMA ConcatIs ==
  ASSUME NEW S, NEW a \in Seq(S), NEW g \in Seq(S)
  PROVE  /\ a \o g \in Seq(S) /\ Len(a \o g) = Len(a) + Len(g)
         /\ \A i \in 1..Len(a) : (a \o g)[i] = a[i]
         /\ \A i \in 1..Len(g) : (a \o g)[Len(a) + i] = g[i]
         /\ Len(a) \in Nat /\ Len(g) \in Nat
OBVIOUS

\* Text without a newline adds none.
LEMMA BareAdds ==
  ASSUME NEW a \in Seq(Piece), NEW g \in Seq(Piece), Bare(g)
  PROVE  Newlines(a \o g) = Newlines(a)
<1> DEFINE c == a \o g
           m == Len(a)
           n == Len(g)
<1>1. /\ c \in Seq(Piece) /\ Len(c) = m + n /\ m \in Nat /\ n \in Nat
      /\ \A i \in 1..m : c[i] = a[i]
      /\ \A i \in 1..n : c[m + i] = g[i]
  BY ConcatIs
<1>2. DOMAIN c = 1..(m + n) /\ DOMAIN a = 1..m
  BY <1>1
<1> HIDE DEF c
<1>3. ASSUME NEW i \in 1..(m + n)
      PROVE  c[i] = Nl <=> i \in 1..m /\ a[i] = Nl
  <2>1. CASE i \in 1..m
    BY <1>1, <2>1
  <2>2. CASE i \notin 1..m
    <3>1. i - m \in 1..n /\ m + (i - m) = i
      BY <1>1, <2>2
    <3>2. c[m + (i - m)] = g[i - m]
      BY <1>1, <3>1
    <3>3. QED
      BY <2>2, <3>1, <3>2 DEF Bare
  <2>3. QED
    BY <2>1, <2>2
<1>4. \A i \in 1..m : i \in 1..(m + n)
  BY <1>1
<1>5. Newlines(c) = Newlines(a)
  BY <1>2, <1>3, <1>4 DEF Newlines
<1>6. QED
  BY <1>5 DEF c

\* A line adds one.
LEMMA EndAdds ==
  ASSUME NEW a \in Seq(Piece), NEW g \in Seq(Piece), Ends(g)
  PROVE  Cardinality(Newlines(a \o g)) = Cardinality(Newlines(a)) + 1
<1> DEFINE c == a \o g
           m == Len(a)
           n == Len(g)
<1>1. /\ c \in Seq(Piece) /\ Len(c) = m + n /\ m \in Nat /\ n \in Nat
      /\ \A i \in 1..m : c[i] = a[i]
      /\ \A i \in 1..n : c[m + i] = g[i]
  BY ConcatIs
<1>2. DOMAIN c = 1..(m + n) /\ DOMAIN a = 1..m
  BY <1>1
<1>3. n # 0 /\ g[n] = Nl
  BY FrontLast DEF Ends
<1> HIDE DEF c
<1>4. ASSUME NEW i \in 1..(m + n)
      PROVE  c[i] = Nl <=> (i \in 1..m /\ a[i] = Nl) \/ i = m + n
  <2>1. CASE i \in 1..m
    BY <1>1, <1>3, <2>1
  <2>2. CASE i \notin 1..m
    <3>1. i - m \in 1..n /\ m + (i - m) = i
      BY <1>1, <2>2
    <3>2. c[i] = g[i - m]
      BY <1>1, <3>1
    <3>3. CASE i = m + n
      <4>1. i - m = n
        BY <1>1, <3>3
      <4>2. QED
        BY <1>3, <3>2, <3>3, <4>1
    <3>4. CASE i # m + n
      <4>1. i - m \in 1..(n - 1)
        BY <1>1, <3>1, <3>4
      <4>2. g[i - m] # Nl
        BY <4>1 DEF Ends
      <4>3. QED
        BY <2>2, <3>2, <3>4, <4>2
    <3>5. QED
      BY <3>3, <3>4
  <2>3. QED
    BY <2>1, <2>2
<1>5. \A i \in 1..m : i \in 1..(m + n)
  BY <1>1
<1>6. m + n \in 1..(m + n) /\ m + n \notin 1..m
  BY <1>1, <1>3
<1>7. Newlines(c) = Newlines(a) \cup {m + n}
  BY <1>2, <1>4, <1>5, <1>6 DEF Newlines
<1>8. m + n \notin Newlines(a)
  BY <1>6, NewlinesFinite
<1>9. Cardinality(Newlines(a) \cup {m + n}) = Cardinality(Newlines(a)) + 1
  BY <1>8, NewlinesFinite, FS_AddElement
<1>10. QED
  BY <1>7, <1>9 DEF c

\* Texts that are lines or bare, put together, have as many newlines as there
\* are lines.
LEMMA NewlinesOf ==
  \A q \in Seq(Seq(Piece)) :
    Tidy(q) => Cardinality(Newlines(FlattenSeq(q))) = Cardinality(Full(q))
<1> DEFINE Good(q) == Tidy(q) => Cardinality(Newlines(FlattenSeq(q))) = Cardinality(Full(q))
           P == {n \in Nat : \A q \in Seq(Seq(Piece)) : Len(q) = n => Good(q)}
<1>1. 0 \in P
  <2>1. ASSUME NEW q \in Seq(Seq(Piece)), Len(q) = 0
        PROVE  Good(q)
    <3>1. q = <<>>
      BY <2>1, EmptySeq
    <3>2. FlattenSeq(q) = <<>>
      BY <3>1, FlattenEmpty
    <3>3. <<>> \in Seq(Piece) /\ Len(<<>>) = 0
      OBVIOUS
    <3>4. Newlines(<<>>) = {}
      BY <3>3 DEF Newlines
    <3>5. Full(q) = {}
      BY <2>1 DEF Full
    <3>6. QED
      BY <3>2, <3>4, <3>5
  <2>2. QED
    BY <2>1
<1>2. ASSUME NEW n \in Nat, n \in P
      PROVE  n + 1 \in P
  <2>1. SUFFICES ASSUME NEW q \in Seq(Seq(Piece)), Len(q) = n + 1, Tidy(q)
                 PROVE  Cardinality(Newlines(FlattenSeq(q))) = Cardinality(Full(q))
    OBVIOUS
  <2> DEFINE f == Front(q)
             g == Last(q)
             a == FlattenSeq(f)
  <2>2. q # <<>>
    BY <2>1, EmptySeq
  <2>3. /\ f \in Seq(Seq(Piece)) /\ g \in Seq(Piece) /\ Len(f) = n
        /\ \A k \in 1..n : f[k] = q[k]
        /\ g = q[n + 1] /\ q = Append(f, g)
    <3>1. /\ f \in Seq(Seq(Piece)) /\ g \in Seq(Piece) /\ Len(f) = Len(q) - 1
          /\ \A k \in 1..(Len(q) - 1) : f[k] = q[k]
          /\ g = q[Len(q)] /\ q = Append(f, g)
      BY <2>2, FrontLast
    <3>2. Len(q) = n + 1 /\ Len(q) - 1 = n
      BY <2>1
    <3> HIDE DEF f, g
    <3>3. QED
      BY <3>1, <3>2
  <2> HIDE DEF f, g
  <2>4. a \in Seq(Piece)
    BY <2>3, FlattenType
  <2>5. FlattenSeq(q) = a \o g
    <3>1. FlattenSeq(Append(f, g)) = a \o g
      BY <2>3, FlattenAppend
    <3>2. QED
      BY <2>3, <3>1, Zenon
  <2>6. Tidy(f)
    <3>1. \A k \in 1..(n + 1) : Ends(q[k]) \/ Bare(q[k])
      BY <2>1 DEF Tidy
    <3>2. \A k \in 1..n : Ends(f[k]) \/ Bare(f[k])
      <4>1. \A k \in 1..n : k \in 1..(n + 1) /\ f[k] = q[k]
        BY <2>3
      <4>2. QED
        BY <3>1, <4>1
    <3>3. QED
      BY <2>3, <3>2 DEF Tidy
  <2>7. Cardinality(Newlines(a)) = Cardinality(Full(f))
    BY <1>2, <2>3, <2>6
  <2>8. Full(f) \subseteq 1..n /\ IsFiniteSet(Full(f))
    <3>1. Full(f) \subseteq 1..n
      BY <2>3 DEF Full
    <3>2. IsFiniteSet(1..n)
      BY FS_Interval
    <3>3. QED
      BY <3>1, <3>2, FS_Subset
  <2> HIDE DEF a
  <2>9. CASE Ends(g)
    <3>1. Full(q) = Full(f) \cup {n + 1}
      BY <2>1, <2>3, <2>9 DEF Full
    <3>2. n + 1 \notin Full(f)
      BY <2>8
    <3>3. Cardinality(Full(f) \cup {n + 1}) = Cardinality(Full(f)) + 1
      BY <2>8, <3>2, FS_AddElement
    <3>4. Cardinality(Newlines(a \o g)) = Cardinality(Newlines(a)) + 1
      BY <2>3, <2>4, <2>9, EndAdds
    <3>5. QED
      BY <2>5, <2>7, <3>1, <3>3, <3>4
  <2>10. CASE ~Ends(g)
    <3>1. Full(q) = Full(f)
      BY <2>1, <2>3, <2>10 DEF Full
    <3>2. Bare(g)
      BY <2>1, <2>3, <2>10 DEF Tidy
    <3>3. Newlines(a \o g) = Newlines(a)
      BY <2>3, <2>4, <3>2, BareAdds
    <3>4. QED
      BY <2>5, <2>7, <3>1, <3>3
  <2>11. QED
    BY <2>9, <2>10
<1>3. \A n \in Nat : n \in P
  <2> HIDE DEF P
  <2>1. QED
    BY <1>1, <1>2, Induction
<1>4. QED
  BY <1>3

\* A text ends in a newline if the last one it is made of that is not empty does.
LEMMA TerminatedOf ==
  \A q \in Seq(Seq(Piece)) : Closed(q) => Terminated(FlattenSeq(q))
<1> DEFINE P == {n \in Nat : \A q \in Seq(Seq(Piece)) :
                   Len(q) = n /\ Closed(q) => Terminated(FlattenSeq(q))}
<1>1. 0 \in P
  <2>1. ASSUME NEW q \in Seq(Seq(Piece)), Len(q) = 0
        PROVE  Terminated(FlattenSeq(q))
    <3>1. q = <<>>
      BY <2>1, EmptySeq
    <3>2. FlattenSeq(q) = <<>>
      BY <3>1, FlattenEmpty
    <3>3. QED
      BY <3>2 DEF Terminated
  <2>2. QED
    BY <2>1
<1>2. ASSUME NEW n \in Nat, n \in P
      PROVE  n + 1 \in P
  <2>1. SUFFICES ASSUME NEW q \in Seq(Seq(Piece)), Len(q) = n + 1, Closed(q)
                 PROVE  Terminated(FlattenSeq(q))
    OBVIOUS
  <2> DEFINE f == Front(q)
             g == Last(q)
             a == FlattenSeq(f)
  <2>2. q # <<>>
    BY <2>1, EmptySeq
  <2>3. /\ f \in Seq(Seq(Piece)) /\ g \in Seq(Piece) /\ Len(f) = n
        /\ \A k \in 1..n : f[k] = q[k]
        /\ g = q[n + 1] /\ q = Append(f, g)
    <3>1. /\ f \in Seq(Seq(Piece)) /\ g \in Seq(Piece) /\ Len(f) = Len(q) - 1
          /\ \A k \in 1..(Len(q) - 1) : f[k] = q[k]
          /\ g = q[Len(q)] /\ q = Append(f, g)
      BY <2>2, FrontLast
    <3>2. Len(q) = n + 1 /\ Len(q) - 1 = n
      BY <2>1
    <3> HIDE DEF f, g
    <3>3. QED
      BY <3>1, <3>2
  <2> HIDE DEF f, g
  <2>4. a \in Seq(Piece)
    BY <2>3, FlattenType
  <2>5. FlattenSeq(q) = a \o g
    <3>1. FlattenSeq(Append(f, g)) = a \o g
      BY <2>3, FlattenAppend
    <3>2. QED
      BY <2>3, <3>1, Zenon
  <2>6. CASE g = <<>>
    <3>1. ASSUME NEW k \in 1..n, f[k] # <<>>, \A i \in (k + 1)..n : f[i] = <<>>
          PROVE  Last(f[k]) = Nl
      <4>1. k \in 1..(n + 1) /\ q[k] = f[k]
        BY <2>3
      <4>2. ASSUME NEW i \in (k + 1)..(n + 1)
            PROVE  q[i] = <<>>
        <5>1. i \in (k + 1)..n \/ i = n + 1
          OBVIOUS
        <5>2. i \in (k + 1)..n => i \in 1..n
          OBVIOUS
        <5>3. QED
          BY <2>3, <2>6, <3>1, <5>1, <5>2
      <4>3. QED
        BY <2>1, <3>1, <4>1, <4>2 DEF Closed
    <3>2. Closed(f)
      BY <2>3, <3>1 DEF Closed
    <3>3. Terminated(a)
      BY <1>2, <2>3, <3>2
    <3>4. a \o <<>> = a
      BY <2>4, ConcatEmptySeq
    <3>5. QED
      BY <2>5, <2>6, <3>3, <3>4
  <2>7. CASE g # <<>>
    <3>1. Last(g) = Nl
      <4>1. n + 1 \in 1..(n + 1) /\ \A i \in ((n + 1) + 1)..(n + 1) : q[i] = <<>>
        OBVIOUS
      <4>2. QED
        BY <2>1, <2>3, <2>7, <4>1 DEF Closed
    <3> HIDE DEF a
    <3>2. /\ Len(g) \in Nat \ {0} /\ Last(g) = g[Len(g)]
      BY <2>3, <2>7, FrontLast
    <3>3. /\ a \o g \in Seq(Piece) /\ Len(a \o g) = Len(a) + Len(g) /\ Len(a) \in Nat
          /\ \A i \in 1..Len(g) : (a \o g)[Len(a) + i] = g[i]
      BY <2>3, <2>4, ConcatIs
    <3>4. (a \o g)[Len(a \o g)] = Nl
      BY <3>1, <3>2, <3>3
    <3>5. Len(a \o g) # 0
      BY <3>2, <3>3
    <3>6. a \o g # <<>>
      BY <3>3, <3>5, EmptySeq
    <3>7. Last(a \o g) = Nl
      BY <3>3, <3>4, <3>6, FrontLast
    <3>8. QED
      BY <2>5, <3>7 DEF Terminated
  <2>8. QED
    BY <2>6, <2>7
<1>3. \A n \in Nat : n \in P
  <2> HIDE DEF P
  <2>1. QED
    BY <1>1, <1>2, Induction
<1>4. QED
  BY <1>3

\* The number of lines of texts put together.
LEMMA LinesOf ==
  ASSUME NEW q \in Seq(Seq(Piece)), Tidy(q), Closed(q)
  PROVE  Lines(FlattenSeq(q)) = Cardinality(Full(q))
<1>1. Full(q) \subseteq 1..Len(q) /\ Len(q) \in Nat
  BY DEF Full
<1>2. IsFiniteSet(1..Len(q))
  BY <1>1, FS_Interval
<1>3. Cardinality(Full(q)) \in Nat
  BY <1>1, <1>2, FS_Subset, FS_CardinalityType
<1>4. /\ Cardinality(Newlines(FlattenSeq(q))) = Cardinality(Full(q))
      /\ Terminated(FlattenSeq(q))
  BY NewlinesOf, TerminatedOf
<1>5. QED
  BY <1>3, <1>4 DEF Lines

\* The lines of a text without long lines that ends in a newline.
LEMMA WholeIs ==
  ASSUME NEW c \in Seq(Piece), Whole(c), Terminated(c)
  PROVE  LET h == Handled(c)
         IN  /\ h \in Seq(Seq(Piece)) /\ Len(h) \in Nat \ {0}
             /\ \A k \in 1..(Len(h) - 1) : Ends(h[k])
             /\ h[Len(h)] = <<>>
             /\ Lines(c) = Len(h) - 1
<1> DEFINE h == Handled(c)
           m == Len(h) - 1
<1>1. /\ h \in Seq(Seq(Piece)) /\ Len(h) \in Nat \ {0} /\ FlattenSeq(h) = c
  BY HandledType
<1>2. \A k \in 1..m : h[k] # <<>> /\ \A i \in 1..(Len(h[k]) - 1) : h[k][i] # Nl
  BY HandledIs DEF Chunked
<1>3. \A k \in 1..m : Last(h[k]) = Nl
  BY DEF Whole, Parts
<1>4. h[Len(h)] = <<>>
  BY NothingLeft
<1> HIDE DEF h
<1>5. \A k \in 1..m : Ends(h[k])
  BY <1>2, <1>3 DEF Ends
<1>6. m \in Nat /\ Len(h) = m + 1
  BY <1>1
<1> HIDE DEF m
<1>7. \A k \in 1..Len(h) : k \in 1..m \/ k = Len(h)
  BY <1>6
<1>8. Bare(h[Len(h)]) /\ ~Ends(h[Len(h)])
  <2>1. Len(<<>>) = 0
    OBVIOUS
  <2>2. QED
    BY <1>4, <2>1 DEF Bare, Ends
<1>9. Tidy(h)
  BY <1>5, <1>7, <1>8 DEF Tidy
<1>10. Closed(h)
  BY <1>3, <1>4, <1>7 DEF Closed
<1>11. Full(h) = 1..m
  BY <1>5, <1>6, <1>7, <1>8 DEF Full
<1>12. Lines(c) = m
  <2>1. Lines(FlattenSeq(h)) = Cardinality(Full(h))
    BY <1>1, <1>9, <1>10, LinesOf
  <2>2. Cardinality(1..m) = m
    BY <1>6, CountTo
  <2>3. QED
    BY <1>1, <1>11, <2>1, <2>2
<1>13. QED
  BY <1>1, <1>4, <1>5, <1>12 DEF h, m

\* Lines that lose their newline, all of them before the last, are gone.
LEMMA LinesLess ==
  ASSUME NEW c \in Seq(Piece), Whole(c), Terminated(c),
         NEW h, h = Handled(c), NEW d, d \subseteq 1..(Len(h) - 1),
         NEW q \in Seq(Seq(Piece)), Len(q) = Len(h), Closed(q),
         \A k \in 1..Len(h) : IF k \in d THEN Bare(q[k]) /\ ~Ends(q[k]) ELSE q[k] = h[k]
  PROVE  Lines(FlattenSeq(q)) = Fewer(h, d)
<1> DEFINE m == Len(h) - 1
<1>1. /\ h \in Seq(Seq(Piece)) /\ Len(h) \in Nat \ {0}
      /\ \A k \in 1..m : Ends(h[k])
      /\ h[Len(h)] = <<>>
  BY WholeIs
<1>2. m \in Nat /\ Len(h) = m + 1
  BY <1>1
<1> HIDE DEF m
<1>3. \A k \in 1..Len(h) : k \in 1..m \/ k = Len(h)
  BY <1>2
<1>4. Bare(h[Len(h)]) /\ ~Ends(h[Len(h)])
  <2>1. Len(<<>>) = 0
    OBVIOUS
  <2>2. QED
    BY <1>1, <2>1 DEF Bare, Ends
<1>5. Tidy(q)
  BY <1>1, <1>3, <1>4 DEF Tidy
<1>6. d \subseteq 1..m /\ Len(h) \notin d
  BY <1>2 DEF m
<1>7. Full(q) = (1..m) \ d
  <2>1. ASSUME NEW k \in 1..Len(h)
        PROVE  Ends(q[k]) <=> k \in 1..m /\ k \notin d
    <3>1. CASE k \in d
      BY <3>1
    <3>2. CASE k \notin d /\ k \in 1..m
      BY <1>1, <3>2
    <3>3. CASE k \notin d /\ k \notin 1..m
      <4>1. k = Len(h)
        BY <1>3, <3>3
      <4>2. q[k] = h[Len(h)]
        BY <3>3, <4>1
      <4>3. QED
        BY <1>4, <3>3, <4>2
    <3>4. QED
      BY <3>1, <3>2, <3>3
  <2>2. \A k \in 1..m : k \in 1..Len(h)
    BY <1>2
  <2>3. QED
    BY <2>1, <2>2 DEF Full
<1>8. Cardinality((1..m) \ d) = m - Cardinality(d) /\ Cardinality(d) \in Nat
  <2>1. IsFiniteSet(1..m) /\ Cardinality(1..m) = m
    BY <1>2, CountTo
  <2>2. IsFiniteSet(d)
    BY <1>6, <2>1, FS_Subset
  <2>3. Cardinality((1..m) \ d) = Cardinality(1..m) - Cardinality((1..m) \cap d)
    BY <2>1, FS_Difference
  <2>4. (1..m) \cap d = d
    BY <1>6
  <2>5. QED
    BY <2>1, <2>2, <2>3, <2>4, FS_CardinalityType
<1>9. Lines(FlattenSeq(q)) = Cardinality(Full(q))
  BY <1>5, LinesOf
<1>10. QED
  BY <1>2, <1>7, <1>8, <1>9 DEF Fewer

\* What the count after a pass is that erases or joins lines.
LEMMA PassCounts ==
  ASSUME TypeOK, Whole(Current), Terminated(Current), temp = <<>>,
         last = Lines(Current), last' # last,
         NEW h, h = Handled(Current), NEW d, d \subseteq 1..(Len(h) - 1),
         NEW q \in Seq(Seq(Piece)), Len(q) = Len(h), Closed(q),
         \A k \in 1..Len(h) : IF k \in d THEN Bare(q[k]) /\ ~Ends(q[k]) ELSE q[k] = h[k],
         NEW no,
         \/ Copied(FlattenSeq(q), Fewer(h, d), no)
         \/ Failed(FlattenSeq(q))
         \/ d = {} /\ Passes(FlattenSeq(q), Fewer(h, d), no)
  PROVE  last' = Lines(Current')
<1> DEFINE out == FlattenSeq(q)
           total == Fewer(h, d)
<1>1. Current \in Seq(Piece) /\ out \in Seq(Piece)
  BY IsTyped, FlattenType
<1>2. Len(h) \in Nat \ {0} /\ last = Len(h) - 1
  BY <1>1, WholeIs
<1>3. Lines(out) = total
  BY <1>1, LinesLess
<1>4. d = {} => total = last
  BY <1>2, FS_EmptySet DEF Fewer
<1> HIDE DEF out, total
<1>5. CASE Copied(out, total, no)
  <2>1. last' = total /\ work' = temp \o out /\ at' = "work"
    BY <1>5 DEF Copied
  <2>2. Current' = temp \o out
    BY <2>1 DEF Current
  <2>3. <<>> \o out = out
    BY <1>1, ConcatEmptySeq
  <2>4. QED
    BY <1>3, <2>1, <2>2, <2>3
<1>6. CASE Failed(out)
  BY <1>6 DEF Failed
<1>7. CASE d = {} /\ Passes(out, total, no)
  BY <1>4, <1>7 DEF Passes
<1>8. QED
  BY <1>5, <1>6, <1>7 DEF out, total

\* The count after an erase is right,
LEMMA EraseCounts ==
  ASSUME TypeOK, Whole(Current), Terminated(Current), temp = <<>>,
         last = Lines(Current), last' # last,
         NEW b \in Typed, NEW e \in Typed, Erase(b, e)
  PROVE  last' = Lines(Current')
<1> DEFINE h == Handled(Current)
           d == In(h, b, e)
           q == [k \in DOMAIN h |-> IF k \in d THEN <<>> ELSE h[k]]
           total == Fewer(h, d)
           text == Without(h, b..e)
<1>1. Ended(FlattenSeq(q), d, {}, total, 0, text, {})
  BY DEF Erase, Without, Kept
<1>2. Current \in Seq(Piece) /\ bad \in BOOLEAN /\ clean \in BOOLEAN
  BY IsTyped
<1>3. /\ h \in Seq(Seq(Piece)) /\ Len(h) \in Nat \ {0}
      /\ \A k \in 1..(Len(h) - 1) : Ends(h[k])
      /\ h[Len(h)] = <<>> /\ last = Len(h) - 1
  BY <1>2, WholeIs
<1>4. b \in Nat /\ e \in Nat /\ e <= last
  <2>1. PICK n \in 1..MaxLine : e = Clamped(n)
    BY DEF Typed
  <2>2. n \in Nat
    BY TextsAssumption
  <2>3. last # -1
    BY <1>3
  <2>4. QED
    BY <2>1, <2>2, <2>3, ClampedIs, TypedIs
<1> HIDE DEF h
<1>5. /\ DOMAIN h = 1..Len(h) /\ d \subseteq 1..Len(h)
      /\ \A k \in 1..Len(h) : k \in d <=> k \in b..e
  BY <1>3, <1>4, InIs
<1> HIDE DEF d
<1>6. d \subseteq 1..(Len(h) - 1)
  BY <1>3, <1>4, <1>5
<1>7. q \in Seq(Seq(Piece)) /\ Len(q) = Len(h)
  <2>1. \A k \in 1..Len(h) : h[k] \in Seq(Piece)
    BY <1>3
  <2>2. <<>> \in Seq(Piece)
    OBVIOUS
  <2>3. q \in [1..Len(h) -> Seq(Piece)]
    BY <1>5, <2>1, <2>2
  <2>4. Len(h) \in Nat
    BY <1>3
  <2>5. q \in Seq(Seq(Piece))
    BY <2>3, <2>4, IsSequence
  <2>6. DOMAIN q = 1..Len(h)
    BY <2>3
  <2> HIDE DEF q
  <2>7. QED
    BY <2>4, <2>5, <2>6, LenProperties
<1>8. \A k \in 1..Len(h) : q[k] = IF k \in d THEN <<>> ELSE h[k]
  BY <1>5
<1> HIDE DEF q, total, text
<1>9. Closed(q)
  <2>1. ASSUME NEW k \in 1..Len(h), q[k] # <<>>
        PROVE  Last(q[k]) = Nl
    <3>1. k \notin d /\ q[k] = h[k]
      BY <1>8, <2>1
    <3>2. k # Len(h)
      BY <1>3, <2>1, <3>1
    <3>3. k \in 1..(Len(h) - 1)
      <4>1. \A m \in Nat : \A i \in 1..m : i # m => i \in 1..(m - 1)
        OBVIOUS
      <4>2. QED
        BY <1>3, <2>1, <3>2, <4>1
    <3>4. QED
      BY <1>3, <3>1, <3>3 DEF Ends
  <2>2. QED
    BY <1>7, <2>1 DEF Closed
<1>10. \A k \in 1..Len(h) : IF k \in d THEN Bare(q[k]) /\ ~Ends(q[k]) ELSE q[k] = h[k]
  <2>1. Len(<<>>) = 0
    OBVIOUS
  <2>2. Bare(<<>>) /\ ~Ends(<<>>)
    BY <2>1 DEF Bare, Ends
  <2>3. QED
    BY <1>8, <2>2
<1>11. \/ Copied(FlattenSeq(q), total, 0)
       \/ Failed(FlattenSeq(q))
       \/ d = {} /\ Passes(FlattenSeq(q), total, 0)
  BY <1>1, <1>2, Endings
<1>12. QED
  BY <1>6, <1>7, <1>9, <1>10, <1>11, PassCounts DEF total, h

\* that after a join,
LEMMA JoinCounts ==
  ASSUME TypeOK, Whole(Current), Terminated(Current), temp = <<>>,
         last = Lines(Current), last' # last,
         NEW b \in Typed, NEW e \in Typed, Join(b, e)
  PROVE  last' = Lines(Current')
<1> DEFINE h == Handled(Current)
           d == In(h, b, e - 1)
           q == [k \in DOMAIN h |-> IF k \in d /\ h[k] # <<>> THEN Front(h[k]) ELSE h[k]]
           breaks == {k \in d : h[k] = <<>>}
           total == Fewer(h, d)
           no == b - 1
           text == Kept(h, LAMBDA k : IF k \in b..(e - 1)
                                      THEN Replaced(<<>>, h[k], Newlines(h[k]))
                                      ELSE h[k])
           wrong == {k \in d : ~Terminated(Current) /\ e > Len(h)}
<1>1. Ended(FlattenSeq(q), d, breaks, total, no, text, wrong)
  BY DEF Join, Kept
<1>2. Current \in Seq(Piece) /\ bad \in BOOLEAN /\ clean \in BOOLEAN
  BY IsTyped
<1>3. /\ h \in Seq(Seq(Piece)) /\ Len(h) \in Nat \ {0}
      /\ \A k \in 1..(Len(h) - 1) : Ends(h[k])
      /\ h[Len(h)] = <<>> /\ last = Len(h) - 1
  BY <1>2, WholeIs
<1>4. b \in Nat /\ e \in Nat /\ e <= last
  <2>1. PICK n \in 1..MaxLine : e = Clamped(n)
    BY DEF Typed
  <2>2. n \in Nat
    BY TextsAssumption
  <2>3. last # -1
    BY <1>3
  <2>4. QED
    BY <2>1, <2>2, <2>3, ClampedIs, TypedIs
<1> HIDE DEF h
<1>5. /\ DOMAIN h = 1..Len(h) /\ d \subseteq 1..Len(h)
      /\ \A k \in 1..Len(h) : k \in d <=> k \in b..(e - 1)
  <2>1. b \in Int /\ e - 1 \in Int
    BY <1>4
  <2>2. QED
    BY <1>3, <2>1, InIs
<1> HIDE DEF d, text, wrong, breaks, no, total
<1>6. d \subseteq 1..(Len(h) - 1)
  BY <1>3, <1>4, <1>5
<1>7. \A k \in d : /\ h[k] # <<>> /\ Ends(h[k]) /\ h[k] \in Seq(Piece)
                   /\ Front(h[k]) \in Seq(Piece) /\ Bare(Front(h[k])) /\ ~Ends(Front(h[k]))
  <2>1. SUFFICES ASSUME NEW k \in d
                 PROVE  /\ h[k] # <<>> /\ Ends(h[k]) /\ h[k] \in Seq(Piece)
                        /\ Front(h[k]) \in Seq(Piece) /\ Bare(Front(h[k]))
                        /\ ~Ends(Front(h[k]))
    OBVIOUS
  <2> DEFINE g == h[k]
             f == Front(g)
  <2>2. Ends(g) /\ g \in Seq(Piece)
    BY <1>3, <1>5, <1>6
  <2> HIDE DEF g
  <2>3. g # <<>> /\ \A i \in 1..(Len(g) - 1) : g[i] # Nl
    BY <2>2 DEF Ends
  <2>4. /\ f \in Seq(Piece) /\ Len(f) = Len(g) - 1
        /\ \A i \in 1..(Len(g) - 1) : f[i] = g[i]
    BY <2>2, <2>3, FrontLast
  <2> HIDE DEF f
  <2>5. Bare(f)
    BY <2>3, <2>4 DEF Bare
  <2>6. ~Ends(f)
    <3>1. SUFFICES ASSUME Ends(f)
                   PROVE  FALSE
      OBVIOUS
    <3>2. f # <<>> /\ Last(f) = Nl
      BY <3>1 DEF Ends
    <3>3. Last(f) = f[Len(f)] /\ Len(f) \in Nat \ {0}
      BY <2>4, <3>2, FrontLast
    <3>4. Len(f) \in 1..Len(f)
      BY <3>3
    <3>5. QED
      BY <2>5, <3>2, <3>3, <3>4 DEF Bare
  <2>7. QED
    BY <2>2, <2>3, <2>4, <2>5, <2>6 DEF g, f
<1>8. \A k \in 1..Len(h) : q[k] = IF k \in d THEN Front(h[k]) ELSE h[k]
  BY <1>5, <1>7
<1>9. q \in Seq(Seq(Piece)) /\ Len(q) = Len(h)
  <2>1. \A k \in 1..Len(h) : h[k] \in Seq(Piece)
    BY <1>3
  <2>2. q \in [1..Len(h) -> Seq(Piece)]
    BY <1>5, <1>7, <2>1
  <2>3. Len(h) \in Nat
    BY <1>3
  <2>4. q \in Seq(Seq(Piece))
    BY <2>2, <2>3, IsSequence
  <2>5. DOMAIN q = 1..Len(h)
    BY <2>2
  <2> HIDE DEF q
  <2>6. QED
    BY <2>3, <2>4, <2>5, LenProperties
<1> HIDE DEF q
<1>10. Closed(q)
  <2>1. ASSUME NEW k \in 1..Len(h), q[k] # <<>>, \A i \in (k + 1)..Len(h) : q[i] = <<>>
        PROVE  Last(q[k]) = Nl
    <3>1. k \notin d
      <4>1. SUFFICES ASSUME k \in d
                     PROVE  FALSE
        OBVIOUS
      <4>2. e \in (k + 1)..Len(h) /\ e \in 1..(Len(h) - 1) /\ e \notin d
        <5>1. k \in b..(e - 1)
          BY <1>5, <4>1
        <5>2. Len(h) \in Nat \ {0} /\ e <= Len(h) - 1 /\ e \in Nat /\ b \in Nat
          BY <1>3, <1>4
        <5>3. e \in (k + 1)..Len(h) /\ e \in 1..(Len(h) - 1) /\ e \notin b..(e - 1)
          BY <5>1, <5>2
        <5>4. e \in 1..Len(h)
          BY <5>2, <5>3
        <5>5. QED
          BY <1>5, <5>3, <5>4
      <4>3. e \in 1..Len(h)
        BY <1>3, <4>2
      <4>4. q[e] = h[e] /\ h[e] # <<>>
        BY <1>3, <1>8, <4>2, <4>3 DEF Ends
      <4>5. QED
        BY <2>1, <4>2, <4>4
    <3>2. q[k] = h[k]
      BY <1>8, <3>1
    <3>3. k # Len(h)
      BY <1>3, <2>1, <3>2
    <3>4. k \in 1..(Len(h) - 1)
      <4>1. \A m \in Nat : \A i \in 1..m : i # m => i \in 1..(m - 1)
        OBVIOUS
      <4>2. QED
        BY <1>3, <2>1, <3>3, <4>1
    <3>5. QED
      BY <1>3, <3>2, <3>4 DEF Ends
  <2>2. QED
    BY <1>9, <2>1 DEF Closed
<1>11. \A k \in 1..Len(h) : IF k \in d THEN Bare(q[k]) /\ ~Ends(q[k]) ELSE q[k] = h[k]
  BY <1>7, <1>8
<1>12. \/ Copied(FlattenSeq(q), total, no)
       \/ Failed(FlattenSeq(q))
       \/ d = {} /\ Passes(FlattenSeq(q), total, no)
  BY <1>1, <1>2, Endings
<1>13. QED
  BY <1>6, <1>9, <1>10, <1>11, <1>12, PassCounts DEF total, h

\* and that of a request.
LEMMA CountRequestCounts ==
  ASSUME TypeOK, Terminated(Current), CountRequest, ~reader'.block
  PROVE  last' = Lines(Current')
<1> DEFINE c == Current
           block == reader.block \/ Newlines(c) = {}
<1>1. PICK unended \in 0..1 :
        /\ c # <<>> => (unended = 0 <=> Terminated(c))
        /\ last' = unended + IF block THEN BlockLines ELSE Cardinality(Newlines(c))
  BY DEF CountRequest
<1>2. reader'.block = block
  BY DEF CountRequest
<1>3. ~block
  BY <1>2
<1>4. Newlines(c) # {}
  BY <1>3
<1>5. c # <<>>
  <2>1. SUFFICES ASSUME c = <<>>
                 PROVE  FALSE
    OBVIOUS
  <2>2. c \in Seq(Piece) /\ Len(c) = 0
    BY <2>1, IsTyped
  <2>3. Newlines(c) \subseteq 1..0
    BY <2>2, NewlinesFinite
  <2>4. QED
    BY <1>4, <2>3
<1>6. unended = 0 /\ last' = unended + Cardinality(Newlines(c))
  BY <1>1, <1>3, <1>5
<1>7. Cardinality(Newlines(c)) \in Nat
  BY IsTyped, NewlinesFinite
<1>8. last' = Cardinality(Newlines(c))
  BY <1>6, <1>7
<1>9. Current' = c
  BY DEF CountRequest, files, Current
<1>10. Lines(c) = Cardinality(Newlines(c))
  BY <1>7 DEF Lines
<1>11. QED
  BY <1>8, <1>9, <1>10

\* The actions that do not count leave the number of lines as it is.
LEMMA OthersKeep ==
  ASSUME TypeOK,
         \/ Stream
         \/ \E w \in Word, way \in {"forward", "back"} : Find(w, way)
         \/ \E no \in 0..MaxLine : GotoLine(no)
         \/ \E b, e \in Typed : WriteRange(b, e) \/ YankRange(b, e)
         \/ Write
         \/ \E n \in Typed \cup {0}, after \in BOOLEAN, text \in Texts :
              Insert(n, after, text)
         \/ \E b, e \in Typed, s \in Subs : SubstitutePlain(b, e, s) \/ SubstituteRegex(b, e, s)
  PROVE  last' = last
<1>1. CASE \/ Stream
           \/ \E w \in Word, way \in {"forward", "back"} : Find(w, way)
           \/ \E no \in 0..MaxLine : GotoLine(no)
           \/ \E b, e \in Typed : WriteRange(b, e) \/ YankRange(b, e)
           \/ Write
  BY <1>1 DEF Stream, Find, GotoLine, WriteRange, YankRange, Write
<1>2. ASSUME NEW out, NEW acts, NEW breaks, NEW no, NEW text, NEW wrong,
             Ended(out, acts, breaks, last, no, text, wrong)
      PROVE  last' = last
  BY <1>2 DEF Ended
<1>3. ASSUME NEW n \in Typed \cup {0}, NEW after \in BOOLEAN, NEW text \in Texts,
             Insert(n, after, text)
      PROVE  last' = last
  <2> DEFINE h == Handled(Current)
             line == IF after THEN n + 1 ELSE n
             b == Clamped(line)
             e == Clamped(line + 1)
             i == In(h, b, e)
             q == [k \in DOMAIN h |-> IF k \in i THEN text \o h[k] ELSE h[k]]
             r == [k \in DOMAIN h |-> IF k = line THEN text \o h[k] ELSE h[k]]
             out == FlattenSeq(q)
             says == FlattenSeq(r)
             wrong == (i \ {line}) \cup ({line} \ i)
  <2>1. Ended(out, i, {}, last, line, says, wrong)
    BY <1>3 DEF Insert, Kept
  <2> HIDE DEF out, says, wrong, i, line
  <2>2. QED
    BY <1>2, <2>1
<1>4. ASSUME NEW b \in Typed, NEW e \in Typed, NEW s \in Subs, SubstitutePlain(b, e, s)
      PROVE  last' = last
  BY <1>2, <1>4 DEF SubstitutePlain
<1>5. ASSUME NEW b \in Typed, NEW e \in Typed, NEW s \in Subs, SubstituteRegex(b, e, s)
      PROVE  last' = last
  BY <1>2, <1>5 DEF SubstituteRegex
<1>6. QED
  BY <1>1, <1>3, <1>4, <1>5

\* What is demanded of a step by CountKept.
Counts ==
  last = Lines(Current) /\ last' # last /\ ~reader'.block /\ Whole(Current)
    /\ Terminated(Current) /\ temp = <<>> => last' = Lines(Current')

\* Every step does what CountKept demands.
LEMMA NextCounts ==
  ASSUME TypeOK, [Next]_vars
  PROVE  Counts
<1>1. SUFFICES ASSUME last = Lines(Current), last' # last, ~reader'.block, Whole(Current),
                      Terminated(Current), temp = <<>>
               PROVE  last' = Lines(Current')
  BY DEF Counts
<1>2. CASE CountRequest
  BY <1>1, <1>2, CountRequestCounts
<1>3. ASSUME NEW b \in Typed, NEW e \in Typed, Erase(b, e)
      PROVE  last' = Lines(Current')
  BY <1>1, <1>3, EraseCounts
<1>4. ASSUME NEW b \in Typed, NEW e \in Typed, Join(b, e)
      PROVE  last' = Lines(Current')
  BY <1>1, <1>4, JoinCounts
<1>5. CASE UNCHANGED vars
  BY <1>1, <1>5 DEF vars
<1>6. QED
  BY <1>1, <1>2, <1>3, <1>4, <1>5, OthersKeep DEF Next

\* The types are right.
THEOREM TypeCorrect ==
  Spec => []TypeOK
<1>1. IInv => TypeOK
  BY DEF IInv
<1>2. QED
  BY <1>1, InductiveInvariant, PTL

\* What is shown is what the commands say, as long as they are obeyed.
THEOREM ShowsEdited ==
  Spec => []ShownAsEdited
<1>1. IInv => ShownAsEdited
  BY DEF IInv
<1>2. QED
  BY <1>1, InductiveInvariant, PTL

\* A search ends, but for the known cases.
THEOREM SearchesEnd ==
  Spec => []SearchEnds
<1>1. IInv => SearchEnds
  BY DEF IInv
<1>2. QED
  BY <1>1, InductiveInvariant, PTL

\* The number of lines stays right when lines are erased or joined.
THEOREM CountStays ==
  Spec => CountKept
<1>1. IInv /\ [Next]_vars => [Counts]_vars
  BY NextCounts DEF IInv
<1>2. QED
  BY <1>1, InductiveInvariant, PTL DEF Spec, CountKept, Counts

===============================================================================
