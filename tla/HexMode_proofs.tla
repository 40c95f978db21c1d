----------------------------- MODULE HexMode_proofs -----------------------------
(***************************************************************************)
(* For every set of bytes and codes of them, every number of bytes on a    *)
(* line, every text and any number of edits: the types of HexMode, that    *)
(* the dump that is shown is the one of the buffer, unless one of the six  *)
(* causes of astray came in between, and that a target is replaced as a    *)
(* whole.                                                                  *)
(*                                                                         *)
(* First what a dump is: which cell of it is on which line, in which       *)
(* column, and which cells a byte has.  Then the operations that replace   *)
(* some of these cells, and the text that they leave; what undo may bring  *)
(* back; a lemma for each action; and what the loop over a target does.    *)
(***************************************************************************)
EXTENDS HexMode, SequenceTheorems, FiniteSetTheorems, WellFoundedInduction, TLAPS

-----------------------------------------------------------------------------
(* Numbers and sequences.                                                  *)

\* Induction over a set of numbers.
LEMMA Induction ==
  ASSUME NEW S, 0 \in S, \A k \in Nat : k \in S => k + 1 \in S
  PROVE  \A k \in Nat : k \in S
<1> DEFINE bads == {k \in Nat : k \notin S}
<1>1. \A k \in Nat : k \in S <=> k \notin bads
  OBVIOUS
<1>2. bads \subseteq Nat
  OBVIOUS
<1> HIDE DEF bads
<1>3. ASSUME bads # {}
      PROVE  FALSE
  <2>1. PICK k \in bads : \A i \in bads : ~ (<<i, k>> \in OpToRel(<, Nat))
    BY <1>2, <1>3, NatLessThanWellFounded, WFMin
  <2>2. \A i \in bads : ~ (i < k)
    BY <1>2, <2>1 DEF OpToRel
  <2>3. k \in Nat /\ k # 0
    BY <1>1, <1>2
  <2>4. k - 1 \in Nat /\ k - 1 < k /\ (k - 1) + 1 = k
    BY <2>3
  <2>5. k - 1 \in S
    BY <1>1, <2>2, <2>4
  <2>6. k \in S
    BY <2>4, <2>5
  <2>7. QED
    BY <1>1, <2>3, <2>6
<1>4. QED
  BY <1>1, <1>3

\* The function that puts texts together exists.
LEMMA Flattens ==
  ASSUME NEW q, NEW m \in Nat
  PROVE  \E f : f = [i \in 1..m |-> IF i = 1 THEN q[i] ELSE f[i - 1] \o q[i]]
<1> DEFINE Whole1(f, k) == f = [i \in 1..k |-> IF i = 1 THEN q[i] ELSE f[i - 1] \o q[i]]
           P == {k \in Nat : \E f : Whole1(f, k)}
<1>1. 0 \in P
  <2>1. Whole1([i \in 1..0 |-> q[1]], 0)
    OBVIOUS
  <2>2. QED
    BY <2>1
<1>2. ASSUME NEW k \in Nat, k \in P
      PROVE  k + 1 \in P
  <2>1. PICK f : Whole1(f, k)
    BY <1>2
  <2> DEFINE g == [i \in 1..(k + 1) |-> IF i <= k THEN f[i]
                                        ELSE IF i = 1 THEN q[i] ELSE f[i - 1] \o q[i]]
  <2>2. ASSUME NEW i \in 1..(k + 1)
        PROVE  g[i] = IF i = 1 THEN q[i] ELSE g[i - 1] \o q[i]
    <3>1. i # 1 => i - 1 \in 1..k /\ i - 1 \in 1..(k + 1)
      BY <2>2
    <3>2. CASE i <= k
      <4>1. i \in 1..k
        BY <3>2
      <4>2. f[i] = IF i = 1 THEN q[i] ELSE f[i - 1] \o q[i]
        BY <2>1, <4>1
      <4>3. QED
        BY <3>1, <4>1, <4>2
    <3>3. CASE ~ (i <= k)
      <4>1. g[i] = IF i = 1 THEN q[i] ELSE f[i - 1] \o q[i]
        BY <3>3
      <4>2. i # 1 => g[i - 1] = f[i - 1]
        BY <3>1
      <4>3. QED
        BY <4>1, <4>2
    <3>4. QED
      BY <3>2, <3>3
  <2>3. Whole1(g, k + 1)
    BY <2>2
  <2> HIDE DEF g, Whole1
  <2>4. QED
    BY <2>3
<1>3. m \in P
  <2> HIDE DEF P
  <2>1. QED
    BY <1>1, <1>2, Induction
<1>4. QED
  BY <1>3

\* Nothing put together is empty.
LEMMA FlattenEmpty ==
  FlattenSeq(<<>>) = <<>>
BY EmptySeq DEF FlattenSeq

\* What FlattenSeq is, without the choice in its definition.
LEMMA FlattenIs ==
  ASSUME NEW S, NEW q \in Seq(S), q # <<>>
  PROVE  \E f : /\ f = [i \in 1..Len(q) |-> IF i = 1 THEN q[i] ELSE f[i - 1] \o q[i]]
                /\ FlattenSeq(q) = f[Len(q)]
<1>1. Len(q) \in Nat /\ Len(q) # 0
  BY EmptySeq
<1> DEFINE f == CHOOSE f : f = [i \in 1..Len(q) |-> IF i = 1 THEN q[i] ELSE f[i - 1] \o q[i]]
<1>2. f = [i \in 1..Len(q) |-> IF i = 1 THEN q[i] ELSE f[i - 1] \o q[i]]
  BY <1>1, Flattens
<1>3. FlattenSeq(q) = f[Len(q)]
  BY <1>1 DEF FlattenSeq
<1>4. QED
  BY <1>2, <1>3

\* Putting one more text at the end.
LEMMA FlattenAppend ==
  ASSUME NEW S, NEW q \in Seq(Seq(S)), NEW a \in Seq(S)
  PROVE  FlattenSeq(Append(q, a)) = FlattenSeq(q) \o a
<1> DEFINE r == Append(q, a)
           n == Len(q)
<1>1. /\ r \in Seq(Seq(S)) /\ Len(r) = n + 1 /\ r # <<>> /\ n \in Nat
      /\ \A i \in 1..n : r[i] = q[i]
      /\ r[n + 1] = a
  BY AppendProperties
<1> HIDE DEF r
<1>2. PICK g : /\ g = [i \in 1..Len(r) |-> IF i = 1 THEN r[i] ELSE g[i - 1] \o r[i]]
               /\ FlattenSeq(r) = g[Len(r)]
  BY <1>1, FlattenIs
<1>3. \A i \in 1..(n + 1) : g[i] = IF i = 1 THEN r[i] ELSE g[i - 1] \o r[i]
  BY <1>1, <1>2
<1>4. CASE q = <<>>
  <2>1. n = 0
    BY <1>4
  <2>2. FlattenSeq(r) = a
    BY <1>1, <1>2, <1>3, <2>1
  <2>3. <<>> \o a = a
    BY ConcatEmptySeq
  <2>4. QED
    BY <1>4, <2>2, <2>3, FlattenEmpty DEF r
<1>5. CASE q # <<>>
  <2>0. n # 0
    BY <1>5, EmptySeq
  <2>1. PICK f : /\ f = [i \in 1..n |-> IF i = 1 THEN q[i] ELSE f[i - 1] \o q[i]]
                 /\ FlattenSeq(q) = f[n]
    BY <1>5, FlattenIs
  <2>2. \A i \in 1..n : f[i] = IF i = 1 THEN q[i] ELSE f[i - 1] \o q[i]
    BY <2>1
  <2> DEFINE P == {k \in Nat : k + 1 \in 1..n => f[k + 1] = g[k + 1]}
  <2>3. 0 \in P
    BY <1>1, <1>3, <2>0, <2>2
  <2>4. ASSUME NEW k \in Nat, k \in P
        PROVE  k + 1 \in P
    <3>1. SUFFICES ASSUME (k + 1) + 1 \in 1..n
                   PROVE  f[(k + 1) + 1] = g[(k + 1) + 1]
      OBVIOUS
    <3>2. k + 1 \in 1..n /\ (k + 1) + 1 \in 1..(n + 1) /\ (k + 1) + 1 # 1
          /\ ((k + 1) + 1) - 1 = k + 1
      BY <1>1, <3>1
    <3>3. f[k + 1] = g[k + 1]
      BY <2>4, <3>2
    <3>4. f[(k + 1) + 1] = f[k + 1] \o q[(k + 1) + 1]
      BY <2>2, <3>1, <3>2
    <3>5. g[(k + 1) + 1] = g[k + 1] \o r[(k + 1) + 1]
      BY <1>3, <3>2
    <3>6. QED
      BY <1>1, <3>1, <3>3, <3>4, <3>5
  <2>5. n - 1 \in P
    <3> HIDE DEF P
    <3>1. n - 1 \in Nat
      BY <1>1, <2>0
    <3>2. QED
      BY <2>3, <2>4, <3>1, Induction
  <2>6. f[n] = g[n]
    BY <1>1, <2>0, <2>5
  <2>7. g[n + 1] = g[n] \o r[n + 1]
    <3>1. n + 1 \in 1..(n + 1) /\ n + 1 # 1 /\ (n + 1) - 1 = n
      BY <1>1, <2>0
    <3>2. QED
      BY <1>3, <3>1
  <2>8. QED
    BY <1>1, <1>2, <2>1, <2>6, <2>7 DEF r
<1>6. QED
  BY <1>4, <1>5

\* What comes first in a sequence.
LEMMA Firsts ==
  ASSUME NEW S, NEW q \in Seq(S), NEW k \in 0..Len(q)
  PROVE  /\ SubSeq(q, 1, k) \in Seq(S) /\ Len(SubSeq(q, 1, k)) = k
         /\ \A i \in 1..k : SubSeq(q, 1, k)[i] = q[i]
OBVIOUS

\* A sequence with something in it, from its front and its last element.
LEMMA FrontLast ==
  ASSUME NEW S, NEW q \in Seq(S), q # <<>>
  PROVE  /\ Front(q) \in Seq(S) /\ Last(q) \in S
         /\ Len(q) \in Nat \ {0} /\ Len(Front(q)) = Len(q) - 1
         /\ \A i \in 1..(Len(q) - 1) : Front(q)[i] = q[i]
         /\ Last(q) = q[Len(q)]
         /\ q = Append(Front(q), Last(q))
<1>1. Len(q) \in Nat \ {0} /\ \A i \in 1..Len(q) : q[i] \in S
  BY EmptySeq
<1>2. /\ Front(q) \in Seq(S) /\ Len(Front(q)) = Len(q) - 1
      /\ \A i \in 1..(Len(q) - 1) : Front(q)[i] = q[i]
  <2>1. Len(q) - 1 \in 0..Len(q)
    BY <1>1
  <2>2. QED
    BY <2>1, Firsts DEF Front
<1>3. Last(q) \in S /\ Last(q) = q[Len(q)]
  BY <1>1 DEF Last
<1>4. q = Append(Front(q), Last(q))
  <2> DEFINE r == Append(Front(q), Last(q))
  <2>1. /\ r \in Seq(S) /\ Len(r) = Len(q)
        /\ \A i \in 1..Len(Front(q)) : r[i] = Front(q)[i]
        /\ r[Len(Front(q)) + 1] = Last(q)
    BY <1>1, <1>2, <1>3, AppendProperties
  <2> HIDE DEF r
  <2>2. ASSUME NEW i \in 1..Len(q)
        PROVE  r[i] = q[i]
    <3>1. CASE i = Len(q)
      BY <1>1, <1>2, <1>3, <2>1, <3>1
    <3>2. CASE i # Len(q)
      <4>1. i \in 1..(Len(q) - 1)
        BY <1>1, <3>2
      <4>2. QED
        BY <1>2, <2>1, <4>1
    <3>3. QED
      BY <3>1, <3>2
  <2>3. r = q
    BY <2>1, <2>2, SeqEqual
  <2>4. QED
    BY <2>3 DEF r
<1>5. QED
  BY <1>1, <1>2, <1>3, <1>4

\* Texts put together are a text.
LEMMA FlattenType ==
  ASSUME NEW S
  PROVE  \A q \in Seq(Seq(S)) : FlattenSeq(q) \in Seq(S)
<1> DEFINE P == {n \in Nat : \A q \in Seq(Seq(S)) : Len(q) = n => FlattenSeq(q) \in Seq(S)}
<1>1. 0 \in P
  <2>1. ASSUME NEW q \in Seq(Seq(S)), Len(q) = 0
        PROVE  FlattenSeq(q) \in Seq(S)
    <3>1. q = <<>>
      BY <2>1, EmptySeq
    <3>2. <<>> \in Seq(S)
      OBVIOUS
    <3>3. QED
      BY <3>1, <3>2, FlattenEmpty
  <2>2. QED
    BY <2>1
<1>2. ASSUME NEW n \in Nat, n \in P
      PROVE  n + 1 \in P
  <2>1. ASSUME NEW q \in Seq(Seq(S)), Len(q) = n + 1
        PROVE  FlattenSeq(q) \in Seq(S)
    <3>1. q # <<>>
      BY <2>1, EmptySeq
    <3>2. /\ Front(q) \in Seq(Seq(S)) /\ Last(q) \in Seq(S)
          /\ Len(Front(q)) = Len(q) - 1 /\ q = Append(Front(q), Last(q))
      BY <3>1, FrontLast
    <3>3. Len(Front(q)) = n
      BY <2>1, <3>2
    <3>4. FlattenSeq(Front(q)) \in Seq(S)
      BY <1>2, <3>2, <3>3
    <3>5. FlattenSeq(q) = FlattenSeq(Front(q)) \o Last(q)
      BY <3>2, FlattenAppend
    <3>6. QED
      BY <3>2, <3>4, <3>5, ConcatProperties
  <2>2. QED
    BY <2>1
<1>3. \A n \in Nat : n \in P
  <2> HIDE DEF P
  <2>1. QED
    BY <1>1, <1>2, Induction
<1>4. QED
  BY <1>3

\* The least of a set of numbers.
LEMMA Least ==
  ASSUME NEW S, S \subseteq Nat, S # {}
  PROVE  Min(S) \in S /\ \A i \in S : Min(S) <= i
<1> DEFINE P == {k \in Nat : \A i \in S : k <= i}
<1>1. \E k \in S : k \in P
  <2>1. SUFFICES ASSUME \A k \in S : k \notin P
                 PROVE  FALSE
    OBVIOUS
  <2>2. 0 \in P
    OBVIOUS
  <2>3. ASSUME NEW k \in Nat, k \in P
        PROVE  k + 1 \in P
    <3>1. k \notin S
      BY <2>1, <2>3
    <3>2. QED
      BY <2>3, <3>1
  <2>4. PICK k \in S : TRUE
    OBVIOUS
  <2>5. k + 1 \in Nat /\ k + 1 \in P
    <3> HIDE DEF P
    <3>1. QED
      BY <2>2, <2>3, <2>4, Induction
  <2>6. QED
    BY <2>4, <2>5
<1>2. QED
  BY <1>1 DEF Min

\* Sums that the places of cells are compared with.
LEMMA InRow ==
  ASSUME NEW p \in Nat, NEW q \in Nat, NEW w \in Nat, NEW c \in 1..w, p + w <= q
  PROVE  p + c \in 1..q
OBVIOUS

\* The same place, counted from one less.
LEMMA OneLess ==
  ASSUME NEW p \in Nat, NEW q \in Nat, NEW i \in Nat, NEW j \in Nat, p + i + 1 = q + j + 1
  PROVE  p + i = q + j
OBVIOUS

\* A place behind the fields is within the line.
LEMMA FitsRow ==
  ASSUME NEW a \in Nat, NEW n \in Nat, NEW h \in 1..n, NEW m, m = a + h + 1 \/ m = a + h
  PROVE  m <= a + n + 1 /\ m \in Nat
OBVIOUS

\* The blank behind the digits of a byte is neither a digit nor its sign.
LEMMA BlankOffset ==
  ASSUME NEW T \in Nat, NEW a \in Nat, NEW j \in Nat, NEW n \in Nat,
         T + (a + j + 1) <= n, 3 * j + 3 <= a
  PROVE  /\ T + (3 * j + 3) \in 1..n /\ T + (3 * j + 3) # T + (3 * j + 1)
         /\ T + (3 * j + 3) # T + (3 * j + 2) /\ T + (3 * j + 3) # T + (a + j + 1)
OBVIOUS

\* So many rows of this width.
Row(w, k) == w * k

\* One row more.
LEMMA RowIs ==
  ASSUME NEW w \in Nat, NEW k \in Nat
  PROVE  /\ Row(w, 0) = 0 /\ Row(w, k) \in Nat
         /\ Row(w, k + 1) = Row(w, k) + w
BY DEF Row

\* A row ends before a later one begins.
LEMMA RowLess ==
  ASSUME NEW w \in Nat, NEW k \in Nat, NEW l \in Nat, k < l
  PROVE  Row(w, k) + w <= Row(w, l)
<1>1. PICK m \in Nat : l = k + 1 + m
  <2>1. l - (k + 1) \in Nat /\ l = k + 1 + (l - (k + 1))
    OBVIOUS
  <2>2. QED
    BY <2>1
<1>2. w * (k + 1 + m) = w * k + w + w * m
  OBVIOUS
<1>3. w * m \in Nat
  OBVIOUS
<1>4. QED
  BY <1>1, <1>2, <1>3 DEF Row

\* A number is in one row, at one place.
LEMMA RowSame ==
  ASSUME NEW w \in Nat, NEW k \in Nat, NEW l \in Nat,
         NEW c \in 0..(w - 1), NEW e \in 0..(w - 1), Row(w, k) + c = Row(w, l) + e
  PROVE  k = l /\ c = e
<1>1. Row(w, k) \in Nat /\ Row(w, l) \in Nat
  BY RowIs
<1>2. ~ (k < l)
  BY <1>1, RowLess
<1>3. ~ (l < k)
  BY <1>1, RowLess
<1>4. k = l
  BY <1>2, <1>3
<1>5. QED
  BY <1>1, <1>4

\* And that is found by division.
LEMMA RowDiv ==
  ASSUME NEW w \in Nat \ {0}, NEW n \in Nat
  PROVE  /\ (n \div w) \in Nat /\ (n % w) \in 0..(w - 1)
         /\ n = Row(w, n \div w) + (n % w)
<1>1. (n % w) \in 0..(w - 1)
  OBVIOUS
<1>2. (n \div w) \in Nat
  OBVIOUS
<1>3. n = w * (n \div w) + (n % w)
  OBVIOUS
<1>4. QED
  BY <1>1, <1>2, <1>3 DEF Row

\* Texts of the same length, put together.
Rows(q, w, d) ==
  /\ Len(d) = Row(w, Len(q))
  /\ \A l \in 0..(Len(q) - 1) : \A c \in 1..w : d[Row(w, l) + c] = q[l + 1][c]

\* What is in a concatenation.
LEMMA ConcatIs ==
  ASSUME NEW S, NEW a \in Seq(S), NEW b \in Seq(S)
  PROVE  /\ a \o b \in Seq(S) /\ Len(a \o b) = Len(a) + Len(b)
         /\ Len(a) \in Nat /\ Len(b) \in Nat
         /\ \A i \in 1..Len(a) : (a \o b)[i] = a[i]
         /\ \A i \in 1..Len(b) : (a \o b)[Len(a) + i] = b[i]
<1>1. Len(a) \in Nat /\ Len(b) \in Nat
  OBVIOUS
<1>2. /\ a \o b \in Seq(S) /\ Len(a \o b) = Len(a) + Len(b)
      /\ \A i \in 1..(Len(a) + Len(b)) :
           (a \o b)[i] = IF i <= Len(a) THEN a[i] ELSE b[i - Len(a)]
  BY ConcatProperties
<1>3. ASSUME NEW i \in 1..Len(b)
      PROVE  (a \o b)[Len(a) + i] = b[i]
  <2>1. Len(a) + i \in 1..(Len(a) + Len(b)) /\ ~ (Len(a) + i <= Len(a))
        /\ (Len(a) + i) - Len(a) = i
    BY <1>1, <1>3
  <2>2. QED
    BY <1>2, <2>1
<1>4. QED
  BY <1>1, <1>2, <1>3

\* Lines of the same size, put together, start at products of it.
LEMMA RowsIs ==
  ASSUME NEW S, NEW w \in Nat
  PROVE  \A q \in Seq(Seq(S)) : (\A k \in 1..Len(q) : Len(q[k]) = w)
                                  => Rows(q, w, FlattenSeq(q))
<1> DEFINE Even(q) == \A k \in 1..Len(q) : Len(q[k]) = w
           P == {n \in Nat : \A q \in Seq(Seq(S)) :
                   Len(q) = n /\ Even(q) => Rows(q, w, FlattenSeq(q))}
<1>1. 0 \in P
  <2>1. ASSUME NEW q \in Seq(Seq(S)), Len(q) = 0
        PROVE  Rows(q, w, FlattenSeq(q))
    <3>1. q = <<>>
      BY <2>1, EmptySeq
    <3>2. Len(FlattenSeq(q)) = 0
      BY <3>1, FlattenEmpty, EmptySeq
    <3>3. Row(w, 0) = 0
      BY RowIs
    <3>4. QED
      BY <2>1, <3>2, <3>3 DEF Rows
  <2>2. QED
    BY <2>1
<1>2. ASSUME NEW n \in Nat, n \in P
      PROVE  n + 1 \in P
  <2>1. ASSUME NEW q \in Seq(Seq(S)), Len(q) = n + 1, Even(q)
        PROVE  Rows(q, w, FlattenSeq(q))
    <3>1. q # <<>>
      BY <2>1, EmptySeq
    <3>0. /\ Front(q) \in Seq(Seq(S)) /\ Last(q) \in Seq(S)
          /\ Len(Front(q)) = Len(q) - 1
          /\ \A i \in 1..(Len(q) - 1) : Front(q)[i] = q[i]
          /\ Last(q) = q[Len(q)] /\ q = Append(Front(q), Last(q))
      BY <3>1, FrontLast
    <3> DEFINE r == Front(q)
               x == Last(q)
               d == FlattenSeq(r)
    <3> HIDE DEF d
    <3>2. /\ r \in Seq(Seq(S)) /\ x \in Seq(S) /\ Len(r) = n
          /\ \A i \in 1..n : r[i] = q[i]
          /\ x = q[n + 1] /\ q = Append(r, x)
      BY <2>1, <3>0
    <3> HIDE DEF r, x
    <3>3. d \in Seq(S)
      BY <3>2, FlattenType DEF d
    <3>4. Even(r) /\ Len(x) = w
      BY <2>1, <3>2
    <3>5. Rows(r, w, d)
      BY <1>2, <3>2, <3>4 DEF d
    <3>6. FlattenSeq(q) = d \o x
      BY <3>2, FlattenAppend DEF d
    <3>7. /\ Len(d \o x) = Len(d) + Len(x)
          /\ \A i \in 1..Len(d) : (d \o x)[i] = d[i]
          /\ \A i \in 1..Len(x) : (d \o x)[Len(d) + i] = x[i]
      BY <3>2, <3>3, ConcatIs
    <3>8. Len(d) = Row(w, n) /\ Row(w, n + 1) = Row(w, n) + w /\ Row(w, n) \in Nat
      BY <3>2, <3>5, RowIs DEF Rows
    <3>9. Len(d \o x) = Row(w, Len(q))
      BY <2>1, <3>4, <3>7, <3>8
    <3>10. ASSUME NEW l \in 0..(Len(q) - 1), NEW c \in 1..w
           PROVE  (d \o x)[Row(w, l) + c] = q[l + 1][c]
      <4>1. CASE l = n
        BY <3>2, <3>4, <3>7, <3>8, <4>1
      <4>2. CASE l # n
        <5>1. l \in 0..(n - 1) /\ l \in Nat /\ l < n /\ l + 1 \in 1..n
          BY <2>1, <4>2
        <5>2. d[Row(w, l) + c] = r[l + 1][c]
          BY <3>2, <3>5, <5>1 DEF Rows
        <5>3. Row(w, l) + w <= Row(w, n) /\ Row(w, l) \in Nat
          BY <5>1, RowLess, RowIs
        <5>4. Row(w, l) + c \in 1..Len(d)
          <6>1. Row(w, l) \in Nat /\ Row(w, n) \in Nat /\ Row(w, l) + w <= Row(w, n)
            BY <3>8, <5>3
          <6>2. Row(w, l) + c \in 1..Row(w, n)
            BY <6>1, InRow
          <6>3. QED
            BY <3>8, <6>2
        <5>5. (d \o x)[Row(w, l) + c] = d[Row(w, l) + c]
          BY <3>7, <5>4
        <5>6. r[l + 1] = q[l + 1]
          BY <3>2, <5>1
        <5>7. QED
          BY <5>2, <5>5, <5>6
      <4>3. QED
        BY <4>1, <4>2
    <3>11. QED
      BY <3>6, <3>9, <3>10 DEF Rows
  <2>2. QED
    BY <2>1
<1>3. \A n \in Nat : n \in P
  <2> HIDE DEF P
  <2>1. QED
    BY <1>1, <1>2, Induction
<1>4. QED
  BY <1>3, LenProperties

-----------------------------------------------------------------------------
(* A line of the dump.                                                     *)

\* What a text in the component is made of.
Cells == Byte \cup Digit \cup {" ", ".", Nl}

\* What is assumed of the constants, one by one.
LEMMA LineAssumed == PerLine \in Nat \ {0}
BY HexAssumption, Zenon

\* A byte is none of the other cells.
LEMMA ByteAssumed == Byte \cap (Digit \cup {" ", ".", Nl}) = {}
BY HexAssumption, Zenon

\* A digit is not a blank, a dot or a newline.
LEMMA DigitAssumed == Digit \cap {" ", ".", Nl} = {} /\ Nl \notin {" ", "."}
BY HexAssumption, Zenon

\* A byte has two digits.
LEMMA CodeAssumed == Code \in [Byte -> Digit \X Digit]
BY HexAssumption, Zenon

\* The digits tell which byte it is.
LEMMA CodesAssumed == \A b1, b2 \in Byte : Code[b1] = Code[b2] => b1 = b2
BY HexAssumption, Zenon

\* The texts are of bytes, and the bounds are numbers.
LEMMA BoundsAssumed ==
  Texts \cup Inserts \subseteq Seq(Byte) /\ MaxBytes \in Nat /\ MaxEdits \in Nat
BY HexAssumption, Zenon

\* The sizes of the fields are numbers.
LEMMA Sizes ==
  /\ PerLine \in Nat /\ PerLine >= 1 /\ EachField = 3
  /\ Ascii = 3 * PerLine /\ Width = 4 * PerLine /\ Ascii \in Nat /\ Width \in Nat
BY LineAssumed DEF EachField, Ascii, Width

\* No cell of a byte is a blank or a newline by chance.
LEMMA Apart ==
  /\ Nl \notin Byte /\ Nl \notin Digit /\ Nl # " " /\ Nl # "."
  /\ " " \notin Byte /\ " " \notin Digit /\ "." \notin Byte /\ "." \notin Digit
  /\ Byte \cap Digit = {}
<1>1. Nl \notin Byte /\ " " \notin Byte /\ "." \notin Byte /\ Byte \cap Digit = {}
  BY ByteAssumed
<1>2. Nl \notin Digit /\ " " \notin Digit /\ "." \notin Digit /\ Nl # " " /\ Nl # "."
  BY DigitAssumed
<1>3. QED
  BY <1>1, <1>2

\* The two digits of a byte.
LEMMA CodeIs ==
  ASSUME NEW b \in Byte
  PROVE  /\ Code[b][1] \in Digit /\ Code[b][2] \in Digit
         /\ Code[b] \in Seq(Digit) /\ Len(Code[b]) = 2
<1>1. Code[b] \in Digit \X Digit
  BY CodeAssumed
<1>2. PICK x \in Digit, y \in Digit : Code[b] = <<x, y>>
  BY <1>1
<1>3. <<x, y>> \in Seq(Digit) /\ Len(<<x, y>>) = 2 /\ <<x, y>>[1] = x /\ <<x, y>>[2] = y
  OBVIOUS
<1>4. QED
  BY <1>2, <1>3

\* One cell behind others.
LEMMA OneMore ==
  ASSUME NEW S, NEW a \in Seq(S), NEW z \in Seq(S), Len(z) = 1
  PROVE  (a \o z)[Len(a) + 1] = z[1]
OBVIOUS

\* The cells of a byte.
LEMMA FieldIs ==
  ASSUME NEW b \in Byte
  PROVE  /\ Field(b) \in Seq(Cells) /\ Len(Field(b)) = 3
         /\ Field(b)[1] = Code[b][1] /\ Field(b)[2] = Code[b][2] /\ Field(b)[3] = " "
<1>1. Code[b] \in Seq(Cells) /\ Len(Code[b]) = 2
  <2>1. \A i \in 1..2 : Code[b][i] \in Cells
    <3>1. Code[b][1] \in Cells /\ Code[b][2] \in Cells
      BY CodeIs DEF Cells
    <3>2. \A i \in 1..2 : i = 1 \/ i = 2
      OBVIOUS
    <3>3. QED
      BY <3>1, <3>2
  <2>2. Code[b] \in Seq(Digit) /\ Len(Code[b]) = 2
    BY CodeIs
  <2>3. Digit \subseteq Cells
    BY DEF Cells
  <2>4. QED
    BY <2>2, <2>3
<1>2. <<" ">> \in Seq(Cells) /\ Len(<<" ">>) = 1 /\ <<" ">>[1] = " "
  BY DEF Cells
<1> DEFINE a == Code[b]
           z == <<" ">>
<1> HIDE DEF a, z
<1>3. /\ a \o z \in Seq(Cells) /\ Len(a \o z) = 2 + 1
      /\ \A i \in 1..2 : (a \o z)[i] = a[i]
      /\ (a \o z)[2 + 1] = z[1]
  <2>1. a \in Seq(Cells) /\ z \in Seq(Cells) /\ Len(a) = 2 /\ Len(z) = 1
    BY <1>1, <1>2 DEF a, z
  <2>2. (a \o z)[Len(a) + 1] = z[1]
    BY <2>1, OneMore
  <2>3. /\ a \o z \in Seq(Cells) /\ Len(a \o z) = Len(a) + Len(z)
        /\ \A i \in 1..Len(a) : (a \o z)[i] = a[i]
    <3>1. a \in Seq(Cells) /\ z \in Seq(Cells)
      BY <2>1
    <3>2. QED
      BY <3>1, ConcatIs
  <2>4. Len(a \o z) = 2 + 1
    BY <2>1, <2>3
  <2>5. (a \o z)[2 + 1] = z[1]
    BY <2>1, <2>2
  <2>6. QED
    BY <2>1, <2>3, <2>4, <2>5
<1>4. Field(b) = a \o z
  BY DEF Field, a, z
<1>5. a[1] = Code[b][1] /\ a[2] = Code[b][2] /\ z[1] = " "
  BY <1>2 DEF a, z
<1>6. 1 \in 1..2 /\ 2 \in 1..2 /\ 2 + 1 = 3
  OBVIOUS
<1>7. (a \o z)[1] = a[1] /\ (a \o z)[2] = a[2] /\ (a \o z)[3] = z[1]
  BY <1>3, <1>6
<1>8. QED
  BY <1>3, <1>4, <1>5, <1>6, <1>7

\* What is shown of a byte.
LEMMA ShownIs ==
  ASSUME NEW b \in Byte
  PROVE  Shown(b) \in Cells /\ Shown(b) # Nl /\ Shown(b) \in Byte \cup {"."}
BY Apart DEF Shown, Cells

\* A line with n bytes of t from o on.
IsLine(x, t, o, n) ==
  /\ x \in Seq(Cells)
  /\ Len(x) = Ascii + n + (IF Len(t) - o > PerLine THEN 1 ELSE 0)
  /\ \A j \in 0..(n - 1) :
       /\ x[3 * j + 1] = Code[t[o + j + 1]][1]
       /\ x[3 * j + 2] = Code[t[o + j + 1]][2]
       /\ x[3 * j + 3] = " "
       /\ x[Ascii + j + 1] = Shown(t[o + j + 1])
  /\ \A k \in (3 * n + 1)..Ascii : x[k] = " "
  /\ Len(t) - o > PerLine => x[Ascii + n + 1] = Nl

\* The bytes of the line at o.
Here(t, o) == IF Len(t) - o < PerLine THEN Len(t) - o ELSE PerLine

\* The number of bytes on a line, as the dump takes it.
LEMMA HereIs ==
  ASSUME NEW t \in Seq(Byte), NEW o \in Nat, o < Len(t)
  PROVE  /\ Min({PerLine, Len(t) - o}) = Here(t, o)
         /\ Here(t, o) \in 1..PerLine /\ o + Here(t, o) <= Len(t)
<1>1. Len(t) \in Nat /\ PerLine \in Nat /\ PerLine >= 1
  BY Sizes
<1> DEFINE z == Len(t) - o
           S == {PerLine, z}
<1>2. z \in Nat /\ z >= 1 /\ o + z = Len(t)
  BY <1>1
<1>3. S \subseteq Nat /\ S # {} /\ PerLine \in S /\ z \in S
  BY <1>1, <1>2
<1>4. \A i \in S : i = PerLine \/ i = z
  OBVIOUS
<1> HIDE DEF S
<1>5. Min(S) \in S /\ \A i \in S : Min(S) <= i
  BY <1>3, Least
<1>6. Here(t, o) = IF z < PerLine THEN z ELSE PerLine
  BY DEF Here
<1> HIDE DEF z
<1>7. Min(S) = Here(t, o)
  <2>1. Min(S) <= PerLine /\ Min(S) <= z
    BY <1>3, <1>5
  <2>2. Min(S) = PerLine \/ Min(S) = z
    BY <1>4, <1>5
  <2>3. QED
    BY <1>1, <1>2, <1>6, <2>1, <2>2
<1>8. QED
  BY <1>1, <1>2, <1>6, <1>7 DEF S, z

\* Four texts put together.
Four(x, S, a, b, c, d) ==
  /\ x \in Seq(S) /\ Len(x) = Len(a) + Len(b) + Len(c) + Len(d)
  /\ \A i \in 1..Len(a) : x[i] = a[i]
  /\ \A i \in 1..Len(b) : x[Len(a) + i] = b[i]
  /\ \A i \in 1..Len(c) : x[Len(a) + Len(b) + i] = c[i]
  /\ \A i \in 1..Len(d) : x[Len(a) + Len(b) + Len(c) + i] = d[i]

\* Four sequences put together.
LEMMA FourIs ==
  ASSUME NEW S, NEW a \in Seq(S), NEW b \in Seq(S), NEW c \in Seq(S), NEW d \in Seq(S)
  PROVE  Four(a \o b \o c \o d, S, a, b, c, d)
<1> DEFINE x == a \o b
           y == x \o c
           z == y \o d
<1>1. Len(a) \in Nat /\ Len(b) \in Nat /\ Len(c) \in Nat /\ Len(d) \in Nat
  OBVIOUS
<1>2. /\ x \in Seq(S) /\ Len(x) = Len(a) + Len(b)
      /\ \A i \in 1..Len(a) : x[i] = a[i]
      /\ \A i \in 1..Len(b) : x[Len(a) + i] = b[i]
  BY ConcatIs
<1>3. x \in Seq(S)
  BY <1>2
<1> HIDE DEF x
<1>4. /\ y \in Seq(S) /\ Len(y) = Len(x) + Len(c)
      /\ \A i \in 1..Len(x) : y[i] = x[i]
      /\ \A i \in 1..Len(c) : y[Len(x) + i] = c[i]
  BY <1>3, ConcatIs
<1>5. y \in Seq(S)
  BY <1>4
<1> HIDE DEF y
<1>6. /\ z \in Seq(S) /\ Len(z) = Len(y) + Len(d)
      /\ \A i \in 1..Len(y) : z[i] = y[i]
      /\ \A i \in 1..Len(d) : z[Len(y) + i] = d[i]
  BY <1>5, ConcatIs
<1> HIDE DEF z
<1>7. Len(y) = Len(a) + Len(b) + Len(c)
  BY <1>2, <1>4
<1>8. Len(z) = Len(a) + Len(b) + Len(c) + Len(d)
  BY <1>6, <1>7
<1>9. \A i \in 1..Len(x) : z[i] = x[i]
  <2>1. ASSUME NEW i \in 1..Len(x)
        PROVE  z[i] = x[i]
    <3>1. i \in 1..Len(y)
      BY <1>1, <1>2, <1>7
    <3>2. QED
      BY <1>4, <1>6, <3>1
  <2>2. QED
    BY <2>1
<1>10. \A i \in 1..Len(a) : z[i] = a[i]
  <2>1. ASSUME NEW i \in 1..Len(a)
        PROVE  z[i] = a[i]
    <3>1. i \in 1..Len(x)
      BY <1>1, <1>2
    <3>2. QED
      BY <1>2, <1>9, <3>1
  <2>2. QED
    BY <2>1
<1>11. \A i \in 1..Len(b) : z[Len(a) + i] = b[i]
  <2>1. ASSUME NEW i \in 1..Len(b)
        PROVE  z[Len(a) + i] = b[i]
    <3>1. Len(a) + i \in 1..Len(x)
      BY <1>1, <1>2
    <3>2. QED
      BY <1>2, <1>9, <3>1
  <2>2. QED
    BY <2>1
<1>12. \A i \in 1..Len(c) : z[Len(a) + Len(b) + i] = c[i]
  <2>1. ASSUME NEW i \in 1..Len(c)
        PROVE  z[Len(x) + i] = c[i]
    <3>1. Len(x) + i \in 1..Len(y)
      BY <1>1, <1>2, <1>4
    <3>2. QED
      BY <1>4, <1>6, <3>1
  <2>2. QED
    BY <1>2, <2>1
<1>13. \A i \in 1..Len(d) : z[Len(a) + Len(b) + Len(c) + i] = d[i]
  BY <1>6, <1>7
<1>14. z = a \o b \o c \o d
  BY DEF x, y, z
<1>15. Four(z, S, a, b, c, d)
  BY <1>6, <1>8, <1>10, <1>11, <1>12, <1>13, Zenon DEF Four
<1>16. QED
  BY <1>14, <1>15, Zenon

\* The parts of a line.
Fields(t, o, n) == FlattenSeq([k \in 1..n |-> Field(t[o + k])])
Blanks(n) == [k \in 1..(EachField * (PerLine - n)) |-> " "]
Signs(t, o, n) == [k \in 1..n |-> Shown(t[o + k])]
Ends(t, o) == IF Len(t) - o > PerLine THEN <<Nl>> ELSE <<>>

\* The hex field has three cells for each byte.
LEMMA FieldsIs ==
  ASSUME NEW t \in Seq(Byte), NEW o \in Nat, NEW n \in Nat, o + n <= Len(t)
  PROVE  /\ Fields(t, o, n) \in Seq(Cells) /\ Len(Fields(t, o, n)) = 3 * n
         /\ \A j \in 0..(n - 1) : \A c \in 1..3 :
              Fields(t, o, n)[3 * j + c] = Field(t[o + j + 1])[c]
<1> DEFINE q == [k \in 1..n |-> Field(t[o + k])]
<1>1. \A k \in 1..n : t[o + k] \in Byte
  <2>1. \A k \in 1..n : o + k \in 1..Len(t)
    OBVIOUS
  <2>2. QED
    BY <2>1, ElementOfSeq
<1>2. \A k \in 1..n : Field(t[o + k]) \in Seq(Cells) /\ Len(Field(t[o + k])) = 3
  BY <1>1, FieldIs
<1>3. q \in Seq(Seq(Cells)) /\ Len(q) = n /\ \A k \in 1..n : q[k] = Field(t[o + k])
  BY <1>2
<1> HIDE DEF q
<1>4. \A k \in 1..Len(q) : Len(q[k]) = 3
  BY <1>2, <1>3
<1>5. Rows(q, 3, FlattenSeq(q)) /\ FlattenSeq(q) \in Seq(Cells)
  <2> DEFINE w == 3
  <2>1. w \in Nat /\ \A k \in 1..Len(q) : Len(q[k]) = w
    BY <1>4
  <2> HIDE DEF w
  <2>2. Rows(q, w, FlattenSeq(q))
    BY <1>3, <2>1, RowsIs
  <2>3. FlattenSeq(q) \in Seq(Cells)
    BY <1>3, FlattenType
  <2>4. QED
    BY <2>2, <2>3 DEF w
<1>6. FlattenSeq(q) = Fields(t, o, n)
  BY DEF Fields, q
<1>7. Len(Fields(t, o, n)) = 3 * n
  BY <1>3, <1>5, <1>6 DEF Rows, Row
<1>8. ASSUME NEW j \in 0..(n - 1), NEW c \in 1..3
      PROVE  Fields(t, o, n)[3 * j + c] = Field(t[o + j + 1])[c]
  <2>1. Fields(t, o, n)[Row(3, j) + c] = q[j + 1][c]
    BY <1>3, <1>5, <1>6 DEF Rows
  <2>2. q[j + 1] = Field(t[o + (j + 1)]) /\ o + (j + 1) = o + j + 1
    BY <1>3
  <2>3. QED
    BY <2>1, <2>2 DEF Row
<1>9. QED
  BY <1>5, <1>6, <1>7, <1>8

\* A line is made of its parts.
LEMMA DumpLineIs ==
  ASSUME NEW t \in Seq(Byte), NEW o \in Nat, o < Len(t)
  PROVE  DumpLine(t, o) = Fields(t, o, Here(t, o)) \o Blanks(Here(t, o))
                          \o Signs(t, o, Here(t, o)) \o Ends(t, o)
<1>1. Min({PerLine, Len(t) - o}) = Here(t, o)
  BY HereIs
<1>2. QED
  BY <1>1, Zenon DEF DumpLine, Fields, Blanks, Signs, Ends

\* A sequence of one element.
LEMMA Filled ==
  ASSUME NEW S, NEW e \in S, NEW m \in Nat, NEW b, b = [k \in 1..m |-> e]
  PROVE  b \in Seq(S) /\ Len(b) = m /\ \A k \in 1..m : b[k] = e
OBVIOUS

\* What is in the columns of a line.
LEMMA LineIs ==
  ASSUME NEW t \in Seq(Byte), NEW o \in Nat, o < Len(t)
  PROVE  IsLine(DumpLine(t, o), t, o, Here(t, o))
<1> DEFINE n == Here(t, o)
           a == Fields(t, o, n)
           b == Blanks(n)
           c == Signs(t, o, n)
           d == Ends(t, o)
           x == DumpLine(t, o)
<1>1. n \in 1..PerLine /\ n \in Nat /\ o + n <= Len(t) /\ Len(t) \in Nat
  <2>1. n \in 1..PerLine /\ o + n <= Len(t)
    BY HereIs
  <2>2. PerLine \in Nat /\ Len(t) \in Nat
    BY Sizes
  <2>3. QED
    BY <2>1, <2>2
<1>2. x = a \o b \o c \o d
  BY DumpLineIs
<1> HIDE DEF n, x
<1>3. /\ a \in Seq(Cells) /\ Len(a) = 3 * n
      /\ \A j \in 0..(n - 1) : \A e \in 1..3 : a[3 * j + e] = Field(t[o + j + 1])[e]
  BY <1>1, FieldsIs
<1>4. /\ b \in Seq(Cells) /\ Len(b) = Ascii - 3 * n
      /\ \A k \in 1..Len(b) : b[k] = " "
  <2>1. " " \in Cells
    BY DEF Cells
  <2> DEFINE m == 3 * (PerLine - n)
  <2>2. m \in Nat /\ m = 3 * PerLine - 3 * n
    BY <1>1, LineAssumed
  <2>3. b = [k \in 1..m |-> " "]
    BY DEF Blanks, EachField
  <2> HIDE DEF b, m
  <2>4. b \in Seq(Cells) /\ Len(b) = m /\ \A k \in 1..m : b[k] = " "
    <3> DEFINE blank == " "
    <3>1. blank \in Cells /\ b = [k \in 1..m |-> blank]
      BY <2>1, <2>3
    <3> HIDE DEF blank
    <3>2. b \in Seq(Cells) /\ Len(b) = m /\ \A k \in 1..m : b[k] = blank
      BY <2>2, <3>1, Filled
    <3>3. QED
      BY <3>2 DEF blank
  <2>5. QED
    BY <2>2, <2>4, Sizes
<1>5. \A k \in 1..n : t[o + k] \in Byte
  <2>1. \A k \in 1..n : o + k \in 1..Len(t)
    BY <1>1
  <2>2. QED
    BY <2>1, ElementOfSeq
<1>6. /\ c \in Seq(Cells) /\ Len(c) = n
      /\ \A k \in 1..n : c[k] = Shown(t[o + k])
  <2>1. \A k \in 1..n : Shown(t[o + k]) \in Cells
    BY <1>5, ShownIs
  <2>2. c = [k \in 1..n |-> Shown(t[o + k])]
    BY DEF Signs
  <2> HIDE DEF c
  <2>3. QED
    BY <1>1, <2>1, <2>2
<1> DEFINE more == Len(t) - o > PerLine
<1>7. /\ d \in Seq(Cells) /\ Len(d) = (IF more THEN 1 ELSE 0)
      /\ more => d[1] = Nl
  <2>1. Nl \in Cells
    BY DEF Cells
  <2>2. QED
    BY <2>1 DEF Ends
<1> HIDE DEF a, b, c, d
<1>8. Four(x, Cells, a, b, c, d)
  <2>1. a \in Seq(Cells) /\ b \in Seq(Cells) /\ c \in Seq(Cells) /\ d \in Seq(Cells)
    BY <1>3, <1>4, <1>6, <1>7
  <2>2. Four(a \o b \o c \o d, Cells, a, b, c, d)
    BY <2>1, FourIs
  <2>3. QED
    BY <1>2, <2>2, Zenon
<1>9. /\ x \in Seq(Cells)
      /\ Len(x) = Len(a) + Len(b) + Len(c) + Len(d)
      /\ \A i \in 1..Len(a) : x[i] = a[i]
      /\ \A i \in 1..Len(b) : x[Len(a) + i] = b[i]
      /\ \A i \in 1..Len(c) : x[Len(a) + Len(b) + i] = c[i]
      /\ \A i \in 1..Len(d) : x[Len(a) + Len(b) + Len(c) + i] = d[i]
  BY <1>8, Zenon DEF Four
<1>10. Len(a) + Len(b) = Ascii
  <2>1. Ascii \in Nat
    BY Sizes
  <2>2. Len(a) = 3 * n /\ Len(b) = Ascii - 3 * n
    BY <1>3, <1>4
  <2>3. QED
    BY <1>1, <2>1, <2>2
<1>11. Len(x) = Ascii + n + (IF more THEN 1 ELSE 0)
  BY <1>1, <1>6, <1>7, <1>9, <1>10, Sizes
<1>12. ASSUME NEW j \in 0..(n - 1)
       PROVE  /\ x[3 * j + 1] = Code[t[o + j + 1]][1]
              /\ x[3 * j + 2] = Code[t[o + j + 1]][2]
              /\ x[3 * j + 3] = " "
              /\ x[Ascii + j + 1] = Shown(t[o + j + 1])
  <2>1. \A e \in 1..3 : 3 * j + e \in 1..Len(a)
    BY <1>1, <1>3
  <2>2. \A e \in 1..3 : x[3 * j + e] = Field(t[o + j + 1])[e]
    BY <1>3, <1>9, <2>1
  <2>3. j + 1 \in 1..n /\ o + (j + 1) = o + j + 1 /\ Ascii + (j + 1) = Ascii + j + 1
    BY <1>1, Sizes
  <2>4. t[o + j + 1] \in Byte /\ c[j + 1] = Shown(t[o + j + 1])
    BY <1>5, <1>6, <2>3
  <2>5. x[Ascii + (j + 1)] = c[j + 1]
    BY <1>6, <1>9, <1>10, <2>3
  <2> DEFINE f == Field(t[o + j + 1])
             g == Code[t[o + j + 1]]
  <2>6. f[1] = g[1] /\ f[2] = g[2] /\ f[3] = " "
    BY <2>4, FieldIs
  <2> HIDE DEF f, g
  <2>7. x[3 * j + 1] = f[1] /\ x[3 * j + 2] = f[2] /\ x[3 * j + 3] = f[3]
    <3>1. 1 \in 1..3 /\ 2 \in 1..3 /\ 3 \in 1..3
      OBVIOUS
    <3>2. QED
      BY <2>2, <3>1 DEF f
  <2>8. x[3 * j + 1] = g[1] /\ x[3 * j + 2] = g[2] /\ x[3 * j + 3] = " "
    BY <2>6, <2>7
  <2>9. QED
    BY <2>3, <2>4, <2>5, <2>8 DEF g
<1>13. ASSUME NEW k \in (3 * n + 1)..Ascii
       PROVE  x[k] = " "
  <2> DEFINE i == k - 3 * n
  <2>1. i \in 1..Len(b) /\ Len(a) + i = k
    <3>1. Ascii \in Nat
      BY Sizes
    <3>2. Len(a) = 3 * n /\ Len(b) = Ascii - 3 * n
      BY <1>3, <1>4
    <3>3. QED
      BY <1>1, <3>1, <3>2
  <2> HIDE DEF i
  <2>2. x[Len(a) + i] = b[i] /\ b[i] = " "
    BY <1>4, <1>9, <2>1
  <2>3. QED
    BY <2>1, <2>2
<1>14. ASSUME more
       PROVE  x[Ascii + n + 1] = Nl
  <2>1. 1 \in 1..Len(d)
    BY <1>7, <1>14
  <2>2. x[Len(a) + Len(b) + Len(c) + 1] = d[1]
    BY <1>9, <2>1
  <2>3. QED
    BY <1>6, <1>7, <1>10, <1>14, <2>2
<1>15. QED
  BY <1>9, <1>11, <1>12, <1>13, <1>14 DEF IsLine, n, x

-----------------------------------------------------------------------------
(* The dump.                                                               *)

\* The last line of a dump.
Bottom(t) == (Len(t) - 1) \div PerLine

\* The number of lines of a dump, and that all but the last one are full.
LEMMA BottomIs ==
  ASSUME NEW t \in Seq(Byte), t # <<>>
  PROVE  /\ Bottom(t) \in Nat /\ Len(t) \in Nat
         /\ Len(t) - Row(PerLine, Bottom(t)) \in 1..PerLine
         /\ (Len(t) + PerLine - 1) \div PerLine = Bottom(t) + 1
         /\ \A l \in Nat : l < Bottom(t) => Len(t) - Row(PerLine, l) > PerLine
<1> DEFINE n == Len(t)
           m == Bottom(t)
           w == PerLine
           e == (n - 1) % w
<1>1. w \in Nat \ {0} /\ w \in Nat /\ w >= 1
  BY LineAssumed
<1>2. n \in Nat /\ n >= 1 /\ n - 1 \in Nat
  BY EmptySeq, LenProperties
<1>3. m \in Nat /\ e \in 0..(w - 1) /\ n - 1 = Row(w, m) + e
  <2>1. m = (n - 1) \div w
    BY DEF Bottom
  <2> HIDE DEF n, w, m
  <2>2. QED
    BY <1>1, <1>2, <2>1, RowDiv
<1> HIDE DEF n, w, m, e
<1>4. Row(w, m) \in Nat /\ Row(w, m + 1) = Row(w, m) + w
  BY <1>1, <1>3, RowIs
<1>5. n - Row(w, m) \in 1..w
  BY <1>1, <1>2, <1>3, <1>4
<1> DEFINE z == n + w - 1
           q == z \div w
           r == z % w
<1>6. z \in Nat /\ z = Row(w, m + 1) + e
  BY <1>1, <1>2, <1>3, <1>4
<1> HIDE DEF z
<1>7. q \in Nat /\ r \in 0..(w - 1) /\ z = Row(w, q) + r
  BY <1>1, <1>6, RowDiv
<1>8. q = m + 1
  <2>1. m + 1 \in Nat
    BY <1>3
  <2> DEFINE p == m + 1
  <2>2. Row(w, q) + r = Row(w, p) + e /\ p \in Nat
    BY <1>6, <1>7, <2>1
  <2> HIDE DEF p, q, r
  <2>3. q = p
    BY <1>1, <1>3, <1>7, <2>2, RowSame
  <2>4. QED
    BY <2>3 DEF p
<1>9. ASSUME NEW l \in Nat, l < m
      PROVE  n - Row(w, l) > w
  <2>1. Row(w, l) + w <= Row(w, m)
    BY <1>1, <1>3, <1>9, RowLess
  <2>2. Row(w, l) \in Nat
    BY <1>1, RowIs
  <2>3. QED
    BY <1>1, <1>2, <1>4, <1>5, <2>1, <2>2
<1>10. (n + w - 1) \div w = m + 1
  BY <1>8 DEF z, q
<1>11. QED
  BY <1>2, <1>3, <1>5, <1>9, <1>10 DEF n, m, w

\* Where the line of a number starts, and what is on it.
Top(l) == Row(Width + 1, l)
LineAt(t, l) == DumpLine(t, Row(PerLine, l))

\* The lines of a dump follow each other.
Dumped(x, t) ==
  /\ x \in Seq(Cells)
  /\ Len(x) = Top(Bottom(t)) + Ascii + (Len(t) - Row(PerLine, Bottom(t)))
  /\ \A l \in 0..Bottom(t) : \A c \in 1..Len(LineAt(t, l)) : x[Top(l) + c] = LineAt(t, l)[c]

\* Each line but the last one is full.
LEMMA LinesAre ==
  ASSUME NEW t \in Seq(Byte), t # <<>>, NEW l \in 0..Bottom(t)
  PROVE  /\ Row(PerLine, l) \in Nat /\ Row(PerLine, l) < Len(t)
         /\ IsLine(LineAt(t, l), t, Row(PerLine, l), Here(t, Row(PerLine, l)))
         /\ LineAt(t, l) \in Seq(Cells)
         /\ l < Bottom(t) => /\ Len(t) - Row(PerLine, l) > PerLine
                             /\ Here(t, Row(PerLine, l)) = PerLine
                             /\ Len(LineAt(t, l)) = Width + 1
         /\ l = Bottom(t) =>
              /\ Here(t, Row(PerLine, l)) = Len(t) - Row(PerLine, l)
              /\ Len(LineAt(t, l)) = Ascii + (Len(t) - Row(PerLine, l))
<1> DEFINE o == Row(PerLine, l)
           n == Len(t)
           m == Bottom(t)
<1>1. m \in Nat /\ n \in Nat /\ l \in Nat /\ (l < m \/ l = m)
  BY BottomIs
<1>2. PerLine \in Nat /\ PerLine >= 1 /\ Ascii \in Nat /\ Width = Ascii + PerLine
  BY Sizes
<1>3. o \in Nat
  BY <1>1, <1>2, RowIs
<1>4. l < m => n - o > PerLine
  BY <1>1, BottomIs
<1>5. l = m => n - o \in 1..PerLine
  BY BottomIs
<1> HIDE DEF o, n, m
<1>6. o < n
  BY <1>1, <1>2, <1>3, <1>4, <1>5
<1>7. IsLine(LineAt(t, l), t, o, Here(t, o))
  BY <1>3, <1>6, LineIs DEF LineAt, o, n
<1>8. Here(t, o) = IF n - o < PerLine THEN n - o ELSE PerLine
  BY DEF Here, n
<1>9. /\ LineAt(t, l) \in Seq(Cells)
      /\ Len(LineAt(t, l)) = Ascii + Here(t, o) + (IF n - o > PerLine THEN 1 ELSE 0)
  BY <1>7 DEF IsLine, n
<1>10. l < m => Here(t, o) = PerLine /\ Len(LineAt(t, l)) = Width + 1
  BY <1>1, <1>2, <1>3, <1>4, <1>8, <1>9
<1>11. l = m => Here(t, o) = n - o /\ Len(LineAt(t, l)) = Ascii + (n - o)
  BY <1>1, <1>2, <1>3, <1>5, <1>8, <1>9
<1>12. QED
  BY <1>3, <1>4, <1>6, <1>7, <1>9, <1>10, <1>11 DEF o, n, m

\* No bytes, no lines.
LEMMA DumpOfNone == Dump(<<>>) = <<>>
<1>1. Len(<<>>) = 0
  BY EmptySeq
<1>2. (0 + PerLine - 1) \div PerLine = 0
  BY Sizes
<1>3. 1..((Len(<<>>) + PerLine - 1) \div PerLine) = 1..0
  BY <1>1, <1>2
<1> DEFINE q == [k \in 1..0 |-> DumpLine(<<>>, (k - 1) * PerLine)]
<1>4. Dump(<<>>) = FlattenSeq(q)
  BY <1>3 DEF Dump
<1>5. q = <<>>
  <2>1. \A f : f = [k \in 1..0 |-> f[k]] => f = <<>>
    OBVIOUS
  <2>2. q = [k \in 1..0 |-> q[k]]
    OBVIOUS
  <2> HIDE DEF q
  <2>3. QED
    BY <2>1, <2>2
<1>6. QED
  BY <1>4, <1>5, FlattenEmpty

\* The dump has its lines where they start.
LEMMA DumpIs ==
  ASSUME NEW t \in Seq(Byte), t # <<>>
  PROVE  Dumped(Dump(t), t)
<1> DEFINE m == Bottom(t)
           w == Width + 1
           last == LineAt(t, m)
           q == [k \in 1..(m + 1) |-> LineAt(t, k - 1)]
           p == [k \in 1..m |-> LineAt(t, k - 1)]
<1>1. m \in Nat /\ (Len(t) + PerLine - 1) \div PerLine = m + 1
  BY BottomIs
<1>2. w \in Nat
  BY Sizes
<1>3. Dump(t) = FlattenSeq(q)
  <2>1. \A k \in 1..(m + 1) : (k - 1) * PerLine = PerLine * (k - 1)
    BY <1>1, Sizes
  <2>2. \A k \in 1..(m + 1) : LineAt(t, k - 1) = DumpLine(t, (k - 1) * PerLine)
    BY <2>1 DEF LineAt, Row
  <2>3. Dump(t) = FlattenSeq([k \in 1..(m + 1) |-> DumpLine(t, (k - 1) * PerLine)])
    BY <1>1 DEF Dump
  <2>4. [k \in 1..(m + 1) |-> DumpLine(t, (k - 1) * PerLine)] = q
    BY <2>2
  <2>5. QED
    BY <2>3, <2>4
<1>4. \A l \in 0..m : LineAt(t, l) \in Seq(Cells)
  BY LinesAre
<1>5. \A l \in 0..m : l < m => Len(LineAt(t, l)) = w
  BY LinesAre
<1> HIDE DEF m, w
<1>6. \A k \in 1..(m + 1) : k - 1 \in 0..m
  BY <1>1
<1>7. /\ p \in Seq(Seq(Cells)) /\ Len(p) = m
      /\ \A k \in 1..m : p[k] = LineAt(t, k - 1) /\ Len(p[k]) = w
  <2>1. \A k \in 1..m : LineAt(t, k - 1) \in Seq(Cells)
    BY <1>1, <1>4, <1>6
  <2>2. \A k \in 1..m : p[k] = LineAt(t, k - 1)
    OBVIOUS
  <2>3. \A k \in 1..m : k - 1 \in 0..m /\ k - 1 < m
    BY <1>1
  <2>4. \A k \in 1..m : Len(p[k]) = w
    BY <1>5, <2>2, <2>3
  <2>5. p \in [1..m -> Seq(Cells)]
    BY <2>1
  <2>6. p \in Seq(Seq(Cells)) /\ Len(p) = m
    BY <1>1, <2>5
  <2>7. QED
    BY <2>2, <2>4, <2>6
<1>8. last \in Seq(Cells) /\ Len(last) = Ascii + (Len(t) - Row(PerLine, m))
  <2>1. m \in 0..m
    BY <1>1
  <2>2. QED
    BY <1>4, <2>1, LinesAre DEF m
<1>9. q = Append(p, last)
  <2>1. \A k \in 1..(m + 1) : q[k] = Append(p, last)[k]
    <3>1. ASSUME NEW k \in 1..(m + 1)
          PROVE  q[k] = Append(p, last)[k]
      <4>1. CASE k = m + 1
        <5>1. Append(p, last)[m + 1] = last /\ q[k] = LineAt(t, k - 1) /\ k - 1 = m
          BY <1>1, <1>7, <4>1, AppendProperties
        <5>2. QED
          BY <4>1, <5>1
      <4>2. CASE k # m + 1
        <5>1. k \in 1..m
          BY <1>1, <4>2
        <5>2. Append(p, last)[k] = p[k] /\ q[k] = LineAt(t, k - 1)
          <6>1. p \in Seq(Seq(Cells)) /\ Len(p) = m /\ last \in Seq(Cells)
            BY <1>7, <1>8
          <6>2. q[k] = LineAt(t, k - 1)
            BY <3>1
          <6> HIDE DEF p, q, last
          <6>3. Append(p, last)[k] = p[k]
            BY <5>1, <6>1, AppendProperties
          <6>4. QED
            BY <6>2, <6>3
        <5>3. QED
          BY <5>1, <5>2
      <4>3. QED
        BY <4>1, <4>2
    <3>2. QED
      BY <3>1
  <2>2. q \in Seq(Seq(Cells)) /\ Len(q) = m + 1
    <3>1. \A k \in 1..(m + 1) : LineAt(t, k - 1) \in Seq(Cells)
      BY <1>1, <1>4, <1>6
    <3>2. q \in [1..(m + 1) -> Seq(Cells)]
      BY <3>1
    <3>3. QED
      BY <1>1, <3>2
  <2> HIDE DEF q, p, last
  <2>3. Append(p, last) \in Seq(Seq(Cells)) /\ Len(Append(p, last)) = m + 1
    BY <1>7, <1>8, AppendProperties
  <2>4. QED
    BY <2>1, <2>2, <2>3, SeqEqual
<1> HIDE DEF q, p, last
<1> DEFINE d == FlattenSeq(p)
<1>10. Dump(t) = d \o last
  BY <1>3, <1>7, <1>8, <1>9, FlattenAppend
<1>11. d \in Seq(Cells) /\ Rows(p, w, d)
  <2>1. \A k \in 1..Len(p) : Len(p[k]) = w
    BY <1>7
  <2>2. QED
    BY <1>2, <1>7, <2>1, RowsIs, FlattenType
<1> HIDE DEF d
<1>12. /\ Len(d) = Row(w, m)
       /\ \A l \in 0..(m - 1) : \A c \in 1..w : d[Row(w, l) + c] = LineAt(t, l)[c]
  <2>1. Len(d) = Row(w, m)
    BY <1>7, <1>11 DEF Rows
  <2>2. ASSUME NEW l \in 0..(m - 1), NEW c \in 1..w
        PROVE  d[Row(w, l) + c] = LineAt(t, l)[c]
    <3>1. d[Row(w, l) + c] = p[l + 1][c]
      BY <1>7, <1>11 DEF Rows
    <3>2. l + 1 \in 1..m /\ (l + 1) - 1 = l
      BY <1>1
    <3>3. QED
      BY <1>7, <3>1, <3>2
  <2>3. QED
    BY <2>1, <2>2
<1> DEFINE x == d \o last
<1>13. /\ x \in Seq(Cells) /\ Len(x) = Len(d) + Len(last)
       /\ \A i \in 1..Len(d) : x[i] = d[i]
       /\ \A i \in 1..Len(last) : x[Len(d) + i] = last[i]
  <2>1. d \in Seq(Cells) /\ last \in Seq(Cells)
    BY <1>8, <1>11
  <2>2. QED
    BY <2>1, ConcatIs
<1> HIDE DEF x
<1>14. Row(w, m) \in Nat
  BY <1>1, <1>2, RowIs
<1>15. ASSUME NEW l \in 0..m, NEW c \in 1..Len(LineAt(t, l))
       PROVE  x[Row(w, l) + c] = LineAt(t, l)[c]
  <2>1. CASE l = m
    BY <1>12, <1>13, <2>1 DEF last
  <2>2. CASE l # m
    <3>1. l \in 0..(m - 1) /\ l \in Nat /\ l < m
      BY <1>1, <2>2
    <3>2. c \in 1..w
      BY <1>5, <3>1
    <3>3. d[Row(w, l) + c] = LineAt(t, l)[c]
      BY <1>12, <3>1, <3>2
    <3>4. Row(w, l) + w <= Row(w, m) /\ Row(w, l) \in Nat
      BY <1>1, <1>2, <3>1, RowLess, RowIs
    <3>5. Row(w, l) + c \in 1..Len(d)
      BY <1>2, <1>12, <1>14, <3>2, <3>4
    <3>6. QED
      BY <1>13, <3>3, <3>5
  <2>3. QED
    BY <2>1, <2>2
<1>16. Len(x) = Row(w, m) + Ascii + (Len(t) - Row(PerLine, m))
  <2>1. Len(t) - Row(PerLine, m) \in 1..PerLine /\ Ascii \in Nat
    BY BottomIs, Sizes DEF m
  <2>2. QED
    BY <1>8, <1>12, <1>13, <1>14, <2>1
<1>17. Dumped(x, t)
  BY <1>13, <1>15, <1>16 DEF Dumped, Top, m, w
<1>18. QED
  BY <1>10, <1>17 DEF x

-----------------------------------------------------------------------------
(* Positions and lines of any text.                                        *)

\* The newlines up to a position, of which LineOf is the number.
Before(t, pos) == {i \in Newlines(t) : i <= pos}

\* LineOf counts the newlines up to a position, which are finitely many.
LEMMA BeforeIs ==
  ASSUME NEW S, NEW t \in Seq(S), NEW pos \in Int
  PROVE  /\ Newlines(t) \subseteq 1..Len(t) /\ Len(t) \in Nat
         /\ Before(t, pos) \subseteq Newlines(t)
         /\ IsFiniteSet(Newlines(t)) /\ IsFiniteSet(Before(t, pos))
         /\ LineOf(t, pos) = Cardinality(Before(t, pos))
         /\ LineOf(t, pos) \in Nat
<1>1. Len(t) \in Nat /\ DOMAIN t = 1..Len(t)
  OBVIOUS
<1>2. Newlines(t) \subseteq 1..Len(t) /\ Before(t, pos) \subseteq Newlines(t)
  BY <1>1 DEF Newlines, Before
<1>3. IsFiniteSet(1..Len(t))
  BY <1>1, FS_Interval
<1>4. IsFiniteSet(Newlines(t))
  BY <1>2, <1>3, FS_Subset
<1>5. IsFiniteSet(Before(t, pos))
  BY <1>2, <1>4, FS_Subset
<1>6. LineOf(t, pos) = Cardinality(Before(t, pos))
  BY DEF LineOf, Before
<1>7. QED
  BY <1>1, <1>2, <1>4, <1>5, <1>6, FS_CardinalityType

\* A set of numbers that is bounded has a greatest one.
LEMMA Greatest ==
  ASSUME NEW S, NEW n \in Nat, S \subseteq 0..n, S # {}
  PROVE  \E k \in S : \A i \in S : i <= k
<1> DEFINE T == {n - i : i \in S}
<1>1. T \subseteq Nat /\ T # {}
  <2>1. \A i \in S : n - i \in Nat
    OBVIOUS
  <2>2. T \subseteq Nat
    BY <2>1
  <2>3. PICK i \in S : TRUE
    OBVIOUS
  <2>4. n - i \in T
    BY <2>3
  <2>5. QED
    BY <2>2, <2>4
<1>2. \A i \in S : n - i \in T
  OBVIOUS
<1>3. \A j \in T : \E i \in S : j = n - i
  OBVIOUS
<1> HIDE DEF T
<1>4. Min(T) \in T /\ \A j \in T : Min(T) <= j
  BY <1>1, Least
<1>5. PICK k \in S : Min(T) = n - k
  BY <1>3, <1>4
<1>6. ASSUME NEW i \in S
      PROVE  i <= k
  <2>1. Min(T) <= n - i
    BY <1>2, <1>4
  <2>2. i \in Nat /\ k \in Nat
    OBVIOUS
  <2>3. QED
    BY <1>5, <2>1, <2>2
<1>7. QED
  BY <1>6

\* The line of a position starts behind the last newline in front of it.
LEMMA StartIs ==
  ASSUME NEW S, NEW t \in Seq(S), NEW pos \in 0..Len(t)
  PROVE  LET s == LineStart(t, LineOf(t, pos))
         IN  /\ s \in {0} \cup Newlines(t) /\ s \in 0..pos
             /\ \A i \in Newlines(t) : i <= pos => i <= s
<1> DEFINE n == Len(t)
           N == Newlines(t)
           A == Before(t, pos)
           line == LineOf(t, pos)
           s == LineStart(t, line)
<1>1. n \in Nat /\ pos \in Nat /\ pos \in Int /\ pos <= n
  OBVIOUS
<1>2. N \subseteq 1..n /\ A \subseteq N /\ IsFiniteSet(A)
      /\ line = Cardinality(A) /\ line \in Nat
  BY <1>1, BeforeIs
<1>3. \A i \in N : i \in A <=> i <= pos
  BY DEF Before
<1>4. \A i \in N : /\ Before(t, i) \subseteq N /\ IsFiniteSet(Before(t, i))
                   /\ LineOf(t, i) = Cardinality(Before(t, i))
                   /\ \A j \in N : j \in Before(t, i) <=> j <= i
  <2>1. \A i \in N : i \in Int
    BY <1>2
  <2>2. ASSUME NEW i \in N
        PROVE  /\ Before(t, i) \subseteq N /\ IsFiniteSet(Before(t, i))
               /\ LineOf(t, i) = Cardinality(Before(t, i))
               /\ \A j \in N : j \in Before(t, i) <=> j <= i
    <3>1. i \in Int
      BY <2>1
    <3>2. \A j \in N : j \in Before(t, i) <=> j <= i
      BY DEF Before
    <3>3. QED
      BY <3>1, <3>2, BeforeIs
  <2>3. QED
    BY <2>2
<1>5. s = IF line <= 0 THEN 0 ELSE Min({n} \cup {i \in N : LineOf(t, i) = line})
  BY DEF LineStart
<1> HIDE DEF n, N, A, line, s
<1>6. CASE A = {}
  <2>1. line = 0
    BY <1>2, <1>6, FS_EmptySet
  <2>2. s = 0
    BY <1>5, <2>1
  <2>3. \A i \in N : ~ (i <= pos)
    BY <1>3, <1>6
  <2>4. QED
    BY <1>1, <2>2, <2>3 DEF N, s, line
<1>7. CASE A # {}
  <2>1. PICK g \in A : \A i \in A : i <= g
    <3>1. A \subseteq 0..n
      BY <1>2
    <3>2. QED
      BY <1>1, <1>7, <3>1, Greatest
  <2>2. g \in N /\ g \in Nat /\ g <= pos /\ g <= n
    BY <1>1, <1>2, <1>3
  <2>3. ~ (line <= 0)
    BY <1>2, <1>7, FS_EmptySet
  <2> DEFINE M == {n} \cup {i \in N : LineOf(t, i) = line}
  <2>4. Before(t, g) = A
    <3>1. \A i \in N : i \in Before(t, g) <=> i \in A
      <4>1. ASSUME NEW i \in N
            PROVE  i \in Before(t, g) <=> i \in A
        <5>1. i \in Nat /\ (i \in Before(t, g) <=> i <= g) /\ (i \in A <=> i <= pos)
          BY <1>2, <1>3, <1>4, <2>2
        <5>2. i <= g => i <= pos
          BY <1>1, <2>2, <5>1
        <5>3. QED
          BY <2>1, <5>1, <5>2
      <4>2. QED
        BY <4>1
    <3>2. Before(t, g) \subseteq N /\ A \subseteq N
      BY <1>2, <1>4, <2>2
    <3>3. QED
      BY <3>1, <3>2
  <2>5. g \in M
    BY <1>2, <1>4, <2>2, <2>4
  <2>6. ASSUME NEW i \in M
        PROVE  g <= i
    <3>1. i = n \/ (i \in N /\ LineOf(t, i) = line)
      OBVIOUS
    <3>2. ASSUME i \in N, LineOf(t, i) = line
          PROVE  g <= i
      <4>1. i \in Nat
        BY <1>2, <3>2
      <4>2. CASE i <= pos
        <5>1. Before(t, i) \subseteq A
          <6>1. ASSUME NEW j \in Before(t, i)
                PROVE  j \in A
            <7>1. j \in N /\ j \in Nat /\ j <= i
              <8>1. j \in N
                BY <1>4, <3>2
              <8>2. j \in Nat
                BY <1>2, <8>1
              <8>3. QED
                BY <1>4, <3>2, <8>1, <8>2
            <7>2. j <= pos
              BY <1>1, <4>1, <4>2, <7>1
            <7>3. QED
              BY <1>3, <7>1, <7>2
          <6>2. QED
            BY <6>1
        <5>2. Cardinality(A) = Cardinality(Before(t, i))
          BY <1>2, <1>4, <3>2
        <5>3. A = Before(t, i)
          BY <1>2, <5>1, <5>2, FS_Subset
        <5>4. g \in Before(t, i)
          BY <5>3
        <5>5. QED
          BY <1>4, <2>2, <3>2, <5>4
      <4>3. CASE ~ (i <= pos)
        BY <1>1, <2>2, <4>1, <4>3
      <4>4. QED
        BY <4>2, <4>3
    <3>3. QED
      BY <2>2, <3>1, <3>2
  <2>7. s = Min(M)
    BY <1>5, <2>3
  <2>8. M \subseteq Nat
    <3>1. \A i \in M : i = n \/ i \in N
      OBVIOUS
    <3>2. \A i \in N : i \in Nat
      BY <1>2
    <3>3. QED
      BY <1>1, <3>1, <3>2
  <2> HIDE DEF M
  <2>9. Min(M) = g
    <3>1. Min(M) \in M /\ \A i \in M : Min(M) <= i
      BY <2>5, <2>8, Least
    <3>2. Min(M) <= g /\ g <= Min(M) /\ Min(M) \in Nat
      BY <2>5, <2>6, <2>8, <3>1
    <3>3. QED
      BY <2>2, <3>2
  <2>10. s = g
    BY <2>7, <2>9
  <2>11. \A i \in N : i <= pos => i <= s
    BY <1>3, <2>1, <2>10
  <2>12. QED
    BY <1>1, <2>2, <2>10, <2>11 DEF N, s, line
<1>8. QED
  BY <1>6, <1>7

\* What replacing cells does.
LEMMA PutIs ==
  ASSUME NEW S, NEW t \in Seq(S), NEW c \in Seq(S), NEW pos \in 0..Len(t)
  PROVE  /\ Put(t, pos, c) \in Seq(S)
         /\ Len(Put(t, pos, c)) = IF pos + Len(c) <= Len(t) THEN Len(t) ELSE pos + Len(c)
         /\ \A k \in 1..Len(c) : Put(t, pos, c)[pos + k] = c[k]
         /\ \A k \in 1..Len(t) : ~ (k > pos /\ k <= pos + Len(c)) => Put(t, pos, c)[k] = t[k]
<1> DEFINE a == SubSeq(t, 1, pos)
           z == SubSeq(t, pos + Len(c) + 1, Len(t))
           x == a \o c
           y == x \o z
           n == Len(t)
           l == Len(c)
<1>1. n \in Nat /\ l \in Nat /\ pos \in Nat /\ pos <= n
  OBVIOUS
<1>2. a \in Seq(S) /\ Len(a) = pos /\ \A i \in 1..pos : a[i] = t[i]
  BY Firsts
<1>3. /\ z \in Seq(S) /\ Len(z) = IF pos + l <= n THEN n - (pos + l) ELSE 0
      /\ \A i \in 1..(n - (pos + l)) : z[i] = t[pos + l + i]
  <2> DEFINE f == pos + l + 1
  <2>1. f \in Int /\ n \in Int /\ f \in Nat /\ f >= 1 /\ f = pos + l + 1
    BY <1>1
  <2>2. \A i \in f..n : t[i] \in S
    <3>1. \A i \in f..n : i \in 1..n
      BY <2>1
    <3>2. QED
      BY <3>1, ElementOfSeq
  <2> HIDE DEF f, n
  <2>3. /\ SubSeq(t, f, n) \in Seq(S)
        /\ Len(SubSeq(t, f, n)) = IF f <= n THEN n - f + 1 ELSE 0
        /\ \A i \in 1..(n - f + 1) : SubSeq(t, f, n)[i] = t[f + i - 1]
    BY <2>1, <2>2, SubSeqProperties
  <2>4. z = SubSeq(t, f, n)
    BY DEF f, n
  <2> HIDE DEF z, l
  <2>5. Len(z) = IF pos + l <= n THEN n - (pos + l) ELSE 0
    BY <1>1, <2>1, <2>3, <2>4
  <2>6. ASSUME NEW i \in 1..(n - (pos + l))
        PROVE  z[i] = t[pos + l + i]
    <3>1. i \in 1..(n - f + 1) /\ f + i - 1 = pos + l + i
      BY <1>1, <2>1
    <3>2. QED
      BY <2>3, <2>4, <3>1
  <2>7. QED
    BY <2>3, <2>4, <2>5, <2>6
<1> HIDE DEF a, z, n, l
<1>4. a \in Seq(S) /\ z \in Seq(S)
  BY <1>2, <1>3
<1>5. /\ x \in Seq(S) /\ Len(x) = Len(a) + Len(c)
      /\ \A i \in 1..Len(a) : x[i] = a[i]
      /\ \A i \in 1..Len(c) : x[Len(a) + i] = c[i]
  BY <1>4, ConcatIs
<1>6. x \in Seq(S)
  BY <1>5
<1> HIDE DEF x
<1>7. /\ y \in Seq(S) /\ Len(y) = Len(x) + Len(z)
      /\ \A i \in 1..Len(x) : y[i] = x[i]
      /\ \A i \in 1..Len(z) : y[Len(x) + i] = z[i]
  BY <1>4, <1>6, ConcatIs
<1>8. y = Put(t, pos, c)
  BY DEF Put, a, z, x
<1> HIDE DEF y
<1>9. Len(x) = pos + l
  BY <1>2, <1>5 DEF l
<1>10. Len(y) = IF pos + l <= n THEN n ELSE pos + l
  <2>1. Len(z) = IF pos + l <= n THEN n - (pos + l) ELSE 0
    BY <1>3
  <2>2. Len(y) = (pos + l) + Len(z)
    BY <1>7, <1>9
  <2>3. QED
    BY <1>1, <2>1, <2>2
<1>11. ASSUME NEW k \in 1..l
       PROVE  y[pos + k] = c[k]
  <2>1. pos + k \in 1..Len(x)
    BY <1>1, <1>9
  <2>2. k \in 1..Len(c) /\ Len(a) = pos
    BY <1>2 DEF l
  <2>3. x[pos + k] = c[k]
    BY <1>5, <2>2
  <2>4. QED
    BY <1>7, <2>1, <2>3
<1>12. ASSUME NEW k \in 1..n, ~ (k > pos /\ k <= pos + l)
       PROVE  y[k] = t[k]
  <2>1. CASE k <= pos
    <3>1. k \in 1..pos /\ k \in 1..Len(a) /\ k \in 1..Len(x)
      BY <1>1, <1>2, <1>9, <2>1
    <3>2. QED
      BY <1>2, <1>5, <1>7, <3>1
  <2>2. CASE k > pos + l
    <3> DEFINE i == k - (pos + l)
    <3>1. i \in 1..(n - (pos + l)) /\ pos + l + i = k /\ Len(x) + i = k /\ pos + l <= n
      BY <1>1, <1>9, <2>2
    <3> HIDE DEF i
    <3>2. Len(z) = n - (pos + l)
      BY <1>3, <3>1
    <3>3. i \in 1..Len(z)
      BY <3>1, <3>2
    <3>4. y[Len(x) + i] = z[i]
      BY <1>7, <3>3
    <3>5. z[i] = t[pos + l + i]
      BY <1>3, <3>1
    <3>6. QED
      BY <3>1, <3>4, <3>5
  <2>3. QED
    BY <1>1, <1>12, <2>1, <2>2
<1>13. QED
  BY <1>7, <1>8, <1>10, <1>11, <1>12 DEF n, l

-----------------------------------------------------------------------------
(* The places of a dump.                                                   *)

\* Each position is on a line of the dump.
LEMMA TopIs ==
  ASSUME NEW l \in Nat
  PROVE  /\ Top(l) \in Nat /\ Top(l + 1) = Top(l) + Width + 1 /\ Top(0) = 0
         /\ \A k \in Nat : k < l => Top(k) + Width + 1 <= Top(l)
<1> DEFINE w == Width + 1
<1>1. w \in Nat /\ Width \in Nat
  BY Sizes
<1>2. \A k : Top(k) = Row(w, k)
  BY DEF Top
<1>3. w = Width + 1
  OBVIOUS
<1> HIDE DEF w
<1>4. Top(l) \in Nat /\ Top(l + 1) = Top(l) + w /\ Top(0) = 0
  BY <1>1, <1>2, RowIs
<1>5. ASSUME NEW k \in Nat, k < l
      PROVE  Top(k) + w <= Top(l)
  BY <1>1, <1>2, <1>5, RowLess
<1>6. ASSUME NEW k \in Nat, k < l
      PROVE  Top(k) + Width + 1 <= Top(l)
  <2>1. Top(k) \in Nat
    BY <1>1, <1>2, RowIs
  <2>2. Top(k) + w = Top(k) + Width + 1
    BY <1>1, <1>3, <2>1
  <2>3. QED
    BY <1>5, <1>6, <2>2
<1>7. Top(l) + w = Top(l) + Width + 1
  BY <1>1, <1>3, <1>4
<1>8. QED
  BY <1>4, <1>6, <1>7

\* How long a dump is, and that its lines are within it.
LEMMA DumpSize ==
  ASSUME NEW t \in Seq(Byte), t # <<>>
  PROVE  /\ Dump(t) \in Seq(Cells) /\ Len(Dump(t)) \in Nat /\ Bottom(t) \in Nat
         /\ Len(Dump(t)) > Top(Bottom(t)) + Ascii
         /\ Len(Dump(t)) <= Top(Bottom(t)) + Width
         /\ \A l \in 0..Bottom(t) :
              Top(l) + Len(LineAt(t, l)) <= Len(Dump(t))
         /\ Len(Dump(t)) = Top(Bottom(t)) + Len(LineAt(t, Bottom(t)))
<1> DEFINE m == Bottom(t)
           x == Dump(t)
           n == Len(t) - Row(PerLine, m)
<1>1. m \in Nat /\ m \in 0..m
  BY BottomIs
<1>2. n \in 1..PerLine
  BY BottomIs
<1>3. Len(x) = Top(m) + Ascii + n /\ x \in Seq(Cells)
  BY DumpIs DEF Dumped
<1>4. Len(LineAt(t, m)) = Ascii + n
  BY <1>1, LinesAre
<1>5. \A l \in 0..m : l < m => Len(LineAt(t, l)) = Width + 1
  BY LinesAre
<1> HIDE DEF m, x, n
<1>6. Top(m) \in Nat
  BY <1>1, TopIs
<1>7. PerLine \in Nat /\ Ascii \in Nat /\ Width \in Nat /\ Width = Ascii + PerLine
  BY Sizes
<1>8. Len(x) \in Nat /\ Len(x) > Top(m) + Ascii /\ Len(x) <= Top(m) + Width
  BY <1>2, <1>3, <1>6, <1>7
<1>9. ASSUME NEW l \in 0..m
      PROVE  Top(l) + Len(LineAt(t, l)) <= Len(x)
  <2>1. CASE l = m
    BY <1>2, <1>3, <1>4, <1>6, <1>7, <2>1
  <2>2. CASE l # m
    <3>1. l < m /\ l \in Nat
      BY <1>1, <2>2
    <3>2. Top(l) + Width + 1 <= Top(m) /\ Top(l) \in Nat
      BY <1>1, <3>1, TopIs
    <3>3. Len(LineAt(t, l)) = Width + 1
      BY <1>5, <3>1
    <3>4. QED
      BY <1>6, <1>7, <1>8, <3>2, <3>3
  <2>3. QED
    BY <2>1, <2>2
<1>10. Len(x) = Top(m) + Len(LineAt(t, m))
  BY <1>2, <1>3, <1>4, <1>6, <1>7
<1>11. QED
  BY <1>1, <1>3, <1>8, <1>9, <1>10 DEF m, x

\* Each position of a dump is one in a column of a line.
LEMMA PlaceIs ==
  ASSUME NEW t \in Seq(Byte), t # <<>>, NEW y \in 0..Len(Dump(t))
  PROVE  \E l \in 0..Bottom(t), c \in 0..Width : y = Top(l) + c
<1> DEFINE w == Width + 1
           l == y \div w
           c == y % w
           m == Bottom(t)
<1>1. w \in Nat \ {0} /\ w = Width + 1 /\ Width \in Nat /\ y \in Nat
  BY Sizes, DumpSize
<1>2. Len(Dump(t)) <= Top(m) + Width /\ m \in Nat /\ Len(Dump(t)) \in Nat
  BY DumpSize
<1>3. \A k : Top(k) = Row(w, k)
  BY DEF Top
<1> HIDE DEF w
<1>4. l \in Nat /\ c \in 0..(w - 1) /\ y = Top(l) + c
  BY <1>1, <1>3, RowDiv
<1> HIDE DEF l, c, m
<1>5. ~ (m < l)
  <2>1. ASSUME m < l
        PROVE  FALSE
    <3>1. Top(m) + Width + 1 <= Top(l) /\ Top(l) \in Nat /\ Top(m) \in Nat
      BY <1>2, <1>4, <2>1, TopIs
    <3>2. QED
      BY <1>1, <1>2, <1>4, <3>1
  <2>2. QED
    BY <2>1
<1>6. l \in 0..m /\ c \in 0..Width
  BY <1>1, <1>2, <1>4, <1>5
<1>7. QED
  BY <1>4, <1>6 DEF m

\* Each cell of a dump is on a line.
LEMMA CellPlace ==
  ASSUME NEW t \in Seq(Byte), t # <<>>, NEW z \in 1..Len(Dump(t))
  PROVE  \E l \in 0..Bottom(t) : \E c \in 1..Len(LineAt(t, l)) : z = Top(l) + c
<1>1. Len(Dump(t)) \in Nat /\ Bottom(t) \in Nat
  BY DumpSize
<1> DEFINE y == z - 1
<1>2. y \in 0..Len(Dump(t)) /\ z = y + 1
  BY <1>1
<1> HIDE DEF y
<1>3. PICK l \in 0..Bottom(t), c \in 0..Width : y = Top(l) + c
  BY <1>2, PlaceIs
<1>4. Top(l) \in Nat /\ Width \in Nat
  BY <1>1, TopIs, Sizes
<1>5. z = Top(l) + (c + 1)
  BY <1>2, <1>3, <1>4
<1>6. c + 1 \in 1..Len(LineAt(t, l))
  <2>1. CASE l = Bottom(t)
    <3>1. Len(Dump(t)) = Top(l) + Len(LineAt(t, l))
      BY <2>1, DumpSize
    <3>2. Len(LineAt(t, l)) \in Nat
      BY LinesAre
    <3>3. QED
      BY <1>1, <1>4, <1>5, <3>1, <3>2
  <2>2. CASE l # Bottom(t)
    <3>1. l < Bottom(t)
      BY <1>1, <2>2
    <3>2. Len(LineAt(t, l)) = Width + 1
      BY <3>1, LinesAre
    <3>3. QED
      BY <1>4, <3>2
  <2>3. QED
    BY <2>1, <2>2
<1>7. QED
  BY <1>5, <1>6

\* The bytes of a line.
Held(t, l) == Here(t, Row(PerLine, l))

\* What is at each place.
LEMMA CellsAre ==
  ASSUME NEW t \in Seq(Byte), t # <<>>, NEW l \in 0..Bottom(t)
  PROVE  /\ Held(t, l) \in 1..PerLine /\ Row(PerLine, l) + Held(t, l) <= Len(t)
         /\ \A j \in 0..(Held(t, l) - 1) :
              /\ Row(PerLine, l) + j + 1 \in 1..Len(t)
              /\ t[Row(PerLine, l) + j + 1] \in Byte
              /\ Dump(t)[Top(l) + (3 * j + 1)] = Code[t[Row(PerLine, l) + j + 1]][1]
              /\ Dump(t)[Top(l) + (3 * j + 2)] = Code[t[Row(PerLine, l) + j + 1]][2]
              /\ Dump(t)[Top(l) + (3 * j + 3)] = " "
              /\ Dump(t)[Top(l) + (Ascii + j + 1)] = Shown(t[Row(PerLine, l) + j + 1])
         /\ \A k \in (3 * Held(t, l) + 1)..Ascii : Dump(t)[Top(l) + k] = " "
         /\ Len(LineAt(t, l)) = Ascii + Held(t, l) + (IF l < Bottom(t) THEN 1 ELSE 0)
         /\ l < Bottom(t) => /\ Held(t, l) = PerLine
                             /\ Dump(t)[Top(l) + (Width + 1)] = Nl
<1> DEFINE o == Row(PerLine, l)
           n == Here(t, o)
           a == LineAt(t, l)
           x == Dump(t)
           b == Bottom(t)
<1>1. Len(t) \in Nat /\ PerLine \in Nat /\ PerLine >= 1 /\ Ascii \in Nat
      /\ Ascii = 3 * PerLine /\ Width = 4 * PerLine /\ b \in Nat /\ l \in 0..b
  BY Sizes, BottomIs
<1>2. o \in Nat /\ o < Len(t) /\ IsLine(a, t, o, n)
  BY LinesAre
<1>3. n \in 1..PerLine /\ o + n <= Len(t)
  BY <1>2, HereIs
<1>4. \A c \in 1..Len(a) : x[Top(l) + c] = a[c]
  BY DumpIs DEF Dumped
<1>5. l < b => Len(t) - o > PerLine /\ n = PerLine /\ Len(a) = Width + 1
  BY LinesAre
<1>6. l = b => n = Len(t) - o /\ Len(a) = Ascii + (Len(t) - o)
  BY LinesAre
<1> HIDE DEF o, n, a, x, b
<1>7. Len(a) = Ascii + n + (IF l < b THEN 1 ELSE 0)
  <2>1. CASE l < b
    BY <1>1, <1>5, <2>1
  <2>2. CASE l = b
    BY <1>1, <1>3, <1>6, <2>2
  <2>3. QED
    BY <1>1, <2>1, <2>2
<1>8. ASSUME NEW j \in 0..(n - 1)
      PROVE  /\ o + j + 1 \in 1..Len(t)
             /\ t[o + j + 1] \in Byte
             /\ x[Top(l) + (3 * j + 1)] = Code[t[o + j + 1]][1]
             /\ x[Top(l) + (3 * j + 2)] = Code[t[o + j + 1]][2]
             /\ x[Top(l) + (3 * j + 3)] = " "
             /\ x[Top(l) + (Ascii + j + 1)] = Shown(t[o + j + 1])
  <2>1. o + j + 1 \in 1..Len(t)
    BY <1>1, <1>2, <1>3
  <2>2. t[o + j + 1] \in Byte
    BY <2>1, ElementOfSeq
  <2>3. /\ 3 * j + 1 \in 1..Len(a) /\ 3 * j + 2 \in 1..Len(a)
        /\ 3 * j + 3 \in 1..Len(a) /\ Ascii + j + 1 \in 1..Len(a)
    BY <1>1, <1>3, <1>7
  <2>4. /\ a[3 * j + 1] = Code[t[o + j + 1]][1]
        /\ a[3 * j + 2] = Code[t[o + j + 1]][2]
        /\ a[3 * j + 3] = " "
        /\ a[Ascii + j + 1] = Shown(t[o + j + 1])
    BY <1>2, Zenon DEF IsLine
  <2>5. /\ x[Top(l) + (3 * j + 1)] = a[3 * j + 1] /\ x[Top(l) + (3 * j + 2)] = a[3 * j + 2]
        /\ x[Top(l) + (3 * j + 3)] = a[3 * j + 3]
        /\ x[Top(l) + (Ascii + j + 1)] = a[Ascii + j + 1]
    BY <1>4, <2>3, Zenon
  <2>6. QED
    BY <2>1, <2>2, <2>4, <2>5, Zenon
<1>9. ASSUME NEW k \in (3 * n + 1)..Ascii
      PROVE  x[Top(l) + k] = " "
  <2>1. k \in 1..Len(a)
    BY <1>1, <1>3, <1>7
  <2>2. a[k] = " "
    BY <1>2 DEF IsLine
  <2>3. QED
    BY <1>4, <2>1, <2>2
<1>10. ASSUME l < b
       PROVE  n = PerLine /\ x[Top(l) + (Width + 1)] = Nl
  <2>1. Len(t) - o > PerLine /\ n = PerLine /\ Len(a) = Width + 1
    BY <1>5, <1>10
  <2>2. Ascii + n + 1 = Width + 1 /\ Width + 1 \in 1..Len(a)
    BY <1>1, <2>1
  <2>3. a[Ascii + n + 1] = Nl
    BY <1>2, <2>1 DEF IsLine
  <2>4. QED
    BY <1>4, <2>1, <2>2, <2>3
<1>11. QED
  BY <1>3, <1>7, <1>8, <1>9, <1>10, Zenon DEF o, n, a, x, b, Held

\* The cells of a byte, and what is in them.
Spot(j) == {3 * j + 1, 3 * j + 2, 3 * j + 3, Ascii + j + 1}
Sign(b, j, c) ==
  IF c = 3 * j + 1 THEN Code[b][1] ELSE IF c = 3 * j + 2 THEN Code[b][2]
  ELSE IF c = 3 * j + 3 THEN " " ELSE Shown(b)

\* No other byte has them.
LEMMA SpotIs ==
  ASSUME NEW j \in 0..(PerLine - 1)
  PROVE  /\ Spot(j) \subseteq 1..Width
         /\ \A k \in 0..(PerLine - 1) : k # j => Spot(k) \cap Spot(j) = {}
         /\ \A b : /\ Sign(b, j, 3 * j + 1) = Code[b][1]
                   /\ Sign(b, j, 3 * j + 2) = Code[b][2]
                   /\ Sign(b, j, 3 * j + 3) = " "
                   /\ Sign(b, j, Ascii + j + 1) = Shown(b)
<1>1. PerLine \in Nat /\ Ascii = 3 * PerLine /\ Width = 4 * PerLine
  BY Sizes
<1>2. Spot(j) \subseteq 1..Width
  BY <1>1 DEF Spot
<1>3. ASSUME NEW k \in 0..(PerLine - 1), k # j
      PROVE  Spot(k) \cap Spot(j) = {}
  BY <1>1, <1>3 DEF Spot
<1>4. Ascii + j + 1 # 3 * j + 1 /\ Ascii + j + 1 # 3 * j + 2 /\ Ascii + j + 1 # 3 * j + 3
  BY <1>1
<1>5. 3 * j + 2 # 3 * j + 1 /\ 3 * j + 3 # 3 * j + 1 /\ 3 * j + 3 # 3 * j + 2
  OBVIOUS
<1>6. ASSUME NEW b
      PROVE  /\ Sign(b, j, 3 * j + 1) = Code[b][1]
             /\ Sign(b, j, 3 * j + 2) = Code[b][2]
             /\ Sign(b, j, 3 * j + 3) = " "
             /\ Sign(b, j, Ascii + j + 1) = Shown(b)
  BY <1>4, <1>5, Zenon DEF Sign
<1>7. QED
  BY <1>2, <1>3, <1>6

\* A place on a line is that of a byte, a blank behind the last of these, or
\* the newline.
LEMMA KindIs ==
  ASSUME NEW t \in Seq(Byte), t # <<>>, NEW l \in 0..Bottom(t), NEW c \in 1..Len(LineAt(t, l))
  PROVE  \/ \E j \in 0..(Held(t, l) - 1) : c \in Spot(j)
         \/ c \in (3 * Held(t, l) + 1)..Ascii
         \/ c = Width + 1 /\ l < Bottom(t)
<1> DEFINE n == Held(t, l)
<1>1. PerLine \in Nat /\ Ascii = 3 * PerLine /\ Width = 4 * PerLine
  BY Sizes
<1>2. n \in 1..PerLine /\ Len(LineAt(t, l)) = Ascii + n + (IF l < Bottom(t) THEN 1 ELSE 0)
      /\ (l < Bottom(t) => n = PerLine)
  BY CellsAre
<1> HIDE DEF n
<1>3. c \in Nat /\ c >= 1
  <2>1. Len(LineAt(t, l)) \in Nat
    BY <1>1, <1>2
  <2>2. QED
    BY <2>1
<1>4. CASE c <= 3 * n
  <2> DEFINE j == (c - 1) \div 3
             r == (c - 1) % 3
  <2>1. j \in Nat /\ r \in 0..2 /\ c = 3 * j + r + 1
    <3>1. c - 1 \in Nat /\ c = (c - 1) + 1
      BY <1>3
    <3>2. \A d \in Nat : d \div 3 \in Nat /\ d % 3 \in 0..2 /\ d = 3 * (d \div 3) + (d % 3)
      OBVIOUS
    <3>3. QED
      BY <3>1, <3>2
  <2> HIDE DEF j, r
  <2>2. j \in 0..(n - 1)
    BY <1>2, <1>4, <2>1
  <2>3. c = 3 * j + 1 \/ c = 3 * j + 2 \/ c = 3 * j + 3
    BY <2>1
  <2>4. c \in Spot(j)
    BY <2>3 DEF Spot
  <2>5. QED
    BY <2>2, <2>4 DEF n
<1>5. CASE c > 3 * n /\ c <= Ascii
  BY <1>1, <1>2, <1>3, <1>5 DEF n
<1>6. CASE c > Ascii /\ c <= Ascii + n
  <2> DEFINE j == c - Ascii - 1
  <2>1. j \in 0..(n - 1) /\ c = Ascii + j + 1
    BY <1>1, <1>2, <1>3, <1>6
  <2> HIDE DEF j
  <2>2. c \in Spot(j)
    BY <2>1 DEF Spot
  <2>3. QED
    BY <2>1, <2>2 DEF n
<1>7. CASE c > Ascii + n
  <2>1. l < Bottom(t)
    BY <1>1, <1>2, <1>7
  <2>2. c = Width + 1
    BY <1>1, <1>2, <1>7, <2>1
  <2>3. QED
    BY <2>1, <2>2
<1>8. QED
  BY <1>1, <1>2, <1>3, <1>4, <1>5, <1>6, <1>7

\* A place is on one line.
LEMMA TopSame ==
  ASSUME NEW l \in Nat, NEW k \in Nat, NEW c \in 1..(Width + 1), NEW e \in 1..(Width + 1),
         Top(l) + c = Top(k) + e
  PROVE  l = k /\ c = e
<1> DEFINE w == Width + 1
           c1 == c - 1
           e1 == e - 1
<1>1. w \in Nat /\ Width \in Nat
  BY Sizes
<1>2. c1 \in 0..(w - 1) /\ e1 \in 0..(w - 1) /\ c = c1 + 1 /\ e = e1 + 1
  BY <1>1
<1>3. Top(l) \in Nat /\ Top(k) \in Nat
  BY TopIs
<1>4. Top(l) + c1 = Top(k) + e1
  BY <1>2, <1>3
<1>5. Top(l) = Row(w, l) /\ Top(k) = Row(w, k)
  BY DEF Top
<1> HIDE DEF w, c1, e1
<1>6. l = k /\ c1 = e1
  BY <1>1, <1>2, <1>4, <1>5, RowSame
<1>7. QED
  BY <1>2, <1>6

\* What is in the cells of a byte.
LEMMA SignIs ==
  ASSUME NEW t \in Seq(Byte), t # <<>>, NEW l \in 0..Bottom(t),
         NEW j \in 0..(Held(t, l) - 1), NEW c \in Spot(j)
  PROVE  Dump(t)[Top(l) + c] = Sign(t[Row(PerLine, l) + j + 1], j, c)
<1> DEFINE b == t[Row(PerLine, l) + j + 1]
           x == Dump(t)
<1>1. /\ x[Top(l) + (3 * j + 1)] = Code[b][1] /\ x[Top(l) + (3 * j + 2)] = Code[b][2]
      /\ x[Top(l) + (3 * j + 3)] = " " /\ x[Top(l) + (Ascii + j + 1)] = Shown(b)
  BY CellsAre, Zenon
<1>2. j \in 0..(PerLine - 1)
  <2>1. Held(t, l) \in 1..PerLine /\ PerLine \in Nat
    BY CellsAre, Sizes
  <2>2. QED
    BY <2>1
<1> HIDE DEF b, x
<1>3. /\ Sign(b, j, 3 * j + 1) = Code[b][1]
      /\ Sign(b, j, 3 * j + 2) = Code[b][2]
      /\ Sign(b, j, 3 * j + 3) = " "
      /\ Sign(b, j, Ascii + j + 1) = Shown(b)
  BY <1>2, SpotIs
<1>4. c = 3 * j + 1 \/ c = 3 * j + 2 \/ c = 3 * j + 3 \/ c = Ascii + j + 1
  BY Zenon DEF Spot
<1>5. x[Top(l) + c] = Sign(b, j, c)
  BY <1>1, <1>3, <1>4, Zenon
<1>6. QED
  BY <1>5 DEF b, x

\* Another byte changes no other cells.
Places(l, j) == {Top(l) + c : c \in Spot(j)}

\* A dump with the cells of one byte replaced is the dump with that byte.
LEMMA ReplacedIs ==
  ASSUME NEW t \in Seq(Byte), t # <<>>, NEW l \in 0..Bottom(t),
         NEW j \in 0..(Held(t, l) - 1), NEW b \in Byte,
         NEW y \in Seq(Cells), Len(y) = Len(Dump(t)),
         \A c \in Spot(j) : y[Top(l) + c] = Sign(b, j, c),
         \A z \in 1..Len(y) : z \notin Places(l, j) => y[z] = Dump(t)[z]
  PROVE  y = Dump([t EXCEPT ![Row(PerLine, l) + j + 1] = b])
<1> DEFINE at == Row(PerLine, l) + j + 1
           u == [t EXCEPT ![at] = b]
<1>1. PerLine \in Nat /\ PerLine >= 1 /\ Width \in Nat
  BY Sizes
<1>2. at \in 1..Len(t) /\ Held(t, l) \in 1..PerLine
  BY CellsAre
<1>3. u \in Seq(Byte) /\ Len(u) = Len(t) /\ u # <<>>
      /\ \A i \in 1..Len(t) : u[i] = IF i = at THEN b ELSE t[i]
  <2>1. Len(t) \in Nat /\ Len(t) # 0 /\ t \in [1..Len(t) -> Byte]
    BY EmptySeq
  <2> HIDE DEF at
  <2>2. u \in [1..Len(t) -> Byte]
    BY <1>2, <2>1
  <2>3. u \in Seq(Byte) /\ Len(u) = Len(t)
    BY <2>1, <2>2
  <2>4. \A i \in 1..Len(t) : u[i] = IF i = at THEN b ELSE t[i]
    BY <2>1
  <2> HIDE DEF u
  <2>5. u # <<>>
    BY <2>1, <2>3, EmptySeq
  <2>6. QED
    BY <2>3, <2>4, <2>5
<1>4. j \in 0..(PerLine - 1) /\ j \in Nat /\ l \in Nat
  <2>1. Bottom(t) \in Nat
    BY BottomIs
  <2>2. QED
    BY <1>1, <1>2, <2>1
<1> HIDE DEF u
<1>5. Bottom(u) = Bottom(t) /\ \A k : Held(u, k) = Held(t, k)
  BY <1>3 DEF Bottom, Held, Here
<1>6. Len(Dump(u)) = Len(Dump(t)) /\ Dump(u) \in Seq(Cells)
  <2>1. Len(Dump(u)) = Top(Bottom(u)) + Ascii + (Len(u) - Row(PerLine, Bottom(u)))
        /\ Dump(u) \in Seq(Cells)
    BY <1>3, DumpIs DEF Dumped
  <2>2. Len(Dump(t)) = Top(Bottom(t)) + Ascii + (Len(t) - Row(PerLine, Bottom(t)))
    BY DumpIs DEF Dumped
  <2>3. QED
    BY <1>3, <1>5, <2>1, <2>2
<1>7. ASSUME NEW z \in 1..Len(y)
      PROVE  y[z] = Dump(u)[z]
  <2>1. z \in 1..Len(Dump(u))
    BY <1>6
  <2>2. PICK k \in 0..Bottom(u) : \E c \in 1..Len(LineAt(u, k)) : z = Top(k) + c
    BY <1>3, <2>1, CellPlace
  <2>3. PICK c \in 1..Len(LineAt(u, k)) : z = Top(k) + c
    BY <2>2
  <2>4. k \in 0..Bottom(t) /\ k \in Nat
    <3>1. Bottom(t) \in Nat
      BY BottomIs
    <3>2. QED
      BY <1>5, <3>1
  <2>5. c \in 1..(Width + 1)
    <3>1. Len(LineAt(u, k)) = Ascii + Held(u, k) + (IF k < Bottom(u) THEN 1 ELSE 0)
          /\ Held(u, k) \in 1..PerLine
      BY <1>3, CellsAre
    <3>2. Ascii \in Nat /\ Width = Ascii + PerLine
      BY Sizes
    <3> DEFINE m == Len(LineAt(u, k))
               h == Held(u, k)
    <3>3. (m = Ascii + h + 1 \/ m = Ascii + h) /\ h \in 1..PerLine /\ h \in Nat /\ PerLine \in Nat
      <4>1. m = Ascii + h + 1 \/ m = Ascii + h + 0
        BY <3>1
      <4>2. h \in 1..PerLine /\ PerLine \in Nat
        BY <3>1, Sizes
      <4> HIDE DEF m, h
      <4>3. QED
        BY <3>2, <4>1, <4>2
    <3>4. c \in 1..m
      OBVIOUS
    <3> HIDE DEF m, h
    <3>5. m <= Ascii + PerLine + 1 /\ m \in Nat
      BY <3>2, <3>3, FitsRow
    <3>6. QED
      BY <3>2, <3>3, <3>4, <3>5
  <2>6. z \in Places(l, j) => k = l /\ c \in Spot(j)
    <3>1. ASSUME NEW e \in Spot(j), z = Top(l) + e
          PROVE  k = l /\ c = e
      <4>1. e \in 1..(Width + 1)
        <5>1. e \in 1..Width
          BY <1>4, SpotIs
        <5>2. QED
          BY <1>1, <5>1
      <4>2. QED
        BY <1>4, <2>3, <2>4, <2>5, <3>1, <4>1, TopSame
    <3>2. QED
      BY <3>1 DEF Places
  <2>7. ASSUME NEW i \in 0..(Held(t, k) - 1), c \in Spot(i)
        PROVE  y[z] = Dump(u)[z]
    <3>1. i \in 0..(PerLine - 1) /\ i \in Nat
      <4>1. Held(t, k) \in 1..PerLine
        BY <2>4, CellsAre
      <4>2. QED
        BY <1>1, <4>1
    <3>2. Dump(u)[z] = Sign(u[Row(PerLine, k) + i + 1], i, c)
      <4>1. i \in 0..(Held(u, k) - 1)
        BY <1>5
      <4>2. QED
        BY <1>3, <2>3, <2>7, <4>1, SignIs
    <3>3. Row(PerLine, k) + i + 1 \in 1..Len(t)
      BY <2>4, CellsAre
    <3>4. CASE k = l /\ i = j
      <4>1. u[Row(PerLine, k) + i + 1] = b
        BY <1>3, <3>3, <3>4 DEF at
      <4>2. y[Top(l) + c] = Sign(b, j, c)
        BY <2>7, <3>4
      <4>3. QED
        BY <2>3, <3>2, <3>4, <4>1, <4>2
    <3>5. CASE ~ (k = l /\ i = j)
      <4>1. Row(PerLine, k) + i + 1 # at
        <5>1. ASSUME Row(PerLine, k) + i + 1 = Row(PerLine, l) + j + 1
              PROVE  FALSE
          <6>1. Row(PerLine, k) \in Nat /\ Row(PerLine, l) \in Nat
            BY <1>1, <1>4, <2>4, RowIs
          <6>2. Row(PerLine, k) + i = Row(PerLine, l) + j
            <7>1. i \in Nat /\ j \in Nat
              BY <1>4, <3>1
            <7> DEFINE f == Row(PerLine, k)
                       h == Row(PerLine, l)
            <7>2. f \in Nat /\ h \in Nat /\ f + i + 1 = h + j + 1
              BY <5>1, <6>1
            <7> HIDE DEF f, h
            <7>3. f + i = h + j
              BY <7>1, <7>2, OneLess
            <7>4. QED
              BY <7>3 DEF f, h
          <6>3. k = l /\ i = j
            BY <1>1, <1>4, <2>4, <3>1, <6>2, RowSame
          <6>4. QED
            BY <3>5, <6>3
        <5>2. QED
          BY <5>1
      <4>2. u[Row(PerLine, k) + i + 1] = t[Row(PerLine, k) + i + 1]
        BY <1>3, <3>3, <4>1
      <4>3. Dump(t)[z] = Sign(t[Row(PerLine, k) + i + 1], i, c)
        BY <2>3, <2>4, <2>7, SignIs
      <4>4. z \notin Places(l, j)
        <5>1. i # j => Spot(i) \cap Spot(j) = {}
          BY <1>4, <3>1, SpotIs
        <5>2. QED
          BY <2>6, <2>7, <3>5, <5>1
      <4>5. QED
        BY <3>2, <4>2, <4>3, <4>4
    <3>6. QED
      BY <3>4, <3>5
  <2>8. ASSUME c \notin Spot(j)
        PROVE  y[z] = Dump(t)[z]
    BY <2>6, <2>8
  <2>9. ASSUME c \in (3 * Held(t, k) + 1)..Ascii
        PROVE  y[z] = Dump(u)[z]
    <3>1. Dump(t)[z] = " "
      BY <2>3, <2>4, <2>9, CellsAre
    <3>2. Dump(u)[z] = " "
      <4>1. c \in (3 * Held(u, k) + 1)..Ascii
        BY <1>5, <2>9
      <4>2. QED
        BY <1>3, <2>3, <4>1, CellsAre
    <3>3. k = l => c \notin Spot(j)
      <4>1. Held(t, l) \in Nat /\ Ascii \in Nat
        BY <1>1, <1>2, Sizes
      <4>2. ASSUME k = l
            PROVE  c # 3 * j + 1 /\ c # 3 * j + 2 /\ c # 3 * j + 3 /\ c # Ascii + j + 1
        BY <1>4, <2>9, <4>1, <4>2
      <4>3. QED
        BY <4>2 DEF Spot
    <3>4. z \notin Places(l, j)
      BY <2>6, <3>3
    <3>5. QED
      BY <3>1, <3>2, <3>4
  <2>10. ASSUME c = Width + 1, k < Bottom(u)
         PROVE  y[z] = Dump(u)[z]
    <3>1. Dump(t)[z] = Nl
      BY <1>5, <2>3, <2>4, <2>10, CellsAre
    <3>2. Dump(u)[z] = Nl
      BY <1>3, <2>3, <2>10, CellsAre
    <3>3. c \notin Spot(j)
      <4>1. Spot(j) \subseteq 1..Width
        BY <1>4, SpotIs
      <4>2. QED
        BY <1>1, <2>10, <4>1
    <3>4. QED
      BY <2>8, <3>1, <3>2, <3>3
  <2>11. QED
    BY <1>3, <1>5, <2>7, <2>9, <2>10, KindIs
<1>8. y = Dump(u)
  BY <1>6, <1>7, SeqEqual
<1>9. QED
  BY <1>8 DEF u

\* The newlines of a dump are in front of its lines.
Tops(l) == {Top(k) : k \in 1..l}

\* There are as many of them as lines.
LEMMA TopsIs ==
  \A l \in Nat : IsFiniteSet(Tops(l)) /\ Cardinality(Tops(l)) = l
<1> DEFINE P == {l \in Nat : IsFiniteSet(Tops(l)) /\ Cardinality(Tops(l)) = l}
<1>1. 0 \in P
  <2>1. Tops(0) = {}
    BY DEF Tops
  <2>2. QED
    BY <2>1, FS_EmptySet
<1>2. ASSUME NEW l \in Nat, l \in P
      PROVE  l + 1 \in P
  <2> DEFINE T == Tops(l)
             x == Top(l + 1)
  <2>1. Tops(l + 1) = T \cup {x}
    <3>1. \A k : k \in 1..(l + 1) <=> k \in 1..l \/ k = l + 1
      OBVIOUS
    <3>2. QED
      BY <3>1 DEF Tops
  <2>2. IsFiniteSet(T) /\ Cardinality(T) = l
    BY <1>2
  <2>3. x \notin T
    <3>1. ASSUME NEW k \in 1..l
          PROVE  Top(k) # Top(l + 1)
      <4>1. k \in Nat /\ l + 1 \in Nat /\ k < l + 1
        OBVIOUS
      <4>2. Top(k) + Width + 1 <= Top(l + 1) /\ Top(k) \in Nat /\ Top(l + 1) \in Nat
        BY <4>1, TopIs
      <4>3. Width \in Nat
        BY Sizes
      <4>4. QED
        BY <4>2, <4>3
    <3>2. QED
      BY <3>1 DEF Tops
  <2> HIDE DEF T, x
  <2>4. IsFiniteSet(T \cup {x}) /\ Cardinality(T \cup {x}) = Cardinality(T) + 1
    BY <2>2, <2>3, FS_AddElement
  <2>5. QED
    BY <2>1, <2>2, <2>4
<1>3. \A l \in Nat : l \in P
  <2> HIDE DEF P
  <2>1. QED
    BY <1>1, <1>2, Induction
<1>4. QED
  BY <1>3

\* What is shown in a cell of a byte is no newline.
LEMMA SignNotNl ==
  ASSUME NEW b \in Byte, NEW j, NEW c
  PROVE  Sign(b, j, c) \in Cells /\ Sign(b, j, c) # Nl
<1>1. Code[b][1] \in Digit /\ Code[b][2] \in Digit
  BY CodeIs
<1>2. Shown(b) \in Cells /\ Shown(b) # Nl
  BY ShownIs
<1>3. Code[b][1] \in Cells /\ Code[b][2] \in Cells /\ " " \in Cells
  BY <1>1 DEF Cells
<1>4. Code[b][1] # Nl /\ Code[b][2] # Nl /\ " " # Nl
  BY <1>1, Apart
<1>5. QED
  BY <1>2, <1>3, <1>4, Zenon DEF Sign

\* A dump has no other newlines.
LEMMA DumpNewlines ==
  ASSUME NEW t \in Seq(Byte), t # <<>>
  PROVE  Newlines(Dump(t)) = Tops(Bottom(t))
<1> DEFINE x == Dump(t)
           m == Bottom(t)
<1>1. x \in Seq(Cells) /\ Len(x) \in Nat /\ m \in Nat /\ DOMAIN x = 1..Len(x)
  <2>1. x \in Seq(Cells) /\ Len(x) \in Nat /\ m \in Nat
    BY DumpSize
  <2>2. QED
    BY <2>1
<1>2. Width \in Nat /\ Ascii \in Nat /\ Width = Ascii + PerLine /\ PerLine \in Nat /\ PerLine >= 1
  BY Sizes
<1>3. ASSUME NEW z \in 1..Len(x)
      PROVE  x[z] = Nl <=> z \in Tops(m)
  <2>1. PICK l \in 0..m : \E c \in 1..Len(LineAt(t, l)) : z = Top(l) + c
    BY <1>3, CellPlace
  <2>2. PICK c \in 1..Len(LineAt(t, l)) : z = Top(l) + c
    BY <2>1
  <2>3. l \in Nat
    BY <1>1
  <2>4. Held(t, l) \in 1..PerLine
        /\ Len(LineAt(t, l)) = Ascii + Held(t, l) + (IF l < m THEN 1 ELSE 0)
    BY CellsAre
  <2>5. c \in 1..(Width + 1)
    <3>1. Len(LineAt(t, l)) <= Width + 1 /\ Len(LineAt(t, l)) \in Nat
      BY <1>2, <2>4
    <3>2. QED
      BY <1>2, <3>1
  <2>6. ASSUME c # Width + 1
        PROVE  z \notin Tops(m)
    <3>1. ASSUME NEW k \in 1..m, z = Top(k)
          PROVE  FALSE
      <4> DEFINE i == k - 1
      <4>1. i \in Nat /\ k = i + 1
        OBVIOUS
      <4> HIDE DEF i
      <4>2. Top(k) = Top(i) + Width + 1 /\ Top(i) \in Nat
        BY <4>1, TopIs
      <4> DEFINE e == Width + 1
      <4>3. Top(l) + c = Top(i) + e /\ e \in 1..(Width + 1)
        BY <1>2, <2>2, <3>1, <4>2
      <4> HIDE DEF e
      <4>4. c = e
        BY <2>3, <2>5, <4>1, <4>3, TopSame
      <4>5. QED
        BY <2>6, <4>4 DEF e
    <3>2. QED
      BY <3>1 DEF Tops
  <2>7. ASSUME NEW j \in 0..(Held(t, l) - 1), c \in Spot(j)
        PROVE  x[z] # Nl /\ c # Width + 1
    <3>1. x[z] = Sign(t[Row(PerLine, l) + j + 1], j, c)
      BY <2>2, <2>7, SignIs
    <3>2. t[Row(PerLine, l) + j + 1] \in Byte
      BY CellsAre
    <3>3. x[z] # Nl
      BY <3>1, <3>2, SignNotNl
    <3>4. j \in 0..(PerLine - 1)
      BY <1>2, <2>4
    <3>5. c \in 1..Width
      BY <2>7, <3>4, SpotIs
    <3>6. QED
      BY <1>2, <3>3, <3>5
  <2>8. ASSUME c \in (3 * Held(t, l) + 1)..Ascii
        PROVE  x[z] # Nl /\ c # Width + 1
    <3>1. x[z] = " "
      BY <2>2, <2>8, CellsAre
    <3>2. c <= Ascii
      BY <2>4, <2>8
    <3>3. QED
      <4>1. x[z] # Nl
        BY <3>1, Apart
      <4>2. c # Width + 1
        BY <1>2, <2>5, <3>2
      <4>3. QED
        BY <4>1, <4>2
  <2>9. ASSUME c = Width + 1, l < m
        PROVE  x[z] = Nl /\ z \in Tops(m)
    <3>1. x[z] = Nl
      BY <2>2, <2>9, CellsAre
    <3>2. Top(l + 1) = Top(l) + Width + 1 /\ Top(l) \in Nat
      BY <2>3, TopIs
    <3>3. z = Top(l + 1)
      BY <1>2, <2>2, <2>9, <3>2
    <3>4. l + 1 \in 1..m
      BY <1>1, <2>3, <2>9
    <3>5. QED
      BY <3>1, <3>3, <3>4 DEF Tops
  <2>10. QED
    BY <2>6, <2>7, <2>8, <2>9, KindIs
<1>4. ASSUME NEW z \in Tops(m)
      PROVE  z \in 1..Len(x)
  <2>1. PICK k \in 1..m : z = Top(k)
    BY DEF Tops
  <2> DEFINE i == k - 1
  <2>2. i \in Nat /\ k = i + 1 /\ i < m /\ i \in 0..m
    BY <1>1
  <2> HIDE DEF i
  <2>3. Top(k) = Top(i) + Width + 1 /\ Top(i) \in Nat /\ Top(m) \in Nat
    BY <1>1, <2>2, TopIs
  <2>4. Top(i) + Width + 1 <= Top(m) /\ Len(x) > Top(m) + Ascii
    BY <1>1, <2>2, TopIs, DumpSize
  <2>5. QED
    BY <1>1, <1>2, <2>1, <2>3, <2>4
<1>5. \A z : z \in Newlines(x) <=> z \in 1..Len(x) /\ x[z] = Nl
  BY <1>1 DEF Newlines
<1> HIDE DEF x, m
<1>6. Newlines(x) = Tops(m)
  BY <1>3, <1>4, <1>5
<1>7. QED
  BY <1>6 DEF x, m

\* The line of a position in a dump, and its start.
LEMMA DumpLines ==
  ASSUME NEW t \in Seq(Byte), t # <<>>, NEW l \in 0..Bottom(t), NEW c \in 0..Width,
         Top(l) + c <= Len(Dump(t))
  PROVE  /\ LineOf(Dump(t), Top(l) + c) = l /\ LineStart(Dump(t), l) = Top(l)
         /\ At(Dump(t), Top(l) + c) = [line |-> l, col |-> c]
<1> DEFINE x == Dump(t)
           m == Bottom(t)
           pos == Top(l) + c
           s == LineStart(x, LineOf(x, pos))
<1>1. x \in Seq(Cells) /\ Len(x) \in Nat /\ m \in Nat /\ l \in Nat /\ Width \in Nat
  <2>1. x \in Seq(Cells) /\ Len(x) \in Nat /\ m \in Nat
    BY DumpSize
  <2>2. QED
    BY <2>1, Sizes
<1>2. Top(l) \in Nat /\ pos \in 0..Len(x) /\ pos \in Int
  <2>1. Top(l) \in Nat
    BY <1>1, TopIs
  <2>2. QED
    BY <1>1, <2>1
<1>3. Newlines(x) = Tops(m)
  BY DumpNewlines
<1>4. pos = Top(l) + c /\ c \in 0..Width /\ l \in 0..m
  OBVIOUS
<1>5. LineOf(x, pos) = Cardinality(Before(x, pos))
  BY <1>1, <1>2, BeforeIs
<1>6. /\ s \in {0} \cup Newlines(x) /\ s \in 0..pos
      /\ \A i \in Newlines(x) : i <= pos => i <= s
  BY <1>1, <1>2, StartIs
<1> HIDE DEF x, m, pos, s
<1>7. \A k \in 1..m : Top(k) <= pos <=> k <= l
  <2>1. ASSUME NEW k \in 1..m
        PROVE  Top(k) <= pos <=> k <= l
    <3>1. k \in Nat /\ Top(k) \in Nat
      <4>1. k \in Nat
        BY <1>1
      <4>2. QED
        BY <4>1, TopIs
    <3>2. k < l => Top(k) + Width + 1 <= Top(l)
      BY <1>1, <3>1, TopIs
    <3>3. l < k => Top(l) + Width + 1 <= Top(k)
      BY <1>1, <3>1, TopIs
    <3>4. CASE k < l
      BY <1>1, <1>2, <1>4, <3>1, <3>2, <3>4
    <3>5. CASE k = l
      BY <1>1, <1>2, <1>4, <3>1, <3>5
    <3>6. CASE l < k
      BY <1>1, <1>2, <1>4, <3>1, <3>3, <3>6
    <3>7. QED
      BY <1>1, <3>1, <3>4, <3>5, <3>6
  <2>2. QED
    BY <2>1
<1>8. Before(x, pos) = Tops(l)
  <2>1. \A i : i \in Before(x, pos) <=> i \in Tops(m) /\ i <= pos
    BY <1>3 DEF Before
  <2>2. \A i : i \in Tops(m) <=> \E k \in 1..m : i = Top(k)
    BY DEF Tops
  <2>3. \A i : i \in Tops(l) <=> \E k \in 1..l : i = Top(k)
    BY DEF Tops
  <2>4. \A k : k \in 1..l <=> k \in 1..m /\ k <= l
    BY <1>1, <1>4
  <2>5. \A i : i \in Before(x, pos) <=> \E k \in 1..m : i = Top(k) /\ i <= pos
    BY <2>1, <2>2, Zenon
  <2>6. \A i : i \in Before(x, pos) <=> \E k \in 1..m : i = Top(k) /\ k <= l
    BY <1>7, <2>5, Zenon
  <2>7. \A i : i \in Before(x, pos) <=> i \in Tops(l)
    BY <2>3, <2>4, <2>6, Zenon
  <2>8. QED
    BY <2>7
<1>9. LineOf(x, pos) = l
  BY <1>1, <1>5, <1>8, TopsIs
<1>10. s = Top(l)
  <2>1. CASE l = 0
    <3>1. Tops(l) = {}
      BY <2>1 DEF Tops
    <3>2. s \notin Newlines(x)
      <4>1. s \in Newlines(x) => s \in Before(x, pos)
        BY <1>2, <1>6 DEF Before
      <4>2. QED
        BY <1>8, <3>1, <4>1
    <3>3. QED
      BY <1>1, <1>6, <2>1, <3>2, TopIs
  <2>2. CASE l # 0
    <3>1. l \in 1..m /\ l \in 1..l
      BY <1>1, <1>4, <2>2
    <3>2. Top(l) \in Newlines(x) /\ Top(l) <= pos
      BY <1>1, <1>3, <1>7, <3>1 DEF Tops
    <3>3. Top(l) <= s
      BY <1>6, <3>2
    <3>4. s \in Nat
      BY <1>2, <1>6
    <3>5. s # 0 => s <= Top(l)
      <4>1. ASSUME s # 0
            PROVE  s <= Top(l)
        <5>1. s \in Newlines(x)
          BY <1>6, <4>1
        <5>2. PICK k \in 1..m : s = Top(k)
          BY <1>3, <5>1 DEF Tops
        <5>3. k <= l
          BY <1>2, <1>6, <1>7, <5>2
        <5>4. k \in Nat /\ (k < l => Top(k) + Width + 1 <= Top(l)) /\ Top(k) \in Nat
          <6>1. k \in Nat
            BY <1>1
          <6>2. QED
            BY <1>1, <6>1, TopIs
        <5>5. QED
          BY <1>1, <1>2, <5>2, <5>3, <5>4
      <4>2. QED
        BY <4>1
    <3>6. QED
      BY <1>2, <3>3, <3>4, <3>5
  <2>3. QED
    BY <2>1, <2>2
<1>11. LineStart(x, l) = Top(l)
  BY <1>9, <1>10 DEF s
<1>12. At(x, pos) = [line |-> l, col |-> c]
  <2>1. pos - Top(l) = c
    BY <1>2, <1>4
  <2>2. QED
    BY <1>9, <1>11, <2>1, Zenon DEF At
<1>13. QED
  BY <1>9, <1>11, <1>12 DEF x, pos

-----------------------------------------------------------------------------
(* Replacing a byte in the dump.                                           *)

\* One cell is replaced, or appended.
LEMMA PutOne ==
  ASSUME NEW t \in Seq(Cells), NEW e \in Cells, NEW pos \in 0..Len(t)
  PROVE  /\ Put(t, pos, <<e>>) \in Seq(Cells)
         /\ Len(Put(t, pos, <<e>>)) = IF pos < Len(t) THEN Len(t) ELSE pos + 1
         /\ Put(t, pos, <<e>>)[pos + 1] = e
         /\ \A k \in 1..Len(t) : k # pos + 1 => Put(t, pos, <<e>>)[k] = t[k]
<1> DEFINE c == <<e>>
           y == Put(t, pos, c)
<1>1. c \in Seq(Cells) /\ Len(c) = 1 /\ c[1] = e
  OBVIOUS
<1>2. Len(t) \in Nat /\ pos \in Nat /\ pos <= Len(t)
  OBVIOUS
<1> HIDE DEF c
<1>3. /\ y \in Seq(Cells)
      /\ Len(y) = IF pos + Len(c) <= Len(t) THEN Len(t) ELSE pos + Len(c)
      /\ \A k \in 1..Len(c) : y[pos + k] = c[k]
      /\ \A k \in 1..Len(t) : ~ (k > pos /\ k <= pos + Len(c)) => y[k] = t[k]
  <2>1. c \in Seq(Cells)
    BY <1>1
  <2>2. QED
    BY <2>1, PutIs
<1> HIDE DEF y
<1>4. Len(y) = IF pos < Len(t) THEN Len(t) ELSE pos + 1
  BY <1>1, <1>2, <1>3
<1>5. y[pos + 1] = e
  BY <1>1, <1>3
<1>6. \A k \in 1..Len(t) : k # pos + 1 => y[k] = t[k]
  BY <1>1, <1>2, <1>3
<1>7. QED
  BY <1>3, <1>4, <1>5, <1>6 DEF y, c

\* The two digits of a byte are put in a text.
LEMMA PutCode ==
  ASSUME NEW t \in Seq(Cells), NEW b \in Byte, NEW pos \in Nat, pos + 2 <= Len(t)
  PROVE  /\ Put(t, pos, Code[b]) \in Seq(Cells)
         /\ Len(Put(t, pos, Code[b])) = Len(t)
         /\ Put(t, pos, Code[b])[pos + 1] = Code[b][1]
         /\ Put(t, pos, Code[b])[pos + 2] = Code[b][2]
         /\ \A k \in 1..Len(t) : k # pos + 1 /\ k # pos + 2 => Put(t, pos, Code[b])[k] = t[k]
<1> DEFINE c == Code[b]
           y == Put(t, pos, c)
<1>1. c \in Seq(Cells) /\ Len(c) = 2
  <2>1. c \in Seq(Digit) /\ Len(c) = 2
    BY CodeIs
  <2>2. Digit \subseteq Cells
    BY DEF Cells
  <2> HIDE DEF c
  <2>3. QED
    BY <2>1, <2>2
<1>2. Len(t) \in Nat /\ pos \in 0..Len(t)
  OBVIOUS
<1> HIDE DEF c
<1>3. /\ y \in Seq(Cells)
      /\ Len(y) = IF pos + Len(c) <= Len(t) THEN Len(t) ELSE pos + Len(c)
      /\ \A k \in 1..Len(c) : y[pos + k] = c[k]
      /\ \A k \in 1..Len(t) : ~ (k > pos /\ k <= pos + Len(c)) => y[k] = t[k]
  <2>1. c \in Seq(Cells)
    BY <1>1
  <2>2. QED
    BY <1>2, <2>1, PutIs
<1> HIDE DEF y
<1>4. Len(y) = Len(t)
  BY <1>1, <1>3
<1>5. y[pos + 1] = c[1] /\ y[pos + 2] = c[2]
  BY <1>1, <1>3
<1>6. \A k \in 1..Len(t) : k # pos + 1 /\ k # pos + 2 => y[k] = t[k]
  BY <1>1, <1>2, <1>3
<1>7. QED
  BY <1>3, <1>4, <1>5, <1>6 DEF y, c

\* The cells of a byte are in the dump.
LEMMA SpotInside ==
  ASSUME NEW t \in Seq(Byte), t # <<>>, NEW l \in 0..Bottom(t), NEW j \in 0..(Held(t, l) - 1)
  PROVE  /\ j \in 0..(PerLine - 1) /\ Top(l) \in Nat /\ l \in Nat /\ j \in Nat
         /\ Top(l) + (Ascii + j + 1) <= Len(Dump(t))
         /\ Ascii \in Nat /\ Ascii = 3 * PerLine /\ 3 * j + 3 <= Ascii
         /\ Dump(t) \in Seq(Cells) /\ Len(Dump(t)) \in Nat
<1>1. Dump(t) \in Seq(Cells) /\ Len(Dump(t)) \in Nat /\ Bottom(t) \in Nat
      /\ Top(l) + Len(LineAt(t, l)) <= Len(Dump(t))
  BY DumpSize
<1>2. l \in Nat
  BY <1>1
<1>3. Top(l) \in Nat
  BY <1>2, TopIs
<1>4. Held(t, l) \in 1..PerLine
      /\ Len(LineAt(t, l)) = Ascii + Held(t, l) + (IF l < Bottom(t) THEN 1 ELSE 0)
  BY CellsAre
<1>5. Ascii \in Nat /\ PerLine \in Nat /\ Ascii = 3 * PerLine
  BY Sizes
<1>6. j \in 0..(PerLine - 1) /\ 3 * j + 3 <= Ascii /\ j \in Nat
  BY <1>4, <1>5
<1>7. Len(LineAt(t, l)) >= Ascii + j + 1 /\ Len(LineAt(t, l)) \in Nat
  BY <1>4, <1>5
<1>8. Top(l) + (Ascii + j + 1) <= Len(Dump(t))
  BY <1>1, <1>3, <1>5, <1>6, <1>7
<1>9. QED
  BY <1>1, <1>2, <1>3, <1>5, <1>6, <1>8

\* All of its cells are those of the byte.
LEMMA FourCells ==
  ASSUME NEW t \in Seq(Byte), t # <<>>, NEW l \in 0..Bottom(t), NEW j \in 0..(Held(t, l) - 1),
         NEW b \in Byte, NEW y \in Seq(Cells), Len(y) = Len(Dump(t)),
         y[Top(l) + (3 * j + 1)] = Code[b][1], y[Top(l) + (3 * j + 2)] = Code[b][2],
         y[Top(l) + (Ascii + j + 1)] = Shown(b),
         \A z \in 1..Len(y) :
           z # Top(l) + (3 * j + 1) /\ z # Top(l) + (3 * j + 2) /\ z # Top(l) + (Ascii + j + 1)
             => y[z] = Dump(t)[z]
  PROVE  y = Dump([t EXCEPT ![Row(PerLine, l) + j + 1] = b])
<1>1. /\ j \in 0..(PerLine - 1) /\ Top(l) \in Nat
      /\ Top(l) + (Ascii + j + 1) <= Len(Dump(t))
      /\ Ascii \in Nat /\ 3 * j + 3 <= Ascii /\ Len(Dump(t)) \in Nat
  BY SpotInside
<1>2. y[Top(l) + (3 * j + 3)] = " "
  <2>1. Dump(t)[Top(l) + (3 * j + 3)] = " "
    BY CellsAre
  <2> DEFINE z == Top(l) + (3 * j + 3)
  <2>2. /\ z \in 1..Len(y) /\ z # Top(l) + (3 * j + 1) /\ z # Top(l) + (3 * j + 2)
        /\ z # Top(l) + (Ascii + j + 1)
    <3>1. j \in Nat
      BY <1>1
    <3>2. QED
      BY <1>1, <3>1, BlankOffset
  <2> HIDE DEF z
  <2>3. y[z] = Dump(t)[z]
    BY <2>2
  <2>4. QED
    BY <2>1, <2>3 DEF z
<1>3. /\ Sign(b, j, 3 * j + 1) = Code[b][1]
      /\ Sign(b, j, 3 * j + 2) = Code[b][2]
      /\ Sign(b, j, 3 * j + 3) = " "
      /\ Sign(b, j, Ascii + j + 1) = Shown(b)
  BY <1>1, SpotIs
<1>4. ASSUME NEW c \in Spot(j)
      PROVE  y[Top(l) + c] = Sign(b, j, c)
  <2>1. c = 3 * j + 1 \/ c = 3 * j + 2 \/ c = 3 * j + 3 \/ c = Ascii + j + 1
    BY Zenon DEF Spot
  <2>2. QED
    BY <1>2, <1>3, <2>1, Zenon
<1>5. ASSUME NEW z \in 1..Len(y), z \notin Places(l, j)
      PROVE  y[z] = Dump(t)[z]
  <2>1. 3 * j + 1 \in Spot(j) /\ 3 * j + 2 \in Spot(j) /\ Ascii + j + 1 \in Spot(j)
    BY DEF Spot
  <2>2. z # Top(l) + (3 * j + 1) /\ z # Top(l) + (3 * j + 2) /\ z # Top(l) + (Ascii + j + 1)
    BY <1>5, <2>1, Zenon DEF Places
  <2>3. QED
    BY <2>2, Zenon
<1>6. QED
  BY <1>4, <1>5, ReplacedIs

\* The places of the two fields in a line of the dump, one by one.
Spaced(p, q, T, a, j, n) ==
  /\ p \in 0..n /\ p < n /\ p + 1 = T + (a + j + 1) /\ p + 1 \in 1..n
  /\ q \in 0..n /\ q \in Nat /\ q + 2 <= n /\ q < n
  /\ q + 1 = T + (3 * j + 1) /\ q + 2 = T + (3 * j + 2)
  /\ q + 1 # p + 1 /\ q + 2 # p + 1 /\ q + 1 # q + 2
  /\ q + 1 \in 1..n /\ q + 2 \in 1..n
  /\ q + 1 \in 0..n /\ q + 1 < n /\ (q + 1) + 1 = q + 2

\* The cells of a byte are within the text, and apart.
LEMMA Offsets ==
  ASSUME NEW T \in Nat, NEW a \in Nat, NEW j \in Nat, NEW n \in Nat,
         NEW p, NEW q, p = T + (a + j), q = T + 3 * j,
         T + (a + j + 1) <= n, 3 * j + 3 <= a
  PROVE  Spaced(p, q, T, a, j, n)
BY DEF Spaced

\* A byte that is replaced in the ascii field.
LEMMA InAscii ==
  ASSUME NEW t \in Seq(Byte), t # <<>>, NEW l \in 0..Bottom(t), NEW j \in 0..(Held(t, l) - 1),
         NEW b \in Byte, Shown(b) = b
  PROVE  Put(Put(Dump(t), Top(l) + (Ascii + j), <<b>>), Top(l) + 3 * j, Code[b])
           = Dump([t EXCEPT ![Row(PerLine, l) + j + 1] = b])
<1> DEFINE x == Dump(t)
           p == Top(l) + (Ascii + j)
           q == Top(l) + 3 * j
           one == Put(x, p, <<b>>)
           y == Put(one, q, Code[b])
<1>1. /\ j \in Nat /\ Top(l) \in Nat
      /\ Top(l) + (Ascii + j + 1) <= Len(x)
      /\ Ascii \in Nat /\ 3 * j + 3 <= Ascii /\ Len(x) \in Nat /\ x \in Seq(Cells)
  BY SpotInside
<1>2. Spaced(p, q, Top(l), Ascii, j, Len(x))
  <2>1. p = Top(l) + (Ascii + j) /\ q = Top(l) + 3 * j
    OBVIOUS
  <2> HIDE DEF x, p, q
  <2>2. QED
    BY <1>1, <2>1, Offsets
<1>3. b \in Cells
  BY DEF Cells
<1> HIDE DEF x, p, q, one, y
<1>4. /\ one \in Seq(Cells) /\ Len(one) = Len(x) /\ one[p + 1] = b
      /\ \A k \in 1..Len(x) : k # p + 1 => one[k] = x[k]
  <2>1. /\ one \in Seq(Cells)
        /\ Len(one) = IF p < Len(x) THEN Len(x) ELSE p + 1
        /\ one[p + 1] = b
        /\ \A k \in 1..Len(x) : k # p + 1 => one[k] = x[k]
    BY <1>1, <1>2, <1>3, PutOne DEF Spaced, one
  <2>2. QED
    BY <1>2, <2>1 DEF Spaced
<1>5. /\ y \in Seq(Cells) /\ Len(y) = Len(one)
      /\ y[q + 1] = Code[b][1] /\ y[q + 2] = Code[b][2]
      /\ \A k \in 1..Len(one) : k # q + 1 /\ k # q + 2 => y[k] = one[k]
  <2>1. q + 2 <= Len(one)
    BY <1>2, <1>4 DEF Spaced
  <2>2. QED
    BY <1>2, <1>4, <2>1, PutCode DEF Spaced, y
<1>6. y[p + 1] = Shown(b)
  BY <1>2, <1>4, <1>5 DEF Spaced
<1>7. \A z \in 1..Len(y) : z # q + 1 /\ z # q + 2 /\ z # p + 1 => y[z] = x[z]
  BY <1>4, <1>5
<1>8. y = Dump([t EXCEPT ![Row(PerLine, l) + j + 1] = b])
  <2>1. /\ y[Top(l) + (3 * j + 1)] = Code[b][1] /\ y[Top(l) + (3 * j + 2)] = Code[b][2]
        /\ y[Top(l) + (Ascii + j + 1)] = Shown(b)
        /\ \A z \in 1..Len(y) :
             z # Top(l) + (3 * j + 1) /\ z # Top(l) + (3 * j + 2) /\ z # Top(l) + (Ascii + j + 1)
               => y[z] = Dump(t)[z]
    BY <1>2, <1>5, <1>6, <1>7, Zenon DEF Spaced, x
  <2>2. y \in Seq(Cells) /\ Len(y) = Len(Dump(t))
    BY <1>4, <1>5 DEF x
  <2>3. QED
    BY <2>1, <2>2, FourCells
<1>9. QED
  BY <1>8 DEF y, one, p, q, x

\* A byte that is replaced in the hex field.
LEMMA InHex ==
  ASSUME NEW t \in Seq(Byte), t # <<>>, NEW l \in 0..Bottom(t), NEW j \in 0..(Held(t, l) - 1),
         NEW b \in Byte
  PROVE  Put(Put(Dump(t), Top(l) + 3 * j, Code[b]), Top(l) + (Ascii + j), <<Shown(b)>>)
           = Dump([t EXCEPT ![Row(PerLine, l) + j + 1] = b])
<1> DEFINE x == Dump(t)
           p == Top(l) + (Ascii + j)
           q == Top(l) + 3 * j
           one == Put(x, q, Code[b])
           e == Shown(b)
           y == Put(one, p, <<e>>)
<1>1. /\ j \in Nat /\ Top(l) \in Nat
      /\ Top(l) + (Ascii + j + 1) <= Len(x)
      /\ Ascii \in Nat /\ 3 * j + 3 <= Ascii /\ Len(x) \in Nat /\ x \in Seq(Cells)
  BY SpotInside
<1>2. Spaced(p, q, Top(l), Ascii, j, Len(x))
  <2>1. p = Top(l) + (Ascii + j) /\ q = Top(l) + 3 * j
    OBVIOUS
  <2> HIDE DEF x, p, q
  <2>2. QED
    BY <1>1, <2>1, Offsets
<1>3. e \in Cells
  BY ShownIs
<1> HIDE DEF x, p, q, one, y, e
<1>4. /\ one \in Seq(Cells) /\ Len(one) = Len(x)
      /\ one[q + 1] = Code[b][1] /\ one[q + 2] = Code[b][2]
      /\ \A k \in 1..Len(x) : k # q + 1 /\ k # q + 2 => one[k] = x[k]
  BY <1>1, <1>2, PutCode DEF Spaced, one
<1>5. /\ y \in Seq(Cells) /\ Len(y) = Len(one) /\ y[p + 1] = e
      /\ \A k \in 1..Len(one) : k # p + 1 => y[k] = one[k]
  <2>1. p \in 0..Len(one) /\ p < Len(one)
    BY <1>2, <1>4 DEF Spaced
  <2>2. /\ y \in Seq(Cells)
        /\ Len(y) = IF p < Len(one) THEN Len(one) ELSE p + 1
        /\ y[p + 1] = e
        /\ \A k \in 1..Len(one) : k # p + 1 => y[k] = one[k]
    BY <1>3, <1>4, <2>1, PutOne DEF y
  <2>3. QED
    BY <2>1, <2>2
<1>6. y[q + 1] = Code[b][1] /\ y[q + 2] = Code[b][2]
  BY <1>2, <1>4, <1>5 DEF Spaced
<1>7. \A z \in 1..Len(y) : z # q + 1 /\ z # q + 2 /\ z # p + 1 => y[z] = x[z]
  BY <1>4, <1>5
<1>8. y = Dump([t EXCEPT ![Row(PerLine, l) + j + 1] = b])
  <2>1. /\ y[Top(l) + (3 * j + 1)] = Code[b][1] /\ y[Top(l) + (3 * j + 2)] = Code[b][2]
        /\ y[Top(l) + (Ascii + j + 1)] = Shown(b)
        /\ \A z \in 1..Len(y) :
             z # Top(l) + (3 * j + 1) /\ z # Top(l) + (3 * j + 2) /\ z # Top(l) + (Ascii + j + 1)
               => y[z] = Dump(t)[z]
    BY <1>2, <1>5, <1>6, <1>7, Zenon DEF Spaced, x, e
  <2>2. y \in Seq(Cells) /\ Len(y) = Len(Dump(t))
    BY <1>4, <1>5 DEF x
  <2>3. QED
    BY <2>1, <2>2, FourCells
<1>9. QED
  BY <1>8 DEF y, one, p, q, x, e

\* The second digit of a byte, whose first one stays.
LEMMA InSecond ==
  ASSUME NEW t \in Seq(Byte), t # <<>>, NEW l \in 0..Bottom(t), NEW j \in 0..(Held(t, l) - 1),
         NEW b \in Byte, NEW d \in Digit,
         Code[b][1] = Dump(t)[Top(l) + (3 * j + 1)], Code[b][2] = d
  PROVE  Put(Put(Dump(t), Top(l) + (3 * j + 1), <<d>>), Top(l) + (Ascii + j), <<Shown(b)>>)
           = Dump([t EXCEPT ![Row(PerLine, l) + j + 1] = b])
<1> DEFINE x == Dump(t)
           p == Top(l) + (Ascii + j)
           q == Top(l) + 3 * j
           r == q + 1
           one == Put(x, r, <<d>>)
           e == Shown(b)
           y == Put(one, p, <<e>>)
<1>1. /\ j \in Nat /\ Top(l) \in Nat
      /\ Top(l) + (Ascii + j + 1) <= Len(x)
      /\ Ascii \in Nat /\ 3 * j + 3 <= Ascii /\ Len(x) \in Nat /\ x \in Seq(Cells)
  BY SpotInside
<1>2. Spaced(p, q, Top(l), Ascii, j, Len(x))
  <2>1. p = Top(l) + (Ascii + j) /\ q = Top(l) + 3 * j
    OBVIOUS
  <2> HIDE DEF x, p, q
  <2>2. QED
    BY <1>1, <2>1, Offsets
<1>3. e \in Cells /\ d \in Cells
  BY ShownIs DEF Cells
<1>4. /\ r \in 0..Len(x) /\ r < Len(x) /\ r = Top(l) + (3 * j + 1)
      /\ r + 1 = Top(l) + (3 * j + 2) /\ r # p + 1 /\ r + 1 # p + 1 /\ r # r + 1
      /\ r \in 1..Len(x) /\ r + 1 \in 1..Len(x)
  BY <1>2 DEF Spaced
<1> HIDE DEF x, p, q, r, one, y, e
<1>5. /\ one \in Seq(Cells) /\ Len(one) = Len(x) /\ one[r + 1] = d
      /\ \A k \in 1..Len(x) : k # r + 1 => one[k] = x[k]
  <2>1. /\ one \in Seq(Cells)
        /\ Len(one) = IF r < Len(x) THEN Len(x) ELSE r + 1
        /\ one[r + 1] = d
        /\ \A k \in 1..Len(x) : k # r + 1 => one[k] = x[k]
    <3>1. r \in 0..Len(x)
      BY <1>4
    <3>2. QED
      BY <1>1, <1>3, <3>1, PutOne DEF one
  <2>2. QED
    BY <1>4, <2>1
<1>6. /\ y \in Seq(Cells) /\ Len(y) = Len(one) /\ y[p + 1] = e
      /\ \A k \in 1..Len(one) : k # p + 1 => y[k] = one[k]
  <2>1. p \in 0..Len(one) /\ p < Len(one)
    BY <1>2, <1>5 DEF Spaced
  <2>2. /\ y \in Seq(Cells)
        /\ Len(y) = IF p < Len(one) THEN Len(one) ELSE p + 1
        /\ y[p + 1] = e
        /\ \A k \in 1..Len(one) : k # p + 1 => y[k] = one[k]
    BY <1>3, <1>5, <2>1, PutOne DEF y
  <2>3. QED
    BY <2>1, <2>2
<1>7. y[r] = x[r] /\ y[r + 1] = d
  BY <1>4, <1>5, <1>6
<1>8. \A z \in 1..Len(y) : z # r /\ z # r + 1 /\ z # p + 1 => y[z] = x[z]
  BY <1>5, <1>6
<1>9. y = Dump([t EXCEPT ![Row(PerLine, l) + j + 1] = b])
  <2>1. /\ y[Top(l) + (3 * j + 1)] = Code[b][1] /\ y[Top(l) + (3 * j + 2)] = Code[b][2]
        /\ y[Top(l) + (Ascii + j + 1)] = Shown(b)
        /\ \A z \in 1..Len(y) :
             z # Top(l) + (3 * j + 1) /\ z # Top(l) + (3 * j + 2) /\ z # Top(l) + (Ascii + j + 1)
               => y[z] = Dump(t)[z]
    BY <1>2, <1>4, <1>6, <1>7, <1>8, Zenon DEF x, e, Spaced
  <2>2. y \in Seq(Cells) /\ Len(y) = Len(Dump(t))
    BY <1>5, <1>6 DEF x
  <2>3. QED
    BY <2>1, <2>2, FourCells
<1>10. QED
  BY <1>4, <1>9 DEF y, one, p, r, x, e

-----------------------------------------------------------------------------
(* Texts that look like a dump, also when they are another one.            *)

\* Where the lines of a text start, less one.
Starts(t) == {0} \cup Newlines(t)

\* A line that starts at s has a hex field, and behind this the signs of the
\* bytes that are in it.
Solid(t, s) ==
  /\ s + Ascii < Len(t)
  /\ \A k \in 1..Ascii : t[s + k] \in Digit \cup {" "}
  /\ \A j \in 0..(PerLine - 1) :
       /\ t[s + (3 * j + 3)] = " "
       /\ t[s + (3 * j + 1)] # " " \/ t[s + (3 * j + 2)] # " "
            => s + Ascii + j < Len(t) /\ \A i \in 0..j : t[s + (Ascii + i + 1)] # Nl

Looks(t) ==
  t = <<>> \/ (t[1] \in Digit /\ t[2] \in Digit /\ \A s \in Starts(t) : Solid(t, s))

\* What the component may show, in hex mode or not.
Ok(t) == t \in Seq(Cells) /\ (t \in Seq(Byte) \/ Looks(t))

\* A dump looks like one.
LEMMA LooksDump ==
  ASSUME NEW t \in Seq(Byte)
  PROVE  Dump(t) \in Seq(Cells) /\ Looks(Dump(t))
<1>1. CASE t = <<>>
  <2>1. Dump(t) = <<>> /\ <<>> \in Seq(Cells)
    BY <1>1, DumpOfNone
  <2>2. QED
    BY <2>1 DEF Looks
<1>2. CASE t # <<>>
  <2> DEFINE x == Dump(t)
             m == Bottom(t)
  <2>1. x \in Seq(Cells) /\ Len(x) \in Nat /\ m \in Nat /\ Len(x) > Top(m) + Ascii
    BY <1>2, DumpSize
  <2>2. Ascii \in Nat /\ PerLine \in Nat /\ PerLine >= 1 /\ Ascii = 3 * PerLine
        /\ Width = Ascii + PerLine
    BY Sizes
  <2>3. ASSUME NEW s \in Starts(x)
        PROVE  \E l \in 0..m : s = Top(l)
    <3>1. s = 0 \/ s \in Tops(m)
      BY <1>2, DumpNewlines DEF Starts
    <3>2. CASE s = 0
      <4>1. s = Top(0) /\ 0 \in 0..m
        BY <2>1, <3>2, TopIs
      <4>2. QED
        BY <4>1
    <3>3. CASE s \in Tops(m)
      <4>1. PICK l \in 1..m : s = Top(l)
        BY <3>3 DEF Tops
      <4>2. l \in 0..m
        BY <2>1
      <4>3. QED
        BY <4>1, <4>2
    <3>4. QED
      BY <3>1, <3>2, <3>3
  <2>4. ASSUME NEW l \in 0..m
        PROVE  Solid(x, Top(l))
    <3> DEFINE n == Held(t, l)
               o == Row(PerLine, l)
               s == Top(l)
    <3>1. l \in Nat /\ s \in Nat /\ n \in 1..PerLine
      <4>1. l \in Nat
        BY <2>1
      <4>2. QED
        BY <1>2, <4>1, TopIs, CellsAre
    <3>2. s + Len(LineAt(t, l)) <= Len(x)
          /\ Len(LineAt(t, l)) = Ascii + n + (IF l < m THEN 1 ELSE 0)
      BY <1>2, DumpSize, CellsAre
    <3>3. s + (Ascii + n) <= Len(x)
      BY <2>1, <2>2, <3>1, <3>2
    <3>4. \A j \in 0..(n - 1) :
            /\ t[o + j + 1] \in Byte
            /\ x[s + (3 * j + 1)] = Code[t[o + j + 1]][1]
            /\ x[s + (3 * j + 2)] = Code[t[o + j + 1]][2]
            /\ x[s + (3 * j + 3)] = " "
            /\ x[s + (Ascii + j + 1)] = Shown(t[o + j + 1])
      BY <1>2, CellsAre
    <3>5. \A k \in (3 * n + 1)..Ascii : x[s + k] = " "
      BY <1>2, CellsAre
    <3> HIDE DEF n, o, s
    <3>6. \A j \in 0..(n - 1) : /\ x[s + (3 * j + 1)] \in Digit
                                /\ x[s + (3 * j + 2)] \in Digit
                                /\ x[s + (3 * j + 3)] = " "
                                /\ x[s + (Ascii + j + 1)] # Nl
      BY <3>4, CodeIs, ShownIs
    <3>7. \A j \in 0..(PerLine - 1) : x[s + (3 * j + 3)] = " "
      <4>1. ASSUME NEW j \in 0..(PerLine - 1)
            PROVE  x[s + (3 * j + 3)] = " "
        <5>1. CASE j < n
          <6>1. j \in 0..(n - 1)
            BY <2>2, <3>1, <5>1
          <6>2. QED
            BY <3>6, <6>1
        <5>2. CASE ~ (j < n)
          <6>1. 3 * j + 3 \in (3 * n + 1)..Ascii
            BY <2>2, <3>1, <5>2
          <6>2. QED
            BY <3>5, <6>1
        <5>3. QED
          BY <5>1, <5>2
      <4>2. QED
        BY <4>1
    <3>8. ASSUME NEW k \in 1..Ascii
          PROVE  x[s + k] \in Digit \cup {" "}
      <4> DEFINE j == (k - 1) \div 3
                 r == (k - 1) % 3
      <4>1. j \in Nat /\ r \in 0..2 /\ k = 3 * j + r + 1
        <5>1. k - 1 \in Nat /\ k = (k - 1) + 1
          BY <2>2
        <5>2. \A d \in Nat : d \div 3 \in Nat /\ d % 3 \in 0..2 /\ d = 3 * (d \div 3) + (d % 3)
          OBVIOUS
        <5>3. QED
          BY <5>1, <5>2
      <4> HIDE DEF j, r
      <4>2. k = 3 * j + 1 \/ k = 3 * j + 2 \/ k = 3 * j + 3
        BY <4>1
      <4>3. CASE j < n
        <5>1. j \in 0..(n - 1)
          BY <3>1, <4>1, <4>3
        <5>2. QED
          BY <3>6, <4>2, <5>1
      <4>4. CASE ~ (j < n)
        <5>1. k \in (3 * n + 1)..Ascii
          BY <2>2, <3>1, <4>1, <4>4
        <5>2. QED
          BY <3>5, <5>1
      <4>5. QED
        BY <4>3, <4>4
    <3>9. ASSUME NEW j \in 0..(PerLine - 1),
                 x[s + (3 * j + 1)] # " " \/ x[s + (3 * j + 2)] # " "
          PROVE  s + Ascii + j < Len(x) /\ \A i \in 0..j : x[s + (Ascii + i + 1)] # Nl
      <4>1. j < n
        <5>1. ASSUME ~ (j < n)
              PROVE  FALSE
          <6>1. 3 * j + 1 \in (3 * n + 1)..Ascii /\ 3 * j + 2 \in (3 * n + 1)..Ascii
            BY <2>2, <3>1, <5>1
          <6>2. x[s + (3 * j + 1)] = " " /\ x[s + (3 * j + 2)] = " "
            BY <3>5, <6>1
          <6>3. QED
            BY <3>9, <6>2
        <5>2. QED
          BY <5>1
      <4>2. s + Ascii + j < Len(x)
        BY <2>1, <2>2, <3>1, <3>3, <4>1
      <4>3. \A i \in 0..j : i \in 0..(n - 1)
        BY <2>2, <3>1, <4>1
      <4>4. QED
        BY <3>6, <4>2, <4>3
    <3>10. s + Ascii < Len(x)
      BY <2>1, <2>2, <3>1, <3>3
    <3>11. Solid(x, s)
      BY <3>7, <3>8, <3>9, <3>10 DEF Solid
    <3>12. QED
      BY <3>11 DEF s
  <2>5. x[1] \in Digit /\ x[2] \in Digit
    <3>1. 0 \in 0..m
      BY <2>1
    <3>2. Held(t, 0) \in 1..PerLine
      BY <1>2, <3>1, CellsAre
    <3>3. 0 \in 0..(Held(t, 0) - 1)
      BY <2>2, <3>2
    <3> DEFINE o == Row(PerLine, 0)
               b == t[o + 0 + 1]
    <3>4. /\ b \in Byte
          /\ x[Top(0) + (3 * 0 + 1)] = Code[b][1] /\ x[Top(0) + (3 * 0 + 2)] = Code[b][2]
      BY <1>2, <3>1, <3>3, CellsAre, Zenon
    <3>5. Top(0) + (3 * 0 + 1) = 1 /\ Top(0) + (3 * 0 + 2) = 2
      <4>1. Top(0) = 0
        BY TopIs
      <4>2. QED
        BY <4>1
    <3> HIDE DEF b, x
    <3>6. QED
      BY <3>4, <3>5, CodeIs
  <2>6. QED
    BY <2>1, <2>3, <2>4, <2>5 DEF Looks
<1>3. QED
  BY <1>1, <1>2

\* Whether a text is that of the hex mode is seen from its first line.
LEMMA LooksIsDump ==
  ASSUME NEW t, Ok(t)
  PROVE  IF IsDump(t) THEN t # <<>> /\ Looks(t) /\ t \notin Seq(Byte) ELSE t \in Seq(Byte)
<1>1. Ascii \in Nat /\ Ascii >= 3 /\ PerLine \in Nat /\ PerLine >= 1 /\ Ascii = 3 * PerLine
  BY Sizes
<1>2. t \in Seq(Cells) /\ Len(t) \in Nat
  BY DEF Ok
<1>3. CASE t = <<>>
  <2>1. Len(t) = 0
    BY <1>3, EmptySeq
  <2>2. ~ IsDump(t)
    <3>1. IsDump(t) => Len(t) > Ascii
      BY DEF IsDump
    <3>2. QED
      BY <1>1, <2>1, <3>1
  <2>3. t \in Seq(Byte)
    BY <1>3
  <2>4. QED
    BY <2>2, <2>3
<1>4. CASE t # <<>> /\ t \in Seq(Byte)
  <2>1. IsDump(t) => t[1] \in Byte /\ t[1] \in Digit
    <3>1. Len(t) > Ascii => 1 \in 1..Len(t)
      BY <1>1, <1>2
    <3>2. QED
      BY <1>4, <3>1, ElementOfSeq DEF IsDump
  <2>2. ~ IsDump(t)
    BY <2>1, Apart
  <2>3. QED
    BY <1>4, <2>2
<1>5. CASE t # <<>> /\ t \notin Seq(Byte)
  <2>1. Looks(t) /\ t[1] \in Digit /\ t[2] \in Digit /\ Solid(t, 0)
    BY <1>5 DEF Ok, Looks, Starts
  <2>2. Len(t) > Ascii
    <3>1. 0 + Ascii < Len(t)
      BY <2>1 DEF Solid
    <3>2. QED
      BY <1>1, <1>2, <3>1
  <2>3. \A k \in 1..Ascii : t[k] \in Digit \cup {" "}
    <3>1. \A k \in 1..Ascii : t[0 + k] \in Digit \cup {" "}
      BY <2>1 DEF Solid
    <3>2. \A k \in 1..Ascii : 0 + k = k
      BY <1>1
    <3>3. QED
      BY <3>1, <3>2
  <2>4. t[3] = " "
    <3>1. 0 \in 0..(PerLine - 1) /\ 0 + (3 * 0 + 3) = 3
      BY <1>1
    <3>2. t[0 + (3 * 0 + 3)] = " "
      BY <2>1, <3>1 DEF Solid
    <3>3. QED
      BY <3>1, <3>2
  <2>5. IsDump(t)
    BY <2>1, <2>2, <2>3, <2>4, Zenon DEF IsDump
  <2>6. QED
    BY <1>5, <2>1, <2>5
<1>6. QED
  BY <1>3, <1>4, <1>5

\* A change of a byte's cells, in a line that starts at a.
Alters(t, y, a, e) ==
  /\ Len(t) <= Len(y) /\ a + (Ascii + e + 1) <= Len(y)
  /\ \A z \in 1..Len(y) :
       \/ z \in 1..Len(t) /\ y[z] = t[z]
       \/ (z = a + (3 * e + 1) \/ z = a + (3 * e + 2)) /\ y[z] \in Digit
       \/ z = a + (Ascii + e + 1) /\ y[z] # Nl
  /\ \A i \in 0..e : y[a + (Ascii + i + 1)] # Nl

\* The hex fields keep their cells, but for the digits of that byte.
LEMMA AltersCells ==
  ASSUME NEW t \in Seq(Cells), NEW y \in Seq(Cells), NEW a \in Starts(t), NEW s \in Starts(t),
         NEW e \in 0..(PerLine - 1), Solid(t, a), Solid(t, s), Alters(t, y, a, e),
         s \in Starts(y), NEW k \in 1..Ascii
  PROVE  \/ y[s + k] = t[s + k]
         \/ s = a /\ (k = 3 * e + 1 \/ k = 3 * e + 2) /\ y[s + k] \in Digit
<1>1. Ascii \in Nat /\ PerLine \in Nat /\ Ascii = 3 * PerLine
  BY Sizes
<1>2. Len(t) \in Nat /\ Len(y) \in Nat /\ DOMAIN t = 1..Len(t) /\ DOMAIN y = 1..Len(y)
  OBVIOUS
<1>3. /\ s \in Nat /\ a \in Nat /\ e \in Nat /\ 3 * e + 3 <= Ascii /\ k \in Nat
      /\ (a = 0 \/ (a \in 1..Len(t) /\ t[a] = Nl))
      /\ (s = 0 \/ (s \in 1..Len(y) /\ y[s] = Nl))
  BY <1>1, <1>2 DEF Starts, Newlines
<1>4. s + Ascii < Len(t) /\ Len(t) <= Len(y)
  BY DEF Solid, Alters
<1>5. s + k \in 1..Len(y) /\ s + k \in 1..Len(t)
  BY <1>1, <1>2, <1>3, <1>4
<1>6. \/ y[s + k] = t[s + k]
      \/ (s + k = a + (3 * e + 1) \/ s + k = a + (3 * e + 2)) /\ y[s + k] \in Digit
      \/ s + k = a + (Ascii + e + 1)
  <2> DEFINE z == s + k
  <2>1. z \in 1..Len(y)
    BY <1>5
  <2> HIDE DEF z
  <2>2. \/ y[z] = t[z]
        \/ (z = a + (3 * e + 1) \/ z = a + (3 * e + 2)) /\ y[z] \in Digit
        \/ z = a + (Ascii + e + 1)
    BY <2>1 DEF Alters
  <2>3. QED
    BY <2>2 DEF z
<1>7. CASE s = a
  <2>1. s + k # a + (Ascii + e + 1)
    BY <1>1, <1>3, <1>7
  <2>2. s + k = a + (3 * e + 1) => k = 3 * e + 1
    BY <1>3, <1>7
  <2>3. s + k = a + (3 * e + 2) => k = 3 * e + 2
    BY <1>3, <1>7
  <2>4. QED
    BY <1>6, <1>7, <2>1, <2>2, <2>3
<1>8. CASE s < a
  <2>1. t[a] = Nl
    BY <1>3, <1>8
  <2>2. ~ (a <= s + Ascii)
    <3>1. ASSUME a <= s + Ascii
          PROVE  FALSE
      <4> DEFINE i == a - s
      <4>1. i \in 1..Ascii /\ s + i = a
        BY <1>1, <1>3, <1>8, <3>1
      <4> HIDE DEF i
      <4>2. t[s + i] \in Digit \cup {" "}
        BY <4>1 DEF Solid
      <4>3. QED
        BY <2>1, <4>1, <4>2, Apart
    <3>2. QED
      BY <3>1
  <2>3. /\ s + k # a + (Ascii + e + 1) /\ s + k # a + (3 * e + 1)
        /\ s + k # a + (3 * e + 2)
    BY <1>1, <1>3, <2>2
  <2>4. QED
    BY <1>6, <2>3
<1>9. CASE a < s
  <2>1. y[s] = Nl /\ s \in 1..Len(y) /\ s \in 1..Len(t)
    BY <1>1, <1>2, <1>3, <1>4, <1>9
  <2>2. t[s] = Nl
    <3>1. \/ y[s] = t[s] \/ y[s] \in Digit \/ y[s] # Nl
      BY <2>1 DEF Alters
    <3>2. QED
      BY <2>1, <3>1, Apart
  <2>3. ~ (s <= a + Ascii)
    <3>1. ASSUME s <= a + Ascii
          PROVE  FALSE
      <4> DEFINE i == s - a
      <4>1. i \in 1..Ascii /\ a + i = s
        BY <1>1, <1>3, <1>9, <3>1
      <4> HIDE DEF i
      <4>2. t[a + i] \in Digit \cup {" "}
        BY <4>1 DEF Solid
      <4>3. QED
        BY <2>2, <4>1, <4>2, Apart
    <3>2. QED
      BY <3>1
  <2>4. ~ (s <= a + (Ascii + e + 1))
    <3>1. ASSUME s <= a + (Ascii + e + 1)
          PROVE  FALSE
      <4> DEFINE i == s - a - Ascii - 1
      <4>1. i \in 0..e /\ a + (Ascii + i + 1) = s
        BY <1>1, <1>3, <1>9, <2>3, <3>1
      <4> HIDE DEF i
      <4>2. y[a + (Ascii + i + 1)] # Nl
        BY <4>1 DEF Alters
      <4>3. QED
        BY <2>1, <4>1, <4>2
    <3>2. QED
      BY <3>1
  <2>5. /\ s + k # a + (Ascii + e + 1) /\ s + k # a + (3 * e + 1)
        /\ s + k # a + (3 * e + 2)
    BY <1>1, <1>3, <2>4
  <2>6. QED
    BY <1>6, <2>5
<1>10. QED
  BY <1>3, <1>7, <1>8, <1>9

\* A text that looks like a dump still does after a byte was changed.
LEMMA AltersLooks ==
  ASSUME NEW t \in Seq(Cells), NEW y \in Seq(Cells), t # <<>>, Looks(t), NEW a \in Starts(t),
         NEW e \in 0..(PerLine - 1), Alters(t, y, a, e)
  PROVE  Looks(y)
<1>1. Ascii \in Nat /\ PerLine \in Nat /\ PerLine >= 1 /\ Ascii = 3 * PerLine
  BY Sizes
<1>2. Len(t) \in Nat /\ Len(y) \in Nat /\ DOMAIN t = 1..Len(t) /\ DOMAIN y = 1..Len(y)
  OBVIOUS
<1>3. t[1] \in Digit /\ t[2] \in Digit /\ \A s \in Starts(t) : Solid(t, s)
  BY DEF Looks
<1>4. \A z \in 1..Len(t) : z \in 1..Len(y) /\ (t[z] # Nl => y[z] # Nl)
  <2>1. Len(t) <= Len(y)
    BY DEF Alters
  <2>2. \A z \in 1..Len(t) : z \in 1..Len(y)
    BY <1>2, <2>1
  <2>3. \A z \in 1..Len(y) : y[z] = t[z] \/ y[z] \in Digit \/ y[z] # Nl
    BY DEF Alters
  <2>4. QED
    BY <2>2, <2>3, Apart
<1>5. Starts(y) \subseteq Starts(t)
  <2>1. ASSUME NEW z \in 1..Len(y), y[z] = Nl
        PROVE  z \in 1..Len(t) /\ t[z] = Nl
    <3>1. \/ z \in 1..Len(t) /\ y[z] = t[z]
          \/ y[z] \in Digit
          \/ y[z] # Nl
      BY DEF Alters
    <3>2. QED
      BY <2>1, <3>1, Apart
  <2>2. QED
    BY <1>2, <2>1 DEF Starts, Newlines
<1>6. ASSUME NEW s \in Starts(y)
      PROVE  Solid(y, s)
  <2>1. s \in Starts(t) /\ Solid(t, s) /\ Solid(t, a) /\ s \in Nat
    BY <1>2, <1>3, <1>5 DEF Starts, Newlines
  <2>2. \A k \in 1..Ascii : \/ y[s + k] = t[s + k]
                            \/ s = a /\ (k = 3 * e + 1 \/ k = 3 * e + 2) /\ y[s + k] \in Digit
    BY <2>1, <1>6, AltersCells
  <2>3. s + Ascii < Len(t) /\ Len(t) <= Len(y)
    BY <2>1 DEF Solid, Alters
  <2>4. s + Ascii < Len(y)
    BY <1>1, <1>2, <2>1, <2>3
  <2>5. \A k \in 1..Ascii : y[s + k] \in Digit \cup {" "}
    BY <2>1, <2>2 DEF Solid
  <2>6. ASSUME NEW j \in 0..(PerLine - 1)
        PROVE  y[s + (3 * j + 3)] = " "
    <3>1. 3 * j + 3 \in 1..Ascii /\ 3 * j + 3 # 3 * e + 1 /\ 3 * j + 3 # 3 * e + 2
      BY <1>1
    <3>2. t[s + (3 * j + 3)] = " "
      BY <2>1 DEF Solid
    <3>3. QED
      BY <2>2, <3>1, <3>2
  <2>7. ASSUME NEW j \in 0..(PerLine - 1),
               y[s + (3 * j + 1)] # " " \/ y[s + (3 * j + 2)] # " "
        PROVE  s + Ascii + j < Len(y) /\ \A i \in 0..j : y[s + (Ascii + i + 1)] # Nl
    <3>1. CASE s = a /\ j = e
      <4>1. a + (Ascii + e + 1) <= Len(y) /\ \A i \in 0..e : y[a + (Ascii + i + 1)] # Nl
        BY DEF Alters
      <4>2. s + Ascii + j < Len(y)
        BY <1>1, <1>2, <2>1, <3>1, <4>1
      <4>3. QED
        BY <3>1, <4>1, <4>2
    <3>2. CASE ~ (s = a /\ j = e)
      <4>1. /\ 3 * j + 1 \in 1..Ascii /\ 3 * j + 2 \in 1..Ascii
            /\ 3 * j + 1 # 3 * e + 2 /\ 3 * j + 2 # 3 * e + 1
            /\ (3 * j + 1 = 3 * e + 1 => j = e) /\ (3 * j + 2 = 3 * e + 2 => j = e)
        BY <1>1
      <4>2. y[s + (3 * j + 1)] = t[s + (3 * j + 1)] /\ y[s + (3 * j + 2)] = t[s + (3 * j + 2)]
        BY <2>2, <3>2, <4>1
      <4>3. s + Ascii + j < Len(t) /\ \A i \in 0..j : t[s + (Ascii + i + 1)] # Nl
        BY <2>1, <2>7, <4>2 DEF Solid
      <4>4. s + Ascii + j < Len(y)
        BY <1>1, <1>2, <2>1, <2>3, <4>3
      <4>5. \A i \in 0..j : s + (Ascii + i + 1) \in 1..Len(t)
        BY <1>1, <1>2, <2>1, <4>3
      <4>6. QED
        BY <1>4, <4>3, <4>4, <4>5
    <3>3. QED
      BY <3>1, <3>2
  <2>8. QED
    BY <2>4, <2>5, <2>6, <2>7 DEF Solid
<1>7. y[1] \in Digit /\ y[2] \in Digit
  <2>1. 0 \in Starts(t) /\ 0 \in Starts(y) /\ Solid(t, 0) /\ Solid(t, a)
    BY <1>3 DEF Starts
  <2>2. \A k \in 1..Ascii : y[0 + k] = t[0 + k] \/ y[0 + k] \in Digit
    BY <2>1, AltersCells
  <2>3. 1 \in 1..Ascii /\ 2 \in 1..Ascii /\ 0 + 1 = 1 /\ 0 + 2 = 2
    BY <1>1
  <2>4. QED
    BY <1>3, <2>2, <2>3
<1>8. QED
  BY <1>6, <1>7 DEF Looks

\* A character in the ascii field: one is the text with it, two with its
\* digits as well.
LEMMA AltersAscii ==
  ASSUME NEW t \in Seq(Cells), NEW pos \in 0..Len(t), NEW a \in Nat,
         \A i \in Newlines(t) : i <= pos => i <= a,
         NEW e \in 0..(PerLine - 1), pos = a + (Ascii + e), NEW c \in Byte
  PROVE  LET one == Put(t, pos, <<c>>)
             two == Put(one, a + 3 * e, Code[c])
         IN  /\ one \in Seq(Cells) /\ two \in Seq(Cells)
             /\ Alters(t, one, a, e) /\ Alters(t, two, a, e)
<1> DEFINE one == Put(t, pos, <<c>>)
           q == a + 3 * e
           two == Put(one, q, Code[c])
           p == a + (Ascii + e + 1)
<1>1. /\ Ascii \in Nat /\ PerLine \in Nat /\ Ascii = 3 * PerLine /\ e \in Nat /\ 3 * e + 3 <= Ascii
      /\ Len(t) \in Nat /\ DOMAIN t = 1..Len(t) /\ pos \in Nat /\ pos <= Len(t)
  BY Sizes
<1>2. c \in Cells /\ c # Nl
  BY Apart DEF Cells
<1>3. /\ p = pos + 1 /\ q \in Nat /\ q + 2 <= pos /\ p \in Nat
      /\ q + 1 = a + (3 * e + 1) /\ q + 2 = a + (3 * e + 2)
  BY <1>1
<1>4. ASSUME NEW i \in 0..e, i # e
      PROVE  /\ a + (Ascii + i + 1) \in 1..Len(t) /\ a + (Ascii + i + 1) # p
             /\ a + (Ascii + i + 1) # q + 1 /\ a + (Ascii + i + 1) # q + 2
             /\ t[a + (Ascii + i + 1)] # Nl
  <2> DEFINE z == a + (Ascii + i + 1)
  <2>1. z \in 1..Len(t) /\ z <= pos /\ ~ (z <= a) /\ z # p /\ z # q + 1 /\ z # q + 2
    BY <1>1, <1>3, <1>4
  <2> HIDE DEF z
  <2>2. t[z] # Nl
    BY <1>1, <2>1 DEF Newlines
  <2>3. QED
    BY <2>1, <2>2 DEF z
<1> HIDE DEF one, two, p, q
<1>5. /\ one \in Seq(Cells) /\ Len(one) = (IF pos < Len(t) THEN Len(t) ELSE pos + 1)
      /\ one[pos + 1] = c
      /\ \A k \in 1..Len(t) : k # pos + 1 => one[k] = t[k]
  <2>1. pos \in 0..Len(t)
    OBVIOUS
  <2>2. c \in Cells
    BY <1>2
  <2>3. QED
    BY <2>1, <2>2, PutOne DEF one
<1>6. /\ Len(one) \in Nat /\ Len(t) <= Len(one) /\ p <= Len(one) /\ q + 2 <= Len(one)
      /\ one[p] = c
      /\ \A z \in 1..Len(one) : z # p => z \in 1..Len(t) /\ one[z] = t[z]
  <2>1. Len(one) \in Nat /\ Len(t) <= Len(one) /\ p <= Len(one) /\ q + 2 <= Len(one)
    BY <1>1, <1>3, <1>5
  <2>2. \A z \in 1..Len(one) : z # p => z \in 1..Len(t)
    BY <1>1, <1>3, <1>5
  <2>3. QED
    BY <1>3, <1>5, <2>1, <2>2
<1>7. Alters(t, one, a, e)
  <2>1. \A i \in 0..e : one[a + (Ascii + i + 1)] # Nl
    <3>1. ASSUME NEW i \in 0..e
          PROVE  one[a + (Ascii + i + 1)] # Nl
      <4>1. CASE i = e
        BY <1>2, <1>6, <4>1 DEF p
      <4>2. CASE i # e
        BY <1>3, <1>4, <1>5, <4>2
      <4>3. QED
        BY <4>1, <4>2
    <3>2. QED
      BY <3>1
  <2>2. \A z \in 1..Len(one) : \/ z \in 1..Len(t) /\ one[z] = t[z]
                               \/ z = p /\ one[z] # Nl
    <3>1. ASSUME NEW z \in 1..Len(one), z = p
          PROVE  one[z] # Nl
      BY <1>2, <1>6, <3>1
    <3>2. QED
      BY <1>6, <3>1
  <2>3. QED
    BY <1>6, <2>1, <2>2, Zenon DEF Alters, p
<1>8. /\ two \in Seq(Cells) /\ Len(two) = Len(one)
      /\ two[q + 1] = Code[c][1] /\ two[q + 2] = Code[c][2]
      /\ \A k \in 1..Len(one) : k # q + 1 /\ k # q + 2 => two[k] = one[k]
  <2>1. q \in Nat /\ q + 2 <= Len(one) /\ one \in Seq(Cells)
    BY <1>3, <1>5, <1>6
  <2>2. QED
    BY <2>1, PutCode DEF two
<1>9. two[q + 1] \in Digit /\ two[q + 2] \in Digit
  BY <1>8, CodeIs
<1>10. Alters(t, two, a, e)
  <2>1. p \in 1..Len(one) /\ p # q + 1 /\ p # q + 2
    BY <1>1, <1>3, <1>6
  <2>2. two[p] = c
    BY <1>6, <1>8, <2>1
  <2>3. \A i \in 0..e : two[a + (Ascii + i + 1)] # Nl
    <3>1. ASSUME NEW i \in 0..e
          PROVE  two[a + (Ascii + i + 1)] # Nl
      <4>1. CASE i = e
        BY <1>2, <2>2, <4>1 DEF p
      <4>2. CASE i # e
        <5> DEFINE z == a + (Ascii + i + 1)
        <5>1. z \in 1..Len(t) /\ z # p /\ z # q + 1 /\ z # q + 2 /\ t[z] # Nl
          BY <1>4, <4>2
        <5> HIDE DEF z
        <5>2. z \in 1..Len(one)
          BY <1>1, <1>6, <5>1
        <5>3. two[z] # Nl
          BY <1>6, <1>8, <5>1, <5>2
        <5>4. QED
          BY <5>3 DEF z
      <4>3. QED
        BY <4>1, <4>2
    <3>2. QED
      BY <3>1
  <2>4. \A z \in 1..Len(two) : \/ z \in 1..Len(t) /\ two[z] = t[z]
                               \/ (z = q + 1 \/ z = q + 2) /\ two[z] \in Digit
                               \/ z = p /\ two[z] # Nl
    BY <1>2, <1>6, <1>8, <1>9, <2>2
  <2>5. \A z \in 1..Len(two) :
          \/ z \in 1..Len(t) /\ two[z] = t[z]
          \/ (z = a + (3 * e + 1) \/ z = a + (3 * e + 2)) /\ two[z] \in Digit
          \/ z = a + (Ascii + e + 1) /\ two[z] # Nl
    BY <1>3, <2>4, Zenon DEF p
  <2>6. Len(t) <= Len(two) /\ a + (Ascii + e + 1) <= Len(two)
    BY <1>6, <1>8 DEF p
  <2>7. QED
    BY <2>3, <2>5, <2>6, Zenon DEF Alters
<1>11. QED
  BY <1>5, <1>7, <1>8, <1>10 DEF one, two, q

\* The byte at a place in the hex field is there if it has a digit.
Lit(t, a, e) ==
  /\ e \in 0..(PerLine - 1) /\ a \in Nat /\ t \in Seq(Cells)
  /\ a + Ascii + e < Len(t) /\ \A i \in 0..e : t[a + (Ascii + i + 1)] # Nl

\* Only its digits are others.
Redone(t, y, a, e) ==
  /\ y \in Seq(Cells) /\ Len(y) = Len(t)
  /\ \A z \in 1..Len(t) : \/ y[z] = t[z]
                          \/ (z = a + (3 * e + 1) \/ z = a + (3 * e + 2)) /\ y[z] \in Digit

\* Digits in the hex field, then what is shown of the byte.
LEMMA AltersHex ==
  ASSUME NEW t, NEW a, NEW e, Lit(t, a, e), NEW one, Redone(t, one, a, e), NEW g \in Cells, g # Nl
  PROVE  LET two == Put(one, a + (Ascii + e), <<g>>)
         IN  two \in Seq(Cells) /\ Alters(t, one, a, e) /\ Alters(t, two, a, e)
<1> DEFINE pos == a + (Ascii + e)
           two == Put(one, pos, <<g>>)
           p == a + (Ascii + e + 1)
<1>1. /\ one \in Seq(Cells) /\ Len(one) = Len(t)
      /\ \A z \in 1..Len(t) :
           \/ one[z] = t[z]
           \/ (z = a + (3 * e + 1) \/ z = a + (3 * e + 2)) /\ one[z] \in Digit
  BY Zenon DEF Redone
<1>2. /\ Ascii \in Nat /\ PerLine \in Nat /\ Ascii = 3 * PerLine
      /\ e \in Nat /\ 3 * e + 3 <= Ascii /\ a \in Nat /\ t \in Seq(Cells) /\ Len(t) \in Nat
      /\ a + Ascii + e < Len(t) /\ \A i \in 0..e : t[a + (Ascii + i + 1)] # Nl
  <2>1. /\ e \in 0..(PerLine - 1) /\ a \in Nat /\ t \in Seq(Cells)
        /\ a + Ascii + e < Len(t) /\ \A i \in 0..e : t[a + (Ascii + i + 1)] # Nl
    BY DEF Lit
  <2>2. Ascii \in Nat /\ PerLine \in Nat /\ Ascii = 3 * PerLine
    BY Sizes
  <2>3. QED
    BY <2>1, <2>2
<1>3. pos \in 0..Len(t) /\ pos < Len(t) /\ p = pos + 1 /\ p \in 1..Len(t)
  BY <1>2
<1>4. \A i \in 0..e : /\ a + (Ascii + i + 1) \in 1..Len(t)
                      /\ a + (Ascii + i + 1) # a + (3 * e + 1)
                      /\ a + (Ascii + i + 1) # a + (3 * e + 2)
  BY <1>2
<1> HIDE DEF pos, two, p
<1>5. /\ two \in Seq(Cells) /\ Len(two) = Len(t) /\ two[p] = g
      /\ \A k \in 1..Len(t) : k # p => two[k] = one[k]
  <2>1. one \in Seq(Cells)
    BY <1>1
  <2>2. pos \in 0..Len(one)
    BY <1>1, <1>3
  <2>3. /\ two \in Seq(Cells) /\ Len(two) = (IF pos < Len(one) THEN Len(one) ELSE pos + 1)
        /\ two[pos + 1] = g
        /\ \A k \in 1..Len(one) : k # pos + 1 => two[k] = one[k]
    BY <2>1, <2>2, PutOne DEF two
  <2>4. QED
    BY <1>1, <1>3, <2>3
<1>6. \A i \in 0..e : one[a + (Ascii + i + 1)] # Nl
  BY <1>1, <1>2, <1>4
<1>7. \A i \in 0..e : two[a + (Ascii + i + 1)] # Nl
  BY <1>4, <1>5, <1>6
<1>8. p <= Len(t) /\ Len(t) <= Len(t)
  BY <1>2, <1>3
<1>9. Alters(t, one, a, e)
  BY <1>1, <1>6, <1>8 DEF Alters, p
<1>10. \A z \in 1..Len(t) :
         \/ two[z] = t[z]
         \/ (z = a + (3 * e + 1) \/ z = a + (3 * e + 2)) /\ two[z] \in Digit
         \/ z = p /\ two[z] # Nl
  <2>1. ASSUME NEW z \in 1..Len(t), z # p
        PROVE  \/ two[z] = t[z]
               \/ (z = a + (3 * e + 1) \/ z = a + (3 * e + 2)) /\ two[z] \in Digit
    <3>1. two[z] = one[z]
      BY <1>5, <2>1
    <3>2. QED
      BY <1>1, <3>1
  <2>2. ASSUME NEW z \in 1..Len(t), z = p
        PROVE  two[z] # Nl
    <3>1. two[z] = g
      BY <1>5, <2>2
    <3>2. QED
      BY <3>1
  <2>3. TAKE z \in 1..Len(t)
  <2>4. CASE z = p
    <3>1. two[z] # Nl
      BY <2>2, <2>4
    <3>2. QED
      BY <2>4, <3>1, Zenon
  <2>5. CASE z # p
    <3>1. \/ two[z] = t[z]
          \/ (z = a + (3 * e + 1) \/ z = a + (3 * e + 2)) /\ two[z] \in Digit
      BY <2>1, <2>5
    <3>2. QED
      BY <3>1, Zenon
  <2>6. QED
    BY <2>4, <2>5, Zenon
<1>11. Alters(t, two, a, e)
  BY <1>5, <1>7, <1>8, <1>10 DEF Alters, p
<1>12. QED
  BY <1>5, <1>9, <1>11 DEF two, pos

\* A dump behind another text of the hex mode.
LEMMA LooksConcat ==
  ASSUME NEW x \in Seq(Cells), NEW y \in Seq(Cells), Looks(x), Looks(y)
  PROVE  x \o y \in Seq(Cells) /\ Looks(x \o y) /\ Len(x) <= Len(x \o y)
<1> DEFINE z == x \o y
<1>1. /\ z \in Seq(Cells) /\ Len(z) = Len(x) + Len(y)
      /\ Len(x) \in Nat /\ Len(y) \in Nat
      /\ \A i \in 1..Len(x) : z[i] = x[i]
      /\ \A i \in 1..Len(y) : z[Len(x) + i] = y[i]
  BY ConcatIs
<1>2. Len(x) <= Len(z)
  BY <1>1
<1>3. x = <<>> => z = y
  OBVIOUS
<1>4. y = <<>> => z = x
  OBVIOUS
<1>5. DOMAIN x = 1..Len(x) /\ DOMAIN y = 1..Len(y) /\ DOMAIN z = 1..Len(z)
  <2>1. z \in Seq(Cells)
    BY <1>1
  <2> HIDE DEF z
  <2>2. QED
    BY <2>1
<1>6. Ascii \in Nat /\ PerLine \in Nat /\ Ascii = 3 * PerLine /\ PerLine >= 1
  BY Sizes
<1> HIDE DEF z
<1>7. ASSUME x # <<>>, y # <<>>
      PROVE  Looks(z)
  <2>1. /\ x[1] \in Digit /\ x[2] \in Digit
        /\ \A s \in Starts(x) : Solid(x, s)
        /\ \A s \in Starts(y) : Solid(y, s)
    BY <1>7 DEF Looks
  <2>2. Len(x) > Ascii
    <3>1. 0 + Ascii < Len(x)
      BY <2>1 DEF Starts, Solid
    <3>2. QED
      BY <1>1, <1>6, <3>1
  <2>3. z[1] \in Digit /\ z[2] \in Digit
    <3>1. 1 \in 1..Len(x) /\ 2 \in 1..Len(x)
      BY <1>1, <1>6, <2>2
    <3>2. QED
      BY <1>1, <2>1, <3>1
  <2>4. ASSUME NEW s \in Starts(x)
        PROVE  Solid(z, s)
    <3>1. Solid(x, s) /\ s \in Nat
      BY <1>5, <2>1 DEF Starts, Newlines
    <3>2. s + Ascii < Len(x)
      BY <3>1 DEF Solid
    <3>3. s + Ascii < Len(z)
      BY <1>1, <1>2, <1>6, <3>1, <3>2
    <3>4. \A k \in 1..Ascii : z[s + k] = x[s + k]
      <4>1. \A k \in 1..Ascii : s + k \in 1..Len(x)
        BY <1>1, <1>6, <3>1, <3>2
      <4>2. QED
        BY <1>1, <4>1
    <3>5. \A k \in 1..Ascii : z[s + k] \in Digit \cup {" "}
      BY <3>1, <3>4 DEF Solid
    <3>6. ASSUME NEW j \in 0..(PerLine - 1)
          PROVE  /\ z[s + (3 * j + 1)] = x[s + (3 * j + 1)]
                 /\ z[s + (3 * j + 2)] = x[s + (3 * j + 2)]
                 /\ z[s + (3 * j + 3)] = x[s + (3 * j + 3)]
      <4>1. 3 * j + 1 \in 1..Ascii /\ 3 * j + 2 \in 1..Ascii /\ 3 * j + 3 \in 1..Ascii
        BY <1>6
      <4>2. QED
        BY <3>4, <4>1
    <3>7. ASSUME NEW j \in 0..(PerLine - 1),
                 z[s + (3 * j + 1)] # " " \/ z[s + (3 * j + 2)] # " "
          PROVE  s + Ascii + j < Len(z) /\ \A i \in 0..j : z[s + (Ascii + i + 1)] # Nl
      <4>1. s + Ascii + j < Len(x) /\ \A i \in 0..j : x[s + (Ascii + i + 1)] # Nl
        BY <3>1, <3>6, <3>7 DEF Solid
      <4>2. s + Ascii + j < Len(z)
        BY <1>1, <1>2, <1>6, <3>1, <4>1
      <4>3. \A i \in 0..j : s + (Ascii + i + 1) \in 1..Len(x)
        BY <1>1, <1>6, <3>1, <4>1
      <4>4. QED
        BY <1>1, <4>1, <4>2, <4>3
    <3>8. \A j \in 0..(PerLine - 1) : z[s + (3 * j + 3)] = " "
      BY <3>1, <3>6 DEF Solid
    <3>9. QED
      BY <3>3, <3>5, <3>7, <3>8 DEF Solid
  <2>5. ASSUME NEW r \in Newlines(y), NEW s, s = Len(x) + r
        PROVE  Solid(z, s)
    <3>1. Solid(y, r) /\ r \in Nat /\ s \in Nat /\ r \in 1..Len(y)
      BY <1>1, <1>5, <2>1, <2>5 DEF Starts, Newlines
    <3>2. r + Ascii < Len(y)
      BY <3>1 DEF Solid
    <3>3. s + Ascii < Len(z)
      BY <1>1, <1>6, <2>5, <3>1, <3>2
    <3>4. \A k \in 1..Len(y) : r + k \in 1..Len(y) => z[s + k] = y[r + k]
      <4>1. ASSUME NEW k \in 1..Len(y), r + k \in 1..Len(y)
            PROVE  z[s + k] = y[r + k]
        <5>1. s + k = Len(x) + (r + k)
          BY <1>1, <2>5, <3>1
        <5>2. QED
          BY <1>1, <4>1, <5>1
      <4>2. QED
        BY <4>1
    <3>5. \A k \in 1..Ascii : z[s + k] = y[r + k]
      <4>1. \A k \in 1..Ascii : k \in 1..Len(y) /\ r + k \in 1..Len(y)
        BY <1>1, <1>6, <3>1, <3>2
      <4>2. QED
        BY <3>4, <4>1
    <3>6. \A k \in 1..Ascii : z[s + k] \in Digit \cup {" "}
      BY <3>1, <3>5 DEF Solid
    <3>7. ASSUME NEW j \in 0..(PerLine - 1)
          PROVE  /\ z[s + (3 * j + 1)] = y[r + (3 * j + 1)]
                 /\ z[s + (3 * j + 2)] = y[r + (3 * j + 2)]
                 /\ z[s + (3 * j + 3)] = y[r + (3 * j + 3)]
      <4>1. 3 * j + 1 \in 1..Ascii /\ 3 * j + 2 \in 1..Ascii /\ 3 * j + 3 \in 1..Ascii
        BY <1>6
      <4>2. QED
        BY <3>5, <4>1
    <3>8. ASSUME NEW j \in 0..(PerLine - 1),
                 z[s + (3 * j + 1)] # " " \/ z[s + (3 * j + 2)] # " "
          PROVE  s + Ascii + j < Len(z) /\ \A i \in 0..j : z[s + (Ascii + i + 1)] # Nl
      <4>1. r + Ascii + j < Len(y) /\ \A i \in 0..j : y[r + (Ascii + i + 1)] # Nl
        BY <3>1, <3>7, <3>8 DEF Solid
      <4>2. s + Ascii + j < Len(z)
        BY <1>1, <1>6, <2>5, <3>1, <4>1
      <4>3. ASSUME NEW i \in 0..j
            PROVE  z[s + (Ascii + i + 1)] # Nl
        <5> DEFINE k == Ascii + i + 1
        <5>1. k \in 1..Len(y) /\ r + k \in 1..Len(y)
          <6>1. r + Ascii + j < Len(y) /\ r \in Nat /\ Ascii \in Nat /\ Len(y) \in Nat
            BY <1>1, <1>6, <3>1, <4>1
          <6>2. i \in Nat /\ j \in Nat /\ i <= j
            BY <1>6
          <6>3. QED
            BY <6>1, <6>2
        <5> HIDE DEF k
        <5>2. z[s + k] = y[r + k]
          BY <3>4, <5>1
        <5>3. QED
          BY <4>1, <5>2 DEF k
      <4>4. QED
        BY <4>2, <4>3
    <3>9. \A j \in 0..(PerLine - 1) : z[s + (3 * j + 3)] = " "
      BY <3>1, <3>7 DEF Solid
    <3>10. QED
      BY <3>3, <3>6, <3>8, <3>9 DEF Solid
  <2>6. ASSUME NEW s \in Starts(z)
        PROVE  Solid(z, s)
    <3>1. s = 0 \/ (s \in 1..Len(z) /\ z[s] = Nl)
      BY <1>5 DEF Starts, Newlines
    <3>2. CASE s = 0
      BY <2>4, <3>2 DEF Starts
    <3>3. CASE s \in 1..Len(z) /\ z[s] = Nl /\ s <= Len(x)
      <4>1. s \in 1..Len(x)
        BY <1>1, <3>3
      <4>2. x[s] = Nl
        BY <1>1, <3>3, <4>1
      <4>3. s \in Starts(x)
        BY <1>5, <4>1, <4>2 DEF Starts, Newlines
      <4>4. QED
        BY <2>4, <4>3
    <3>4. CASE s \in 1..Len(z) /\ z[s] = Nl /\ s > Len(x)
      <4> DEFINE r == s - Len(x)
      <4>1. r \in 1..Len(y) /\ s = Len(x) + r
        BY <1>1, <3>4
      <4> HIDE DEF r
      <4>2. y[r] = Nl
        BY <1>1, <3>4, <4>1
      <4>3. r \in Newlines(y)
        BY <1>5, <4>1, <4>2 DEF Newlines
      <4>4. QED
        BY <2>5, <4>1, <4>3
    <3>5. QED
      BY <1>1, <3>1, <3>2, <3>3, <3>4
  <2>7. QED
    BY <2>3, <2>6 DEF Looks
<1>8. Looks(z)
  BY <1>3, <1>4, <1>7
<1>9. QED
  BY <1>1, <1>2, <1>8 DEF z

-----------------------------------------------------------------------------
(* Carets, and the history of undo.                                        *)

\* The less and the greater of two numbers.
LEMMA PairIs ==
  ASSUME NEW a \in Int, NEW b \in Int
  PROVE  /\ Min({a, b}) = IF a <= b THEN a ELSE b
         /\ Max({a, b}) = IF a <= b THEN b ELSE a
<1>1. Min({a, b}) = IF a <= b THEN a ELSE b
  <2> DEFINE m == IF a <= b THEN a ELSE b
  <2>1. m \in {a, b} /\ \A y \in {a, b} : m <= y
    OBVIOUS
  <2>2. \A x \in {a, b} : (\A y \in {a, b} : x <= y) => x = m
    OBVIOUS
  <2> HIDE DEF m
  <2>3. QED
    BY <2>1, <2>2 DEF Min, m
<1>2. Max({a, b}) = IF a <= b THEN b ELSE a
  <2> DEFINE m == IF a <= b THEN b ELSE a
  <2>1. m \in {a, b} /\ \A y \in {a, b} : m >= y
    OBVIOUS
  <2>2. \A x \in {a, b} : (\A y \in {a, b} : x >= y) => x = m
    OBVIOUS
  <2> HIDE DEF m
  <2>3. QED
    BY <2>1, <2>2 DEF Max, m
<1>3. QED
  BY <1>1, <1>2

\* A line starts and ends in the text.
LEMMA LineInside ==
  ASSUME NEW S, NEW t \in Seq(S), NEW line
  PROVE  LineStart(t, line) \in Nat /\ LineEnd(t, line) \in Nat
<1>1. Len(t) \in Nat /\ Newlines(t) \subseteq 1..Len(t)
  BY DEF Newlines
<1>2. LineStart(t, line) \in Nat
  <2> DEFINE T == {Len(t)} \cup {i \in Newlines(t) : LineOf(t, i) = line}
  <2>1. T \subseteq Nat /\ T # {}
    BY <1>1
  <2> HIDE DEF T
  <2>2. Min(T) \in Nat
    BY <2>1, Least
  <2>3. LineStart(t, line) = IF line <= 0 THEN 0 ELSE Min(T)
    BY DEF LineStart, T
  <2>4. QED
    BY <2>2, <2>3
<1>3. LineEnd(t, line) \in Nat
  <2> DEFINE L == {j \in Newlines(t) : LineOf(t, j) > line}
             T == {Len(t)} \cup {i - 1 : i \in L}
  <2>1. L \subseteq 1..Len(t)
    BY <1>1
  <2>2. LineEnd(t, line) = Min(T)
    BY DEF LineEnd
  <2> HIDE DEF L
  <2>3. T \subseteq Nat /\ T # {}
    BY <1>1, <2>1
  <2> HIDE DEF T
  <2>4. Min(T) \in Nat
    BY <2>3, Least
  <2>5. QED
    BY <2>2, <2>4
<1>4. QED
  BY <1>2, <1>3

\* The texts that are kept.
Fit == {t \in Seq(Cells) : t \in Seq(Byte) \/ Looks(t)}

\* Texts of bytes and dumps may be shown.
LEMMA FitIs ==
  /\ \A t \in Fit : Ok(t) /\ t \in Seq(Cells)
  /\ \A t \in Seq(Byte) : t \in Fit
  /\ \A t \in Seq(Cells) : Looks(t) => t \in Fit
  /\ <<>> \in Fit
<1>1. \A t \in Seq(Byte) : t \in Seq(Cells)
  <2>1. Byte \subseteq Cells
    BY DEF Cells
  <2>2. QED
    BY <2>1
<1>2. <<>> \in Seq(Byte)
  OBVIOUS
<1>3. QED
  BY <1>1, <1>2 DEF Fit, Ok

Recorded(u, n) ==
  /\ u \in [past : Seq(Fit), depth : 0..n, fresh : BOOLEAN, clean : Int]
  /\ u.clean \in -1..Len(u.past)

\* The history after some texts.
LEMMA StepsIs ==
  ASSUME NEW n \in Nat, NEW u, Recorded(u, n), NEW from \in Fit, NEW ts \in Seq(Fit)
  PROVE  LET v == Steps(u, from, ts)
         IN  /\ Recorded(v, n) /\ v.depth = u.depth
             /\ v.fresh = (u.fresh /\ ts = <<>>)
             /\ ts = <<>> => v.past = u.past
             /\ ts # <<>> /\ u.depth # 0 =>
                  v.past = IF u.fresh THEN Append(u.past, from) ELSE u.past
<1> DEFINE p == IF ts = <<>> THEN u.past
                ELSE IF u.depth = 0 THEN u.past \o <<from>> \o Front(ts)
                ELSE IF u.fresh THEN Append(u.past, from) ELSE u.past
           c == IF ts # <<>> /\ u.clean >= Len(p) THEN -1 ELSE u.clean
           f == u.fresh /\ ts = <<>>
           v == Steps(u, from, ts)
<1>1. /\ u.past \in Seq(Fit) /\ u.depth \in 0..n /\ u.fresh \in BOOLEAN /\ u.clean \in Int
      /\ u.clean \in -1..Len(u.past)
  BY DEF Recorded
<1>2. v = [past |-> p, depth |-> u.depth, fresh |-> f, clean |-> c]
  BY Zenon DEF Steps, None
<1>3. p \in Seq(Fit)
  <2>1. ts # <<>> => Front(ts) \in Seq(Fit)
    BY FrontLast
  <2>2. <<from>> \in Seq(Fit)
    OBVIOUS
  <2>3. Append(u.past, from) \in Seq(Fit)
    BY <1>1
  <2>4. ts # <<>> => u.past \o <<from>> \o Front(ts) \in Seq(Fit)
    BY <1>1, <2>1, <2>2, ConcatProperties
  <2>5. QED
    BY <1>1, <2>3, <2>4
<1>4. ts = <<>> => p = u.past
  OBVIOUS
<1>5. ts # <<>> /\ u.depth # 0 => p = IF u.fresh THEN Append(u.past, from) ELSE u.past
  OBVIOUS
<1> HIDE DEF p
<1>6. c \in -1..Len(p) /\ c \in Int
  <2>1. Len(p) \in Nat /\ Len(u.past) \in Nat
    BY <1>1, <1>3
  <2>2. CASE ts = <<>>
    BY <1>1, <1>4, <2>1, <2>2
  <2>3. CASE ts # <<>>
    BY <1>1, <2>1, <2>3
  <2>4. QED
    BY <2>2, <2>3
<1>7. f \in BOOLEAN
  BY <1>1
<1> HIDE DEF c, f, v
<1>8. /\ v \in [past : Seq(Fit), depth : 0..n, fresh : BOOLEAN, clean : Int]
      /\ v.clean = c /\ v.past = p /\ v.depth = u.depth /\ v.fresh = f
  BY <1>1, <1>2, <1>3, <1>6, <1>7
<1>9. Recorded(v, n)
  BY <1>6, <1>8 DEF Recorded
<1>10. QED
  BY <1>4, <1>5, <1>8, <1>9, Zenon DEF f, v

\* More edits, a group that is opened or closed, and a history that is emptied.
LEMMA RecordedIs ==
  ASSUME NEW n \in Nat, NEW u, Recorded(u, n)
  PROVE  /\ Recorded(u, n + 1) /\ Recorded(Emptied(u), n)
         /\ Recorded([past |-> u.past, depth |-> u.depth + 1,
                      fresh |-> u.fresh \/ u.depth = 0, clean |-> u.clean], n + 1)
         /\ Recorded([u EXCEPT !.depth = IF @ = 0 THEN 0 ELSE @ - 1], n)
         /\ Recorded([u EXCEPT !.clean = Len(u.past)], n)
<1>1. /\ u.past \in Seq(Fit) /\ u.depth \in 0..n /\ u.fresh \in BOOLEAN /\ u.clean \in Int
      /\ u.clean \in -1..Len(u.past) /\ Len(u.past) \in Nat
      /\ u \in [past : Seq(Fit), depth : 0..n, fresh : BOOLEAN, clean : Int]
  BY DEF Recorded
<1>2. Recorded(u, n + 1)
  <2>1. \A d \in 0..n : d \in 0..(n + 1)
    OBVIOUS
  <2>2. QED
    BY <1>1, <2>1 DEF Recorded
<1>3. Recorded(Emptied(u), n)
  <2>1. <<>> \in Seq(Fit) /\ Len(<<>>) = 0 /\ 0 \in -1..0 /\ 0 \in Int
    OBVIOUS
  <2>2. QED
    BY <1>1, <2>1 DEF Recorded, Emptied
<1>4. Recorded([past |-> u.past, depth |-> u.depth + 1,
                fresh |-> u.fresh \/ u.depth = 0, clean |-> u.clean], n + 1)
  <2>1. u.depth + 1 \in 0..(n + 1)
    BY <1>1
  <2>2. QED
    BY <1>1, <2>1 DEF Recorded
<1>5. Recorded([u EXCEPT !.depth = IF @ = 0 THEN 0 ELSE @ - 1], n)
  <2> DEFINE d == IF u.depth = 0 THEN 0 ELSE u.depth - 1
  <2>1. d \in 0..n
    BY <1>1
  <2> HIDE DEF d
  <2>2. Recorded([u EXCEPT !.depth = d], n)
    BY <1>1, <2>1 DEF Recorded
  <2>3. QED
    BY <2>2 DEF d
<1>6. Recorded([u EXCEPT !.clean = Len(u.past)], n)
  <2>1. Len(u.past) \in Int /\ Len(u.past) \in -1..Len(u.past)
    BY <1>1
  <2>2. QED
    BY <1>1, <2>1 DEF Recorded
<1>7. QED
  BY <1>2, <1>3, <1>4, <1>5, <1>6

\* A text that is cleared and appended to.
LEMMA ClearIs ==
  ASSUME NEW from \in Fit, NEW to \in Fit
  PROVE  /\ Clear(from, to) \in Seq(Fit)
         /\ (IF Clear(from, to) = <<>> THEN from ELSE Last(Clear(from, to))) = to
<1> DEFINE a == IF from = <<>> THEN <<>> ELSE << <<>> >>
           b == IF to = <<>> THEN <<>> ELSE <<to>>
           c == a \o b
<1>1. Clear(from, to) = c
  BY DEF Clear
<1>2. <<>> \in Fit
  BY FitIs
<1>3. CASE to = <<>>
  <2>1. CASE from = <<>>
    <3>1. a = <<>> /\ b = <<>>
      BY <1>3, <2>1
    <3>2. c = <<>>
      BY <3>1
    <3>3. c \in Seq(Fit)
      BY <3>2
    <3>4. QED
      BY <1>1, <1>3, <2>1, <3>2, <3>3
  <2>2. CASE from # <<>>
    <3>1. a = << <<>> >> /\ b = <<>>
      BY <1>3, <2>2
    <3> DEFINE e == <<>>
               d == <<e>>
    <3>2. e \in Fit /\ a = d
      BY <1>2, <3>1
    <3> HIDE DEF e
    <3>3. d \in Seq(Fit) /\ d # <<>> /\ Len(d) = 1 /\ d[1] = e
      BY <3>2
    <3> HIDE DEF a, b, d
    <3>4. c = d
      BY <3>1, <3>2, <3>3, ConcatEmptySeq
    <3> HIDE DEF c
    <3>5. Last(c) = <<>>
      BY <3>3, <3>4 DEF Last, e
    <3>6. QED
      BY <1>1, <1>3, <3>3, <3>4, <3>5
  <2>3. QED
    BY <2>1, <2>2
<1>4. CASE to # <<>>
  <2>1. b = <<to>>
    BY <1>4
  <2>2. a \in Seq(Fit)
    BY <1>2
  <2> HIDE DEF a
  <2>3. c = a \o <<to>>
    BY <2>1
  <2> HIDE DEF b, c
  <2>4. c = Append(a, to)
    BY <2>2, <2>3
  <2>5. c \in Seq(Fit) /\ Len(c) = Len(a) + 1 /\ c[Len(a) + 1] = to /\ Len(a) \in Nat
    BY <2>2, <2>4
  <2>6. c # <<>> /\ Last(c) = to
    BY <2>5 DEF Last
  <2>7. QED
    BY <1>1, <2>5, <2>6
<1>5. QED
  BY <1>3, <1>4

-----------------------------------------------------------------------------
(* The invariant.                                                          *)

\* The causes of a dump that is not that of the buffer.
Kinds == {"set", "end", "control", "digit", "append", "undo"}

\* What is shown looks like a dump in hex mode, and is a text of the buffer's
\* characters otherwise; the same goes for what undo may bring back.
Typed ==
  /\ text \in Seq(Cells) /\ caret \in 0..Len(text) /\ active \in BOOLEAN
  /\ IF active THEN Looks(text) ELSE text \in Seq(Byte)
  /\ buffer \in Seq(Byte) /\ original \in Seq(Byte)
  /\ did.n \in 0..MaxEdits /\ Recorded(undo, did.n)
  /\ astray \subseteq Kinds

\* The group that this activation opened goes back to the dump it started
\* with, or to the text in front of it.
Grouped ==
  (active /\ undo.depth = 1 /\ astray \cap {"set", "undo"} = {}) =>
    IF undo.fresh THEN text = Dump(original)
    ELSE /\ undo.past # <<>>
         /\ Last(undo.past) = Dump(original) \/ Last(undo.past) \in Seq(Byte)

\* The inductive invariant.
IInv == Typed /\ Grouped /\ DumpIsBuffer

\* The parts of it.
LEMMA Given ==
  ASSUME IInv
  PROVE  /\ text \in Seq(Cells) /\ text \in Fit /\ Len(text) \in Nat
         /\ caret \in 0..Len(text) /\ caret \in Nat /\ active \in BOOLEAN
         /\ active => Looks(text)
         /\ ~active => text \in Seq(Byte)
         /\ buffer \in Seq(Byte) /\ original \in Seq(Byte)
         /\ did.n \in Nat /\ did.n \in 0..MaxEdits /\ Recorded(undo, did.n)
         /\ astray \subseteq Kinds
<1>1. /\ text \in Seq(Cells) /\ caret \in 0..Len(text) /\ active \in BOOLEAN
      /\ active => Looks(text)
      /\ ~active => text \in Seq(Byte)
      /\ buffer \in Seq(Byte) /\ original \in Seq(Byte)
      /\ did.n \in 0..MaxEdits /\ Recorded(undo, did.n)
      /\ astray \subseteq Kinds
  BY DEF IInv, Typed
<1>2. text \in Fit
  BY <1>1 DEF Fit
<1>3. Len(text) \in Nat /\ caret \in Nat /\ did.n \in Nat
  BY <1>1
<1>4. QED
  BY <1>1, <1>2, <1>3

\* An edit is counted.
LEMMA Edited ==
  ASSUME IInv, NEW op, NEW i, NEW with, NEW size, Edit(op, i, with, size)
  PROVE  did'.n = did.n + 1 /\ did'.n \in 0..MaxEdits /\ did.n + 1 \in Nat
<1>1. did.n \in 0..MaxEdits /\ MaxEdits \in Nat /\ did.n < MaxEdits
  BY Given, BoundsAssumed DEF Edit
<1>2. did' = [n |-> did.n + 1, op |-> op, i |-> i, with |-> with, size |-> size]
  BY DEF Edit
<1>3. did'.n = did.n + 1
  BY <1>2
<1>4. QED
  BY <1>1, <1>3

\* It holds in the beginning, outside hex mode.
LEMMA InitIInv ==
  ASSUME Init
  PROVE  IInv
<1>1. text \in Seq(Byte)
  BY BoundsAssumed DEF Init
<1>2. text \in Seq(Cells)
  <2>1. Byte \subseteq Cells
    BY DEF Cells
  <2>2. QED
    BY <1>1, <2>1
<1>3. caret \in 0..Len(text)
  <2>1. Len(text) \in Nat /\ caret = 0
    BY <1>1 DEF Init
  <2>2. QED
    BY <2>1
<1>4. active = FALSE /\ buffer = <<>> /\ original = <<>> /\ astray = {}
  BY DEF Init
<1>5. <<>> \in Seq(Byte) /\ <<>> \in Seq(Fit) /\ Len(<<>>) = 0
  OBVIOUS
<1>6. did.n \in 0..MaxEdits /\ did.n = 0
  <2>1. did.n = 0 /\ MaxEdits \in Nat
    BY BoundsAssumed DEF Init
  <2>2. QED
    BY <2>1
<1>7. Recorded(undo, did.n)
  <2>1. PICK clean \in {0, None} :
          undo = [past |-> <<>>, depth |-> 0, fresh |-> TRUE, clean |-> clean]
    BY DEF Init
  <2>2. clean \in Int /\ clean \in -1..0
    BY DEF None
  <2>3. QED
    BY <1>5, <1>6, <2>1, <2>2 DEF Recorded
<1>8. Typed
  BY <1>1, <1>2, <1>3, <1>4, <1>5, <1>6, <1>7 DEF Typed
<1>9. QED
  BY <1>4, <1>8 DEF IInv, Grouped, DumpIsBuffer, Together

\* A caret that is put as far as there is text.
LEMMA CaretInside ==
  ASSUME NEW S, NEW t \in Seq(S), NEW pos \in Nat
  PROVE  Min({pos, Len(t)}) \in 0..Len(t)
<1>1. Len(t) \in Nat
  OBVIOUS
<1> DEFINE n == Len(t)
<1> HIDE DEF n
<1>2. n \in Nat
  BY <1>1 DEF n
<1>3. Min({pos, n}) = IF pos <= n THEN pos ELSE n
  BY <1>2, PairIs
<1>4. Min({pos, n}) \in 0..n
  BY <1>2, <1>3
<1>5. QED
  BY <1>4 DEF n

\* The dump of what was shown, in a group of its own.
LEMMA ActivateIInv ==
  ASSUME IInv, Activate
  PROVE  IInv'
<1> DEFINE n == did.n
           d == Dump(text)
           ts == Clear(text, d)
           v == [past |-> undo.past, depth |-> undo.depth + 1,
                 fresh |-> undo.fresh \/ undo.depth = 0, clean |-> undo.clean]
           u == Steps(v, text, ts)
<1>1. /\ text \in Seq(Byte) /\ text \in Fit /\ n \in Nat /\ Recorded(undo, n) /\ caret \in Nat
      /\ undo.depth \in 0..n /\ undo.fresh \in BOOLEAN
  <2>1. ~active
    BY DEF Activate
  <2>2. QED
    BY <2>1, Given DEF Recorded
<1>2. /\ active' = TRUE /\ buffer' = text /\ original' = text /\ text' = d
      /\ caret' = Min({caret, Len(d)}) /\ astray' = {}
      /\ undo' = IF IsSaved THEN Emptied(u) ELSE u
  BY DEF Activate
<1>3. did'.n = n + 1 /\ did'.n \in 0..MaxEdits /\ n + 1 \in Nat
  BY Edited DEF Activate
<1>4. d \in Seq(Cells) /\ Looks(d) /\ d \in Fit
  BY <1>1, LooksDump, FitIs
<1>5. ts \in Seq(Fit)
  BY <1>1, <1>4, ClearIs
<1>6. Recorded(v, n + 1)
  BY <1>1, RecordedIs
<1>7. /\ v.depth = undo.depth + 1 /\ v.past = undo.past
      /\ v.fresh = (undo.fresh \/ undo.depth = 0)
  OBVIOUS
<1> HIDE DEF v, ts, d
<1>8. /\ Recorded(u, n + 1) /\ u.depth = undo.depth + 1
      /\ u.fresh = (v.fresh /\ ts = <<>>)
      /\ ts # <<>> /\ v.depth # 0 => u.past = IF v.fresh THEN Append(undo.past, text) ELSE undo.past
  BY <1>1, <1>3, <1>5, <1>6, <1>7, StepsIs
<1> HIDE DEF u
<1>9. Recorded(undo', n + 1)
  BY <1>2, <1>3, <1>8, RecordedIs
<1>10. caret' \in 0..Len(text')
  BY <1>1, <1>2, <1>4, CaretInside
<1>11. Typed'
  BY <1>1, <1>2, <1>3, <1>4, <1>9, <1>10 DEF Typed
<1>12. Grouped'
  <2>1. SUFFICES ASSUME undo'.depth = 1, ~undo'.fresh
                 PROVE  undo'.past # <<>> /\ Last(undo'.past) \in Seq(Byte)
    BY <1>2 DEF Grouped, d
  <2>2. undo' = u
    <3>1. undo' = Emptied(u) => undo'.fresh
      BY DEF Emptied
    <3>2. QED
      BY <1>2, <2>1, <3>1
  <2>3. undo.depth = 0 /\ v.fresh /\ ts # <<>> /\ v.depth # 0
    <3>1. u.depth = 1
      BY <2>1, <2>2
    <3>2. undo.depth = 0 /\ v.depth # 0
      BY <1>1, <1>7, <1>8, <3>1
    <3>3. v.fresh
      BY <1>7, <3>2
    <3>4. ~u.fresh
      BY <2>1, <2>2
    <3>5. ts # <<>>
      BY <1>8, <3>3, <3>4
    <3>6. QED
      BY <3>2, <3>3, <3>5
  <2>4. undo'.past = Append(undo.past, text)
    BY <1>8, <2>2, <2>3
  <2>5. undo.past \in Seq(Fit)
    BY <1>1 DEF Recorded
  <2>6. Last(Append(undo.past, text)) = text /\ Append(undo.past, text) # <<>>
    <3>1. /\ Append(undo.past, text) \in Seq(Fit)
          /\ Len(Append(undo.past, text)) = Len(undo.past) + 1
          /\ Append(undo.past, text)[Len(undo.past) + 1] = text
          /\ Len(undo.past) \in Nat
      BY <1>1, <2>5, AppendProperties
    <3>2. QED
      BY <3>1 DEF Last
  <2>7. QED
    BY <1>1, <2>4, <2>6
<1>13. DumpIsBuffer'
  BY <1>2 DEF DumpIsBuffer, d
<1>14. QED
  BY <1>11, <1>12, <1>13 DEF IInv

\* What is shown is the buffer again.
LEMMA DeactivateIInv ==
  ASSUME IInv, Deactivate
  PROVE  IInv'
<1> DEFINE n == did.n
           ts == Clear(text, buffer)
           v == [undo EXCEPT !.depth = IF @ = 0 THEN 0 ELSE @ - 1]
           u == Steps(v, text, ts)
<1>1. /\ text \in Fit /\ buffer \in Seq(Byte) /\ original \in Seq(Byte)
      /\ n \in Nat /\ Recorded(undo, n)
  BY Given
<1>2. /\ active' = FALSE /\ text' = buffer /\ caret' = 0 /\ astray' = {}
      /\ undo' = (IF IsSaved THEN Emptied(u) ELSE u)
      /\ buffer' = buffer /\ original' = original
  BY DEF Deactivate
<1>3. did'.n = n + 1 /\ did'.n \in 0..MaxEdits /\ n + 1 \in Nat
  BY Edited DEF Deactivate
<1>4. ts \in Seq(Fit)
  BY <1>1, FitIs, ClearIs
<1>5. Recorded(v, n)
  BY <1>1, RecordedIs
<1> HIDE DEF v, ts
<1>6. Recorded(u, n)
  BY <1>1, <1>4, <1>5, StepsIs
<1> HIDE DEF u
<1>7. Recorded(undo', n + 1)
  BY <1>1, <1>2, <1>6, RecordedIs
<1>8. text' \in Seq(Cells) /\ caret' \in 0..Len(text')
  <2>1. buffer \in Seq(Cells) /\ Len(buffer) \in Nat
    BY <1>1, FitIs
  <2>2. QED
    BY <1>2, <2>1
<1>9. Typed'
  BY <1>1, <1>2, <1>3, <1>7, <1>8 DEF Typed
<1>10. QED
  BY <1>2, <1>9 DEF IInv, Grouped, DumpIsBuffer, Together

\* Nothing changes but the caret.
LEMMA CaretIInv ==
  ASSUME IInv, caret' \in 0..Len(text), did'.n = did.n,
         UNCHANGED <<text, active, buffer, original, undo, astray>>
  PROVE  IInv'
<1>1. /\ text' = text /\ active' = active /\ buffer' = buffer /\ original' = original
      /\ undo' = undo /\ astray' = astray
  OBVIOUS
<1>2. Typed'
  BY <1>1 DEF IInv, Typed
<1>3. Grouped'
  BY <1>1 DEF IInv, Grouped
<1>4. DumpIsBuffer'
  BY <1>1 DEF IInv, DumpIsBuffer, Together
<1>5. QED
  BY <1>2, <1>3, <1>4 DEF IInv

\* Moves of the caret leave the rest alone.
LEMMA MoveIInv ==
  ASSUME IInv, NEW pos, Move(pos)
  PROVE  IInv'
<1>1. /\ caret' \in 0..Len(text) /\ did'.n = did.n
      /\ UNCHANGED <<text, active, buffer, original, undo, astray>>
  BY DEF Move
<1>2. QED
  BY <1>1, CaretIInv

\* So do the arrows.
LEMMA ArrowIInv ==
  ASSUME IInv, NEW right \in BOOLEAN, Arrow(right)
  PROVE  IInv'
<1> DEFINE line  == LineOf(text, caret)
           start == LineStart(text, line)
           hex   == caret - start < Ascii
           to    == caret + (IF hex THEN EachField ELSE 1) * (IF right THEN 1 ELSE -1)
           first == IF hex THEN start ELSE start + Ascii
           end   == IF hex THEN start + Ascii ELSE start + Width
           next  == LineStart(text, line + 1) + (IF hex THEN 0 ELSE Ascii)
           x     == IF to >= end THEN next ELSE IF to < first /\ line > 0
                    THEN Prior(text, line, hex) ELSE to
           n     == Len(text)
<1>1. text \in Seq(Cells) /\ n \in Nat /\ caret \in Nat /\ Ascii \in Nat
  BY Given, Sizes
<1>2. next \in Int
  <2>1. LineStart(text, line + 1) \in Nat
    BY <1>1, LineInside
  <2>2. QED
    BY <1>1, <2>1
<1>3. Prior(text, line, hex) \in Int
  <2>1. LineStart(text, line - 1) \in Nat /\ LineEnd(text, line - 1) \in Nat
    BY <1>1, LineInside
  <2> HIDE DEF line, hex
  <2>2. QED
    BY <1>1, <2>1 DEF Prior, EachField
<1>4. to \in Int
  <2> HIDE DEF hex
  <2>1. QED
    BY <1>1 DEF EachField
<1>5. caret' = Max({0, Min({n, x})}) /\ did'.n = did.n
      /\ UNCHANGED <<text, active, buffer, original, undo, astray>>
  BY DEF Arrow
<1> HIDE DEF next, to, first, end, line, hex
<1>6. x \in Int
  BY <1>2, <1>3, <1>4
<1> HIDE DEF x
<1> DEFINE m == Min({n, x})
<1>7. m \in Int /\ m <= n
  <2>1. m = IF n <= x THEN n ELSE x
    BY <1>1, <1>6, PairIs
  <2>2. QED
    BY <1>1, <1>6, <2>1
<1> HIDE DEF m
<1>8. Max({0, m}) = IF 0 <= m THEN m ELSE 0
  <2> DEFINE z == 0
  <2>1. z \in Int
    OBVIOUS
  <2> HIDE DEF z
  <2>2. Max({z, m}) = IF z <= m THEN m ELSE z
    BY <1>7, <2>1, PairIs
  <2>3. QED
    BY <2>2 DEF z
<1>9. caret' \in 0..n
  BY <1>1, <1>5, <1>7, <1>8 DEF m
<1>10. QED
  BY <1>5, <1>9, CaretIInv

\* A save marks where the history is.
LEMMA SaveIInv ==
  ASSUME IInv, Save
  PROVE  IInv'
<1>1. /\ text' = text /\ caret' = caret /\ active' = active /\ buffer' = buffer
      /\ original' = original /\ did' = did /\ astray' = astray
      /\ undo' = [undo EXCEPT !.clean = Len(undo.past)]
  BY DEF Save
<1>2. Recorded(undo, did.n) /\ did.n \in Nat
  BY Given
<1>3. Recorded(undo', did.n)
  BY <1>1, <1>2, RecordedIs
<1>4. undo'.past = undo.past /\ undo'.depth = undo.depth /\ undo'.fresh = undo.fresh
  BY <1>1, <1>2 DEF Recorded
<1>5. Typed'
  BY <1>1, <1>3 DEF IInv, Typed
<1>6. Grouped'
  BY <1>1, <1>4, Zenon DEF IInv, Grouped
<1>7. DumpIsBuffer'
  BY <1>1 DEF IInv, DumpIsBuffer, Together
<1>8. QED
  BY <1>5, <1>6, <1>7 DEF IInv

\* The end of a sequence.
LEMMA Rest ==
  ASSUME NEW S, NEW q \in Seq(S), NEW f \in Nat \ {0}
  PROVE  SubSeq(q, f, Len(q)) \in Seq(S)
OBVIOUS

\* Bytes that are inserted and left out are bytes.
LEMMA BytesStay ==
  ASSUME NEW buf \in Seq(Byte), NEW i \in 0..Len(buf)
  PROVE  /\ \A t \in Seq(Byte) : Inserted(buf, i, t) \in Seq(Byte)
         /\ \A count \in Nat : Without(buf, i, count) \in Seq(Byte)
<1>1. i \in Nat /\ SubSeq(buf, 1, i) \in Seq(Byte)
  BY Firsts
<1>2. ASSUME NEW t \in Seq(Byte)
      PROVE  Inserted(buf, i, t) \in Seq(Byte)
  <2>1. i + 1 \in Nat \ {0}
    BY <1>1
  <2>2. SubSeq(buf, i + 1, Len(buf)) \in Seq(Byte)
    BY <2>1, Rest
  <2>3. SubSeq(buf, 1, i) \o t \in Seq(Byte)
    BY <1>1, ConcatProperties
  <2>4. QED
    BY <2>2, <2>3, ConcatProperties DEF Inserted
<1>3. ASSUME NEW count \in Nat
      PROVE  Without(buf, i, count) \in Seq(Byte)
  <2>1. i + count + 1 \in Nat \ {0}
    BY <1>1
  <2>2. SubSeq(buf, i + count + 1, Len(buf)) \in Seq(Byte)
    BY <2>1, Rest
  <2>3. QED
    BY <1>1, <2>2, ConcatProperties DEF Without
<1>4. QED
  BY <1>2, <1>3

\* The place of a position and the byte there.
LEMMA IndexIs ==
  ASSUME NEW S, NEW t \in Seq(S), NEW pos \in 0..Len(t)
  PROVE  /\ At(t, pos).line = LineOf(t, pos) /\ At(t, pos).line \in Nat
         /\ At(t, pos).col \in Nat /\ LineStart(t, LineOf(t, pos)) \in Nat
         /\ pos = LineStart(t, LineOf(t, pos)) + At(t, pos).col
         /\ Place(t, pos).line \in Nat /\ Place(t, pos).col \in Nat
         /\ Index(t, Place(t, pos)) \in Int
         /\ IsAscii(Place(t, pos)) => Index(t, Place(t, pos)) \in Nat
<1> DEFINE s == LineStart(t, LineOf(t, pos))
           p == Place(t, pos)
           a == At(t, pos)
<1>1. pos \in Nat /\ pos \in Int
  OBVIOUS
<1>2. s \in 0..pos
  BY StartIs
<1>3. LineOf(t, pos) \in Nat
  BY <1>1, BeforeIs
<1>4. a = [line |-> LineOf(t, pos), col |-> pos - s]
  BY DEF At
<1> HIDE DEF s
<1>5. a.line = LineOf(t, pos) /\ a.col = pos - s /\ a.col \in Nat /\ s \in Nat /\ pos = s + a.col
  BY <1>1, <1>2, <1>4
<1>6. p = IF a.col >= Width THEN [line |-> a.line + 1, col |-> Ascii] ELSE a
  BY DEF Place
<1> HIDE DEF p, a
<1>7. p.line \in Nat /\ p.col \in Nat
  BY <1>3, <1>5, <1>6, Sizes
<1>8. PerLine \in Nat /\ Ascii \in Nat /\ Row(PerLine, p.line) \in Nat
  BY <1>7, Sizes, RowIs
<1>9. p.line * PerLine = Row(PerLine, p.line)
  <2>1. Row(PerLine, p.line) = PerLine * p.line
    BY DEF Row
  <2>2. QED
    BY <1>7, <1>8, <2>1
<1>10. CASE IsAscii(p)
  <2>1. Index(t, p) = p.line * PerLine + p.col - Ascii
    <3>1. ~IsHex(p)
      BY <1>7, <1>8, <1>10, Sizes DEF IsAscii, IsHex
    <3>2. QED
      BY <1>10, <3>1 DEF Index
  <2>2. p.col >= Ascii
    BY <1>7, <1>8, <1>10, Sizes DEF IsAscii
  <2>3. Index(t, p) \in Nat
    BY <1>7, <1>8, <1>9, <2>1, <2>2
  <2>4. QED
    BY <1>3, <1>5, <1>7, <2>3 DEF s, a, p
<1>11. CASE ~IsAscii(p)
  <2> DEFINE h == IsHex(p) /\ Cell(t, p) # " "
  <2>1. Index(t, p) = IF h THEN p.line * PerLine + p.col \div EachField ELSE -1
    BY <1>11 DEF Index, None
  <2> HIDE DEF h
  <2>2. p.col \div EachField \in Int
    BY <1>7 DEF EachField
  <2>3. Index(t, p) \in Int
    BY <1>8, <1>9, <2>1, <2>2
  <2>4. QED
    BY <1>3, <1>5, <1>7, <1>11, <2>3 DEF s, a, p
<1>12. QED
  BY <1>10, <1>11

\* The dump is made again.
LEMMA SetTextIInv ==
  ASSUME IInv, active, NEW buf \in Seq(Byte), NEW pos \in Nat, SetText(buf, pos),
         active' = active, did'.n = did.n + 1, did'.n \in 0..MaxEdits
  PROVE  IInv'
<1> DEFINE d == Dump(buf)
           ts == Clear(text, d)
<1>1. text \in Fit /\ did.n \in Nat /\ Recorded(undo, did.n)
  BY Given
<1>2. d \in Seq(Cells) /\ Looks(d) /\ d \in Fit
  BY LooksDump, FitIs
<1>3. /\ text' = (IF ts = <<>> THEN text ELSE Last(ts)) /\ undo' = Steps(undo, text, ts)
      /\ buffer' = buf /\ original' = buf /\ caret' = Min({pos, Len(d)}) /\ astray' = {"set"}
  BY DEF SetText, Changed
<1>4. ts \in Seq(Fit) /\ (IF ts = <<>> THEN text ELSE Last(ts)) = d
  BY <1>1, <1>2, ClearIs
<1>5. Recorded(undo', did'.n)
  <2> HIDE DEF ts
  <2>1. Recorded(Steps(undo, text, ts), did.n)
    BY <1>1, <1>4, StepsIs
  <2>2. QED
    BY <1>1, <1>3, <2>1, RecordedIs
<1>6. caret' \in 0..Len(d)
  BY <1>2, <1>3, CaretInside
<1>7. text' = d
  BY <1>3, <1>4
<1> HIDE DEF ts
<1>8. Typed'
  <2> HIDE DEF d
  <2>1. QED
    BY <1>2, <1>3, <1>5, <1>6, <1>7, Zenon DEF Typed, Kinds
<1>9. Grouped'
  BY <1>3 DEF Grouped
<1>10. DumpIsBuffer'
  BY <1>3, <1>7 DEF DumpIsBuffer
<1>11. QED
  BY <1>8, <1>9, <1>10 DEF IInv

\* An insertion of characters makes another dump.
LEMMA InsertAsciiIInv ==
  ASSUME IInv, NEW t \in Inserts, InsertAscii(t)
  PROVE  IInv'
<1> DEFINE p == Place(text, caret)
           i == Index(text, p)
           buf == Inserted(buffer, i, t)
           there == Min({caret, Len(Dump(buf))})
           to == Behind(Dump(buf), there, p.col, Len(t))
<1>1. t \in Seq(Byte) /\ text \in Seq(Cells) /\ caret \in 0..Len(text) /\ buffer \in Seq(Byte)
      /\ caret \in Nat
  BY Given, BoundsAssumed
<1>2. IsAscii(p) /\ i <= Len(buffer) /\ SetText(buf, to) /\ active /\ active' = active
      /\ did'.n = did.n + 1 /\ did'.n \in 0..MaxEdits
  BY Edited DEF InsertAscii
<1>3. p.col \in Nat /\ i \in Nat
  BY <1>1, <1>2, IndexIs
<1> HIDE DEF p, i
<1>4. buf \in Seq(Byte)
  <2>1. i \in 0..Len(buffer)
    BY <1>1, <1>2, <1>3
  <2>2. QED
    BY <1>1, <2>1, BytesStay
<1> HIDE DEF buf
<1>5. Dump(buf) \in Seq(Cells)
  BY <1>4, LooksDump
<1>6. there \in 0..Len(Dump(buf))
  BY <1>1, <1>5, CaretInside
<1> HIDE DEF there
<1>7. to \in Nat
  <2>1. LineStart(Dump(buf), LineOf(Dump(buf), there) + 1) \in Nat
    BY <1>5, LineInside
  <2>2. there \in Nat /\ Len(t) \in Nat /\ Ascii \in Nat
    BY <1>1, <1>6, Sizes
  <2>3. QED
    BY <1>3, <2>1, <2>2 DEF Behind
<1> HIDE DEF to
<1>8. QED
  BY <1>2, <1>4, <1>7, SetTextIInv

\* So does one of a byte.
LEMMA InsertByteIInv ==
  ASSUME IInv, NEW b \in Byte, InsertByte(b)
  PROVE  IInv'
<1> DEFINE i == Index(text, Place(text, caret))
           buf == Inserted(buffer, i, <<b>>)
<1>1. buffer \in Seq(Byte) /\ caret \in Nat /\ <<b>> \in Seq(Byte)
  BY Given
<1>2. i \in 0..Len(buffer) /\ SetText(buf, caret) /\ active /\ active' = active
      /\ did'.n = did.n + 1 /\ did'.n \in 0..MaxEdits
  BY Edited DEF InsertByte
<1>3. buf \in Seq(Byte)
  BY <1>1, <1>2, BytesStay
<1> HIDE DEF buf, i
<1>4. QED
  BY <1>1, <1>2, <1>3, SetTextIInv

\* And a deletion.
LEMMA EraseIInv ==
  ASSUME IInv, NEW count \in 1..2, Erase(count)
  PROVE  IInv'
<1> DEFINE i == Index(text, Place(text, caret))
           buf == Without(buffer, i, count)
<1>1. buffer \in Seq(Byte) /\ caret \in Nat /\ Len(buffer) \in Nat
  BY Given
<1>2. i \in 0..(Len(buffer) - 1) /\ SetText(buf, caret) /\ active /\ active' = active
      /\ did'.n = did.n + 1 /\ did'.n \in 0..MaxEdits
  BY Edited DEF Erase
<1>3. buf \in Seq(Byte)
  <2>1. i \in 0..Len(buffer) /\ count \in Nat
    BY <1>1, <1>2
  <2>2. QED
    BY <1>1, <2>1, BytesStay
<1> HIDE DEF buf, i
<1>4. QED
  BY <1>1, <1>2, <1>3, SetTextIInv

\* The dump of what is appended follows the one that is there.
LEMMA AppendTextIInv ==
  ASSUME IInv, NEW t \in Inserts, AppendText(t)
  PROVE  IInv'
<1> DEFINE d == Dump(t)
           y == text \o d
           ts == <<y>>
<1>1. /\ t \in Seq(Byte) /\ text \in Seq(Cells) /\ text \in Fit /\ buffer \in Seq(Byte)
      /\ did.n \in Nat /\ Recorded(undo, did.n) /\ caret \in 0..Len(text) /\ Len(text) \in Nat
      /\ astray \subseteq Kinds
  BY Given, BoundsAssumed
<1>2. /\ active /\ active' = active /\ caret' = caret /\ buffer' = buffer \o t
      /\ original' = buffer'
      /\ astray' = astray \cup {"set"} \cup (IF buffer = <<>> THEN {} ELSE {"append"})
      /\ text' = (IF ts = <<>> THEN text ELSE Last(ts)) /\ undo' = Steps(undo, text, ts)
  BY DEF AppendText, Changed
<1>3. did'.n = did.n + 1 /\ did'.n \in 0..MaxEdits
  BY Edited DEF AppendText
<1>4. d \in Seq(Cells) /\ Looks(d) /\ Looks(text)
  BY <1>1, <1>2, LooksDump, Given
<1> HIDE DEF d
<1>5. y \in Seq(Cells) /\ Looks(y) /\ Len(text) <= Len(y) /\ y \in Fit
  BY <1>1, <1>4, LooksConcat, FitIs
<1> HIDE DEF y
<1>6. ts \in Seq(Fit) /\ ts # <<>> /\ Last(ts) = y
  BY <1>5 DEF Last
<1>7. Recorded(undo', did'.n)
  <2> HIDE DEF ts
  <2>1. Recorded(Steps(undo, text, ts), did.n)
    BY <1>1, <1>6, StepsIs
  <2>2. QED
    BY <1>1, <1>2, <1>3, <2>1, RecordedIs
<1> HIDE DEF ts
<1>8. text' = y
  BY <1>2, <1>6
<1>9. caret' \in 0..Len(y)
  <2>1. Len(y) \in Nat
    BY <1>5
  <2>2. QED
    BY <1>1, <1>2, <1>5, <2>1
<1>10. buffer' \in Seq(Byte)
  BY <1>1, <1>2, ConcatProperties
<1>11. astray' \subseteq Kinds
  BY <1>1, <1>2 DEF Kinds
<1>12. Typed'
  BY <1>2, <1>3, <1>5, <1>7, <1>8, <1>9, <1>10, <1>11 DEF Typed
<1>13. Grouped'
  BY <1>2 DEF Grouped
<1>14. DumpIsBuffer'
  <2>1. SUFFICES ASSUME astray' \subseteq {"set"}
                 PROVE  y = Dump(buffer')
    BY <1>8 DEF DumpIsBuffer, Together
  <2>2. buffer = <<>> /\ astray \subseteq {"set"}
    BY <1>2, <2>1
  <2>3. text = <<>>
    <3>1. text = Dump(buffer)
      BY <1>2, <2>2 DEF IInv, DumpIsBuffer, Together
    <3>2. QED
      BY <2>2, <3>1, DumpOfNone
  <2>4. y = d
    BY <1>4, <2>3, ConcatEmptySeq DEF y
  <2>5. buffer' = t
    BY <1>1, <1>2, <2>2, ConcatEmptySeq
  <2>6. QED
    BY <2>4, <2>5 DEF d
<1>15. QED
  BY <1>12, <1>13, <1>14 DEF IInv

\* The text that undo brings back tells whether it is a dump.
LEMMA UndoIInv ==
  ASSUME IInv, Undo
  PROVE  IInv'
<1> DEFINE p == undo.past
           z == Last(p)
           c == IF undo.clean = Len(p) THEN -1 ELSE undo.clean
<1>1. /\ original \in Seq(Byte) /\ buffer \in Seq(Byte) /\ did.n \in Nat /\ caret \in Nat
      /\ active \in BOOLEAN /\ astray \subseteq Kinds /\ Recorded(undo, did.n)
  BY Given
<1>2. /\ p # <<>> /\ text' = z /\ caret' = Min({caret, Len(z)}) /\ original' = original
      /\ undo' = [past |-> Front(p), depth |-> undo.depth, fresh |-> TRUE, clean |-> c]
      /\ buffer' = (IF active THEN original ELSE buffer)
      /\ active' = IsDump(z)
      /\ astray' = (IF active /\ undo.depth = 1 /\ ~undo.fresh
                        /\ astray \cap {"set", "undo"} = {}
                    THEN {} ELSE {"undo"})
  BY DEF Undo, None
<1>3. did'.n = did.n + 1 /\ did'.n \in 0..MaxEdits
  BY Edited DEF Undo
<1>4. /\ p \in Seq(Fit) /\ undo.depth \in 0..did.n /\ undo.clean \in -1..Len(p)
      /\ undo.clean \in Int
  BY <1>1 DEF Recorded
<1>5. Front(p) \in Seq(Fit) /\ z \in Fit /\ Len(p) \in Nat \ {0} /\ Len(Front(p)) = Len(p) - 1
  <2>1. p \in Seq(Fit) /\ p # <<>>
    BY <1>2, <1>4
  <2> HIDE DEF p
  <2>2. QED
    BY <2>1, FrontLast
<1>6. Recorded(undo', did'.n)
  <2>1. c \in -1..Len(Front(p)) /\ c \in Int
    BY <1>4, <1>5
  <2>2. undo.depth \in 0..did'.n
    BY <1>1, <1>3, <1>4
  <2> HIDE DEF p, c
  <2>3. QED
    BY <1>2, <1>5, <2>1, <2>2 DEF Recorded
<1>7. z \in Seq(Cells) /\ IF IsDump(z) THEN Looks(z) /\ z \notin Seq(Byte) ELSE z \in Seq(Byte)
  <2> HIDE DEF z
  <2>1. Ok(z) /\ z \in Seq(Cells)
    BY <1>5, FitIs
  <2>2. QED
    BY <2>1, LooksIsDump
<1>8. undo'.depth = undo.depth /\ undo'.fresh
  BY <1>2
<1>9. IsDump(z) \in BOOLEAN
  BY DEF IsDump
<1>10. Together' \/ (active' /\ astray' \cap {"set", "undo"} = {}) =>
         z = Dump(original)
  <2>1. SUFFICES ASSUME IsDump(z), astray' \subseteq {"set"} \/ astray' \cap {"set", "undo"} = {}
                 PROVE  z = Dump(original)
    BY <1>2 DEF Together
  <2>2. active /\ undo.depth = 1 /\ ~undo.fresh /\ astray \cap {"set", "undo"} = {}
    BY <1>2, <2>1
  <2>3. z = Dump(original) \/ z \in Seq(Byte)
    BY <2>2 DEF IInv, Grouped
  <2>4. QED
    BY <1>7, <2>1, <2>3
<1>11. Together' => active
  BY <1>2 DEF Together
<1> HIDE DEF z, p, c
<1>12. caret' \in 0..Len(z)
  BY <1>1, <1>2, <1>7, CaretInside
<1>13. astray' \subseteq Kinds /\ buffer' \in Seq(Byte)
  BY <1>1, <1>2 DEF Kinds
<1>14. Typed'
  BY <1>1, <1>2, <1>3, <1>6, <1>7, <1>9, <1>12, <1>13 DEF Typed
<1>15. Grouped'
  BY <1>2, <1>8, <1>10 DEF Grouped
<1>16. DumpIsBuffer'
  BY <1>2, <1>10, <1>11 DEF DumpIsBuffer
<1>17. QED
  BY <1>14, <1>15, <1>16 DEF IInv

\* A byte is replaced: two steps of the component, the second of which ends
\* with another dump, or one that is astray.
LEMMA ReplacedIInv ==
  ASSUME IInv, active, active' = active, original' = original,
         did'.n = did.n + 1, did'.n \in 0..MaxEdits,
         NEW one \in Seq(Cells), NEW two \in Seq(Cells), Looks(one), Looks(two),
         Changed(<<one, two>>), buffer' \in Seq(Byte), caret' \in 0..Len(two),
         astray \subseteq astray', astray' \subseteq Kinds,
         astray' \subseteq {"set"} => two = Dump(buffer')
  PROVE  IInv'
<1> DEFINE ts == <<one, two>>
<1>1. /\ text \in Fit /\ did.n \in Nat /\ Recorded(undo, did.n) /\ original \in Seq(Byte)
      /\ undo.depth \in 0..did.n /\ undo.past \in Seq(Fit)
  BY Given DEF Recorded
<1>2. one \in Fit /\ two \in Fit
  BY FitIs
<1>3. ts \in Seq(Fit) /\ ts # <<>> /\ Last(ts) = two
  BY <1>2 DEF Last
<1>4. text' = (IF ts = <<>> THEN text ELSE Last(ts)) /\ undo' = Steps(undo, text, ts)
  BY DEF Changed
<1> HIDE DEF ts
<1>5. text' = two
  BY <1>3, <1>4
<1>6. /\ Recorded(undo', did.n) /\ undo'.depth = undo.depth
      /\ undo'.fresh = (undo.fresh /\ ts = <<>>)
      /\ undo.depth # 0 =>
           undo'.past = IF undo.fresh THEN Append(undo.past, text) ELSE undo.past
  BY <1>1, <1>3, <1>4, StepsIs
<1>7. Recorded(undo', did'.n)
  BY <1>1, <1>6, RecordedIs
<1>8. Typed'
  BY <1>1, <1>5, <1>7 DEF Typed
<1>9. Grouped'
  <2>1. SUFFICES ASSUME undo.depth = 1, astray \cap {"set", "undo"} = {}
                 PROVE  /\ ~undo'.fresh /\ undo'.past # <<>>
                        /\ Last(undo'.past) = Dump(original) \/ Last(undo'.past) \in Seq(Byte)
    BY <1>6 DEF Grouped
  <2>2. ~undo'.fresh
    BY <1>3, <1>6
  <2>3. undo'.past = IF undo.fresh THEN Append(undo.past, text) ELSE undo.past
    BY <1>6, <2>1
  <2>4. IF undo.fresh THEN text = Dump(original)
        ELSE /\ undo.past # <<>>
             /\ Last(undo.past) = Dump(original) \/ Last(undo.past) \in Seq(Byte)
    BY <2>1 DEF IInv, Grouped
  <2>5. CASE undo.fresh
    <3> DEFINE a == Append(undo.past, text)
    <3>1. /\ a \in Seq(Fit) /\ Len(a) = Len(undo.past) + 1
          /\ a[Len(undo.past) + 1] = text /\ Len(undo.past) \in Nat
      BY <1>1, AppendProperties
    <3>2. undo'.past = a
      BY <2>3, <2>5
    <3> HIDE DEF a
    <3>3. Len(a) # 0
      BY <3>1
    <3>4. a # <<>>
      BY <3>3, EmptySeq
    <3>5. Last(a) = text
      BY <3>1 DEF Last
    <3>6. QED
      BY <2>2, <2>4, <2>5, <3>2, <3>4, <3>5
  <2>6. CASE ~undo.fresh
    BY <2>2, <2>3, <2>4, <2>6
  <2>7. QED
    BY <2>5, <2>6
<1>10. DumpIsBuffer'
  BY <1>5 DEF DumpIsBuffer, Together
<1>11. QED
  BY <1>8, <1>9, <1>10 DEF IInv

-----------------------------------------------------------------------------
(* The replacement of a target.                                            *)

\* What the loop over a target has at hand.
Runs == [buf : Seq(Byte), dump : Seq(Cells), ok : BOOLEAN]

\* A step of it leaves bytes.
LEMMA TargetStepIs ==
  ASSUME NEW w \in Runs, NEW with \in Seq(Byte), NEW k \in 1..Len(with),
         NEW start, NEW end, NEW settext
  PROVE  TargetStep(w, k, start, end, with, settext) \in Runs
<1> DEFINE at == start + EachField * (k - 1)
           i == Index(w.dump, Place(w.dump, at))
           buf == IF at <= end THEN [w.buf EXCEPT ![i + 1] = with[k]]
                  ELSE Inserted(w.buf, i, <<with[k]>>)
           g == \/ ~w.ok
                \/ i \notin 0..(Len(w.buf) - (IF at <= end THEN 1 ELSE 0))
                \/ at > end /\ IsAscii(Place(w.dump, at))
           d == IF settext \/ at > end THEN Dump(buf) ELSE w.dump
<1>1. w.buf \in Seq(Byte) /\ w.dump \in Seq(Cells) /\ with[k] \in Byte /\ Len(w.buf) \in Nat
  BY ElementOfSeq DEF Runs
<1>2. TargetStep(w, k, start, end, with, settext)
        = IF g THEN [w EXCEPT !.ok = FALSE] ELSE [buf |-> buf, ok |-> TRUE, dump |-> d]
  BY DEF TargetStep
<1>3. CASE g
  <2> HIDE DEF g
  <2>1. [w EXCEPT !.ok = FALSE] \in Runs
    BY DEF Runs
  <2>2. QED
    BY <1>2, <1>3, <2>1
<1>4. CASE ~g
  <2>1. i \in 0..(Len(w.buf) - (IF at <= end THEN 1 ELSE 0))
    BY <1>4
  <2> HIDE DEF i, at, g
  <2>2. buf \in Seq(Byte)
    <3>1. CASE at <= end
      BY <1>1, <2>1, <3>1
    <3>2. CASE ~ (at <= end)
      <4>1. i \in 0..Len(w.buf) /\ <<with[k]>> \in Seq(Byte)
        BY <1>1, <2>1, <3>2
      <4>2. QED
        BY <1>1, <3>2, <4>1, BytesStay
    <3>3. QED
      BY <3>1, <3>2
  <2> HIDE DEF buf
  <2>3. d \in Seq(Cells)
    BY <1>1, <2>2, LooksDump
  <2> HIDE DEF d
  <2>4. QED
    BY <1>2, <1>4, <2>2, <2>3 DEF Runs
<1>5. QED
  BY <1>3, <1>4

\* The loop, up to a number of steps.
IsRun(f, w, start, end, with, settext, m) ==
  f = [k \in 0..m |-> IF k = 0 THEN w
                      ELSE TargetStep(f[k - 1], k, start, end, with, settext)]

\* The function of its steps exists.
LEMMA TargetRuns ==
  ASSUME NEW w, NEW start, NEW end, NEW with, NEW settext, NEW m \in Nat
  PROVE  \E f : IsRun(f, w, start, end, with, settext, m)
<1> DEFINE T(v, k) == TargetStep(v, k, start, end, with, settext)
           Runs1(f, n) == f = [k \in 0..n |-> IF k = 0 THEN w ELSE T(f[k - 1], k)]
           P == {n \in Nat : \E f : Runs1(f, n)}
<1> HIDE DEF T
<1>1. 0 \in P
  <2> DEFINE f == [k \in 0..0 |-> w]
  <2>1. Runs1(f, 0)
    OBVIOUS
  <2>2. QED
    BY <2>1
<1>2. ASSUME NEW n \in Nat, n \in P
      PROVE  n + 1 \in P
  <2>1. PICK f : Runs1(f, n)
    BY <1>2
  <2> DEFINE g == [k \in 0..(n + 1) |-> IF k <= n THEN f[k] ELSE T(f[k - 1], k)]
  <2>2. ASSUME NEW k \in 0..(n + 1)
        PROVE  g[k] = IF k = 0 THEN w ELSE T(g[k - 1], k)
    <3>1. k # 0 => k - 1 \in 0..n /\ k - 1 \in 0..(n + 1) /\ k - 1 <= n
      BY <2>2
    <3>2. CASE k <= n
      <4>1. k \in 0..n
        BY <3>2
      <4>2. f[k] = IF k = 0 THEN w ELSE T(f[k - 1], k)
        BY <2>1, <4>1
      <4>3. QED
        BY <3>1, <3>2, <4>1, <4>2
    <3>3. CASE ~ (k <= n)
      <4>1. g[k] = T(f[k - 1], k) /\ k # 0
        BY <3>3
      <4>2. g[k - 1] = f[k - 1]
        BY <3>1, <4>1
      <4>3. QED
        BY <4>1, <4>2
    <3>4. QED
      BY <3>2, <3>3
  <2>3. Runs1(g, n + 1)
    BY <2>2
  <2> HIDE DEF g, Runs1
  <2>4. QED
    BY <2>3
<1>3. m \in P
  <2> HIDE DEF P
  <2>1. QED
    BY <1>1, <1>2, Induction
<1>4. PICK f : Runs1(f, m)
  BY <1>3
<1>5. QED
  BY <1>4 DEF T, IsRun

\* What is left of the target is erased from bytes.
LEMMA TargetEndIs ==
  ASSUME NEW w \in Runs, NEW with \in Seq(Byte), NEW start \in Int, NEW end \in Int
  PROVE  TargetEnd(w, start, end, with) \in Seq(Byte)
<1> DEFINE at == start + EachField * Len(with)
           i == Index(w.dump, Place(w.dump, at))
<1>1. w.buf \in Seq(Byte) /\ Len(w.buf) \in Nat /\ Len(with) \in Nat
  BY DEF Runs
<1>2. TargetEnd(w, start, end, with)
        = IF at >= end \/ i \notin 0..(Len(w.buf) - 1) THEN w.buf
          ELSE Without(w.buf, i, (end - at) \div EachField)
  BY DEF TargetEnd
<1>3. at \in Int
  BY <1>1 DEF EachField
<1> HIDE DEF at, i
<1>4. CASE ~ (at >= end) /\ i \in 0..(Len(w.buf) - 1)
  <2>1. (end - at) \div EachField \in Nat
    <3>1. end - at \in Nat
      BY <1>3, <1>4
    <3> DEFINE e == end - at
    <3> HIDE DEF e
    <3>2. e \in Nat
      BY <3>1 DEF e
    <3>3. e \div 3 \in Nat
      BY <3>2
    <3>4. QED
      BY <3>3 DEF e, EachField
  <2>2. i \in 0..Len(w.buf)
    BY <1>1, <1>4
  <2> HIDE DEF EachField
  <2>3. QED
    BY <1>1, <1>2, <1>4, <2>1, <2>2, BytesStay
<1>5. QED
  BY <1>1, <1>2, <1>4

\* The dump is made again when the loop is done.
LEMMA ReplaceTargetIInv ==
  ASSUME IInv, NEW i \in Nat, NEW size \in Nat, NEW blank \in BOOLEAN,
         NEW with \in Inserts, NEW settext \in BOOLEAN,
         ReplaceTarget(i, size, blank, with, settext)
  PROVE  IInv'
<1> DEFINE col   == i % PerLine
           start == LineStart(text, i \div PerLine) + EachField * col
           end   == start + EachField * size - (IF blank THEN 0 ELSE 1)
           w     == [buf |-> buffer, dump |-> text, ok |-> TRUE]
           run   == CHOOSE run : run = [k \in 0..Len(with) |->
                      IF k = 0 THEN w
                      ELSE TargetStep(run[k - 1], k, start, end, with, settext)]
           buf   == TargetEnd(run[Len(with)], start, end, with)
<1>1. /\ active /\ active' = active /\ SetText(buf, caret)
      /\ did'.n = did.n + 1 /\ did'.n \in 0..MaxEdits
  BY Edited DEF ReplaceTarget
<1>2. /\ with \in Seq(Byte) /\ text \in Seq(Cells) /\ caret \in Nat /\ buffer \in Seq(Byte)
      /\ Len(with) \in Nat
  BY Given, BoundsAssumed
<1>3. w \in Runs
  BY <1>2 DEF Runs
<1>4. start \in Int
  <2>1. LineStart(text, i \div PerLine) \in Nat
    BY <1>2, LineInside
  <2>2. col \in Nat
    BY LineAssumed
  <2> HIDE DEF col
  <2>3. QED
    BY <2>1, <2>2 DEF EachField
<1> HIDE DEF start
<1>5. end \in Int
  BY <1>4 DEF EachField
<1> HIDE DEF end, w
<1>6. run = [k \in 0..Len(with) |->
               IF k = 0 THEN w ELSE TargetStep(run[k - 1], k, start, end, with, settext)]
  <2> DEFINE n == Len(with)
             again == settext
  <2>1. n \in Nat
    BY <1>2
  <2> HIDE DEF n, again
  <2>2. \E f : IsRun(f, w, start, end, with, again, n)
    BY <2>1, TargetRuns
  <2>3. \E f : f = [k \in 0..Len(with) |->
                     IF k = 0 THEN w ELSE TargetStep(f[k - 1], k, start, end, with, settext)]
    BY <2>2 DEF n, again, IsRun
  <2>4. QED
    BY <2>3
<1> HIDE DEF run
<1>7. run[Len(with)] \in Runs
  <2> DEFINE n == Len(with)
             P == {k \in Nat : k <= n => run[k] \in Runs}
  <2>1. 0 \in P
    <3>1. run[0] = w
      BY <1>2, <1>6
    <3>2. QED
      BY <1>3, <3>1
  <2>2. ASSUME NEW k \in Nat, k \in P
        PROVE  k + 1 \in P
    <3>1. SUFFICES ASSUME k + 1 <= n
                   PROVE  run[k + 1] \in Runs
      OBVIOUS
    <3>2. run[k] \in Runs /\ k + 1 \in 1..n /\ k + 1 \in 0..n /\ (k + 1) - 1 = k /\ k + 1 # 0
      BY <1>2, <2>2, <3>1
    <3>3. run[k + 1] = TargetStep(run[(k + 1) - 1], k + 1, start, end, with, settext)
      BY <1>6, <3>2
    <3>4. TargetStep(run[k], k + 1, start, end, with, settext) \in Runs
      BY <1>2, <3>2, TargetStepIs
    <3>5. QED
      BY <3>2, <3>3, <3>4
  <2>3. n \in P
    <3> HIDE DEF P
    <3>1. n \in Nat
      BY <1>2
    <3> HIDE DEF n
    <3>2. QED
      BY <2>1, <2>2, <3>1, Induction
  <2>4. QED
    BY <1>2, <2>3
<1>8. buf \in Seq(Byte)
  BY <1>2, <1>4, <1>5, <1>7, TargetEndIs
<1> HIDE DEF buf
<1>9. QED
  BY <1>1, <1>2, <1>8, SetTextIInv

-----------------------------------------------------------------------------
(* The replacement of a byte.                                              *)

\* A place, in a line that starts at s.
Stands(t, pos, s, p) ==
  /\ s \in Starts(t) /\ s \in Nat /\ s <= pos
  /\ \A i \in Newlines(t) : i <= pos => i <= s
  /\ p.col \in Nat /\ p.line \in Nat /\ pos = s + p.col

\* Where the model takes a position to be.
LEMMA AtStands ==
  ASSUME NEW t \in Seq(Cells), NEW pos \in 0..Len(t)
  PROVE  /\ Stands(t, pos, LineStart(t, LineOf(t, pos)), At(t, pos))
         /\ At(t, pos).line = LineOf(t, pos)
<1>1. LET s == LineStart(t, LineOf(t, pos))
      IN  /\ s \in {0} \cup Newlines(t) /\ s \in 0..pos
          /\ \A i \in Newlines(t) : i <= pos => i <= s
  BY StartIs
<1> DEFINE s == LineStart(t, LineOf(t, pos))
<1>2. /\ s \in Starts(t) /\ s \in 0..pos
      /\ \A i \in Newlines(t) : i <= pos => i <= s
  BY <1>1 DEF Starts
<1>3. /\ At(t, pos).line = LineOf(t, pos) /\ At(t, pos).line \in Nat
      /\ At(t, pos).col \in Nat /\ s \in Nat /\ pos = s + At(t, pos).col
  BY IndexIs
<1> HIDE DEF s
<1>4. s <= pos
  BY <1>2
<1>5. Stands(t, pos, s, At(t, pos))
  BY <1>2, <1>3, <1>4 DEF Stands
<1>6. QED
  BY <1>3, <1>5 DEF s

\* The same in a dump.
LEMMA DumpStands ==
  ASSUME NEW t \in Seq(Byte), t # <<>>, NEW pos \in 0..Len(Dump(t))
  PROVE  \E l \in 0..Bottom(t) :
           /\ At(Dump(t), pos).line = l /\ LineStart(Dump(t), LineOf(Dump(t), pos)) = Top(l)
           /\ l * PerLine = Row(PerLine, l) /\ Row(PerLine, l) \in Nat
           /\ \A e \in 0..(PerLine - 1) : Row(PerLine, l) + e < Len(t) => e \in 0..(Held(t, l) - 1)
           /\ \A e \in 0..(Held(t, l) - 1) : Row(PerLine, l) + e < Len(t)
<1>1. PICK l \in 0..Bottom(t), c \in 0..Width : pos = Top(l) + c
  BY PlaceIs
<1>2. Top(l) + c <= Len(Dump(t))
  <2>1. Len(Dump(t)) \in Nat
    BY DumpSize
  <2>2. QED
    BY <1>1, <2>1
<1>3. /\ LineOf(Dump(t), pos) = l /\ LineStart(Dump(t), l) = Top(l)
      /\ At(Dump(t), pos) = [line |-> l, col |-> c]
  BY <1>1, <1>2, DumpLines
<1>4. l \in Nat /\ PerLine \in Nat /\ Row(PerLine, l) \in Nat /\ Len(t) \in Nat
  <2>1. Bottom(t) \in Nat
    BY DumpSize
  <2>2. l \in Nat /\ PerLine \in Nat
    BY <2>1, Sizes
  <2>3. Row(PerLine, l) \in Nat
    BY <2>2, RowIs
  <2>4. Len(t) \in Nat
    OBVIOUS
  <2>5. QED
    BY <2>2, <2>3, <2>4
<1>5. l * PerLine = Row(PerLine, l)
  BY <1>4 DEF Row
<1>6. Held(t, l) \in 1..PerLine /\ Row(PerLine, l) + Held(t, l) <= Len(t)
  BY CellsAre
<1> DEFINE o == Row(PerLine, l)
<1>7. Held(t, l) = IF Len(t) - o < PerLine THEN Len(t) - o ELSE PerLine
  BY DEF Held, Here
<1> HIDE DEF o
<1>8. \A e \in 0..(PerLine - 1) : o + e < Len(t) => e \in 0..(Held(t, l) - 1)
  BY <1>4, <1>6, <1>7 DEF o
<1>9. \A e \in 0..(Held(t, l) - 1) : o + e < Len(t)
  BY <1>4, <1>6 DEF o
<1>10. QED
  BY <1>3, <1>4, <1>5, <1>8, <1>9 DEF o

\* A cell that is not blank.
Inked(cell) == cell # " "

\* A column of the hex field that is not blank is one of a byte's digits.
LEMMA DigitColumn ==
  ASSUME NEW t \in Seq(Cells), t # <<>>, Looks(t), NEW s \in Starts(t), NEW c \in Nat, c < Ascii,
         Inked(t[s + c + 1])
  PROVE  \E e \in 0..(PerLine - 1) :
           /\ c \div 3 = e /\ Lit(t, s, e) /\ e \in Nat
           /\ c = 3 * e \/ c = 3 * e + 1
           /\ s + 3 * e + 3 <= Len(t) /\ s + c + 1 \in 1..Len(t)
           /\ t[s + (3 * e + 3)] = " "
<1> DEFINE e == c \div 3
           x == s + c + 1
           n == PerLine
<1>1. s \in Nat /\ Len(t) \in Nat
  BY DEF Starts, Newlines
<1>2. Ascii \in Nat /\ n \in Nat /\ Ascii = 3 * n
  BY Sizes
<1>3. Solid(t, s)
  BY DEF Looks
<1>4. s + Ascii < Len(t)
  BY <1>3 DEF Solid
<1> HIDE DEF n
<1>5. e \in Nat /\ (c = 3 * e \/ c = 3 * e + 1 \/ c = 3 * e + 2)
  OBVIOUS
<1> HIDE DEF e
<1>6. e \in 0..(n - 1) /\ 3 * e + 3 <= Ascii
  BY <1>2, <1>5
<1>7. x \in 1..Len(t) /\ s + 3 * e + 3 <= Len(t)
  BY <1>1, <1>2, <1>4, <1>5, <1>6
<1>8. /\ t[s + (3 * e + 3)] = " "
      /\ t[s + (3 * e + 1)] # " " \/ t[s + (3 * e + 2)] # " "
           => s + Ascii + e < Len(t) /\ \A i \in 0..e : t[s + (Ascii + i + 1)] # Nl
  BY <1>3, <1>6 DEF Solid, n
<1>9. \/ c = 3 * e /\ x = s + (3 * e + 1)
      \/ c = 3 * e + 1 /\ x = s + (3 * e + 2)
      \/ x = s + (3 * e + 3)
  BY <1>1, <1>5
<1>10. t[x] # " "
  BY Zenon DEF Inked
<1> HIDE DEF x
<1>11. /\ c = 3 * e \/ c = 3 * e + 1
       /\ t[s + (3 * e + 1)] # " " \/ t[s + (3 * e + 2)] # " "
  BY <1>8, <1>9, <1>10
<1>12. Lit(t, s, e)
  BY <1>1, <1>6, <1>8, <1>11 DEF Lit, n
<1>13. QED
  BY <1>5, <1>6, <1>7, <1>8, <1>11, <1>12 DEF e, x, n

\* The position is on a digit of the hex field.
OnDigit(t, pos, s, p) ==
  Stands(t, pos, s, p) /\ s = LineStart(t, p.line) /\ IsHex(p) /\ Cell(t, p) # " "

\* The byte of a digit.
DigitAt(t, s, p, e) ==
  /\ p.col \div 3 = e /\ Lit(t, s, e) /\ e \in Nat
  /\ p.col = 3 * e \/ p.col = 3 * e + 1
  /\ s + 3 * e + 3 <= Len(t) /\ s + p.col + 1 \in 1..Len(t)
  /\ t[s + (3 * e + 3)] = " " /\ Cell(t, p) = t[s + p.col + 1]

\* A place of the hex field that is not blank.
LEMMA DigitIs ==
  ASSUME NEW t \in Seq(Cells), t # <<>>, Looks(t), NEW s, NEW p, NEW pos, OnDigit(t, pos, s, p)
  PROVE  \E e \in 0..(PerLine - 1) : DigitAt(t, s, p, e)
<1> DEFINE c == p.col
           z == Cell(t, p)
           x == s + c + 1
<1>1. s \in Starts(t) /\ s \in Nat /\ c \in Nat /\ c \in 0..(Ascii - 1)
  BY Zenon DEF OnDigit, Stands, IsHex
<1>2. z = IF x \in DOMAIN t THEN t[x] ELSE Nl
  BY Zenon DEF OnDigit, Cell
<1>3. z # " "
  BY Zenon DEF OnDigit
<1> HIDE DEF c, z
<1>4. Len(t) \in Nat /\ DOMAIN t = 1..Len(t) /\ Ascii \in Nat
  BY Sizes
<1>5. c < Ascii
  BY <1>1, <1>4
<1>6. s + Ascii < Len(t)
  BY <1>1 DEF Looks, Solid
<1>7. x \in 1..Len(t)
  BY <1>1, <1>4, <1>5, <1>6
<1>8. z = t[x]
  BY <1>2, <1>4, <1>7
<1>9. Inked(t[s + c + 1])
  BY <1>3, <1>8 DEF Inked
<1> HIDE DEF x
<1>10. \E e \in 0..(PerLine - 1) :
         /\ c \div 3 = e /\ Lit(t, s, e) /\ e \in Nat
         /\ c = 3 * e \/ c = 3 * e + 1
         /\ s + 3 * e + 3 <= Len(t) /\ s + c + 1 \in 1..Len(t)
         /\ t[s + (3 * e + 3)] = " "
  BY <1>1, <1>5, <1>9, DigitColumn
<1>11. QED
  BY <1>8, <1>10, Zenon DEF DigitAt, c, x, z

\* The caret after a replacement.
LEMMA RightIs ==
  ASSUME IInv, NEW y \in Seq(Cells), text' = y, Len(text) <= Len(y),
         caret' = caret \/ caret' = Min({caret + 1, Len(text')})
  PROVE  caret' \in 0..Len(y)
<1>1. caret \in 0..Len(text) /\ Len(text) \in Nat /\ caret \in Nat
  BY Given
<1>2. Len(y) \in Nat
  OBVIOUS
<1>3. CASE caret' = caret
  BY <1>1, <1>2, <1>3
<1>4. CASE caret' = Min({caret + 1, Len(y)})
  <2>1. caret + 1 \in Nat
    BY <1>1
  <2>2. Min({caret + 1, Len(y)}) \in 0..Len(y)
    BY <2>1, CaretInside
  <2>3. QED
    BY <1>4, <2>2
<1>5. QED
  BY <1>3, <1>4

\* The write of a byte.
LEMMA SetIs ==
  ASSUME IInv, NEW i \in Nat, NEW b \in Byte
  PROVE  Set(i, b) \in Seq(Byte)
<1>1. buffer \in Seq(Byte)
  BY Given
<1>2. i < Len(buffer) => [buffer EXCEPT ![i + 1] = b] \in Seq(Byte)
  BY <1>1
<1>3. QED
  BY <1>1, <1>2 DEF Set

\* The text after the two steps of a replacement.
LEMMA LastOfTwo ==
  ASSUME NEW x, NEW y
  PROVE  <<x, y>> # <<>> /\ Last(<<x, y>>) = y
BY DEF Last

\* Both steps look like a dump.
LEMMA AltersBoth ==
  ASSUME NEW t \in Seq(Cells), t # <<>>, Looks(t), NEW a \in Starts(t),
         NEW e \in 0..(PerLine - 1), NEW one \in Seq(Cells), NEW two \in Seq(Cells),
         Alters(t, one, a, e), Alters(t, two, a, e)
  PROVE  Looks(one) /\ Looks(two) /\ Len(t) <= Len(two)
<1>1. Looks(one) /\ Looks(two)
  BY AltersLooks
<1>2. Len(t) <= Len(two)
  BY DEF Alters
<1>3. QED
  BY <1>1, <1>2

\* A character in the ascii field changes its digits and its byte.
LEMMA ReplaceAsciiIInv ==
  ASSUME IInv, NEW c \in Byte, NEW moves \in BOOLEAN, ReplaceAscii(c, moves)
  PROVE  IInv'
<1> DEFINE p == At(text, caret)
           i == Index(text, p)
           s == LineStart(text, p.line)
           e == p.col - Ascii
           one == Put(text, s + p.col, <<c>>)
           two == Put(one, s + Other(p), Code[c])
<1>1. /\ text \in Seq(Cells) /\ caret \in 0..Len(text) /\ buffer \in Seq(Byte)
      /\ Len(buffer) \in Nat /\ astray \subseteq Kinds /\ Len(text) \in Nat
  BY Given
<1>2. /\ active /\ active' = active /\ original' = original
      /\ IsAscii(p) /\ i <= Len(buffer) /\ Changed(<<one, two>>) /\ buffer' = Set(i, c)
      /\ astray' = astray \cup (IF i = Len(buffer) THEN {"end"} ELSE {})
                          \cup (IF c \in Control THEN {"control"} ELSE {})
      /\ caret' = caret \/ caret' = Min({caret + 1, Len(text')})
      /\ did'.n = did.n + 1 /\ did'.n \in 0..MaxEdits
  BY Edited DEF ReplaceAscii, Right
<1>3. Stands(text, caret, s, p)
  BY <1>1, AtStands
<1>4. /\ PerLine \in Nat /\ PerLine >= 1 /\ Ascii \in Nat /\ Ascii = 3 * PerLine
      /\ Width = Ascii + PerLine /\ EachField = 3
  BY Sizes
<1>5. /\ s \in Starts(text) /\ s \in Nat /\ caret = s + p.col /\ p.col \in Nat /\ p.line \in Nat
      /\ \A k \in Newlines(text) : k <= caret => k <= s
  BY <1>3 DEF Stands
<1>6. p.col \in Ascii..(Width - 1) /\ Other(p) = 3 * e
  BY <1>2, <1>4 DEF IsAscii, Other
<1>7. i = p.line * PerLine + p.col - Ascii /\ i \in Nat
  <2>1. ~IsHex(p)
    BY <1>4, <1>5, <1>6 DEF IsHex
  <2>2. i = p.line * PerLine + p.col - Ascii
    BY <1>2, <2>1 DEF Index
  <2>3. p.line * PerLine = Row(PerLine, p.line)
    BY <1>4, <1>5 DEF Row
  <2>4. Row(PerLine, p.line) \in Nat
    BY <1>4, <1>5, RowIs
  <2>5. QED
    BY <1>4, <1>5, <1>6, <2>2, <2>3, <2>4
<1>8. e \in 0..(PerLine - 1) /\ p.col = Ascii + e /\ e \in Nat
  BY <1>4, <1>5, <1>6
<1> DEFINE x == Put(text, caret, <<c>>)
<1>9. one = x /\ two = Put(x, s + 3 * e, Code[c])
  BY <1>5, <1>6
<1>10. Looks(text) /\ text # <<>>
  <2>1. Looks(text)
    BY <1>2, Given
  <2>2. caret # 0
    BY <1>4, <1>5, <1>8
  <2>3. text # <<>>
    BY <1>1, <2>2
  <2>4. QED
    BY <2>1, <2>3
<1> HIDE DEF i, one, two, e, p, s
<1>11. /\ one \in Seq(Cells) /\ two \in Seq(Cells)
       /\ Alters(text, one, s, e) /\ Alters(text, two, s, e)
  <2>1. caret = s + (Ascii + e)
    BY <1>5, <1>8
  <2>2. QED
    BY <1>1, <1>5, <1>8, <1>9, <2>1, AltersAscii
<1> HIDE DEF x
<1>12. Looks(one) /\ Looks(two) /\ Len(text) <= Len(two)
  BY <1>1, <1>5, <1>8, <1>10, <1>11, AltersBoth
<1>13. text' = two
  BY <1>2, LastOfTwo DEF Changed
<1>14. caret' \in 0..Len(two)
  BY <1>2, <1>11, <1>12, <1>13, RightIs
<1>15. buffer' \in Seq(Byte)
  BY <1>2, <1>7, SetIs
<1>16. astray \subseteq astray' /\ astray' \subseteq Kinds
  BY <1>1, <1>2 DEF Kinds
<1>17. ASSUME astray' \subseteq {"set"}
       PROVE  two = Dump(buffer')
  <2>1. i # Len(buffer) /\ c \notin Control /\ astray \subseteq {"set"}
    BY <1>2, <1>17
  <2>2. text = Dump(buffer)
    BY <1>2, <2>1 DEF IInv, DumpIsBuffer, Together
  <2>3. buffer # <<>>
    BY <1>10, <2>2, DumpOfNone
  <2>4. PICK l \in 0..Bottom(buffer) :
          /\ At(Dump(buffer), caret).line = l
          /\ LineStart(Dump(buffer), LineOf(Dump(buffer), caret)) = Top(l)
          /\ l * PerLine = Row(PerLine, l) /\ Row(PerLine, l) \in Nat
          /\ \A k \in 0..(PerLine - 1) :
               Row(PerLine, l) + k < Len(buffer) => k \in 0..(Held(buffer, l) - 1)
          /\ \A k \in 0..(Held(buffer, l) - 1) : Row(PerLine, l) + k < Len(buffer)
    BY <1>1, <2>2, <2>3, DumpStands
  <2>5. p.line = l /\ s = Top(l)
    <3>1. p.line = LineOf(text, caret)
      BY <1>1, AtStands DEF p
    <3>2. QED
      BY <2>2, <2>4, <3>1 DEF p, s
  <2>6. i = Row(PerLine, l) + e /\ i < Len(buffer)
    <3>1. i = Row(PerLine, l) + p.col - Ascii
      BY <1>7, <2>4, <2>5
    <3>2. i = Row(PerLine, l) + e
      BY <1>4, <1>8, <2>4, <3>1
    <3>3. QED
      BY <1>1, <1>2, <1>8, <2>1, <2>4, <3>2
  <2>7. e \in 0..(Held(buffer, l) - 1)
    BY <1>8, <2>4, <2>6
  <2>8. Shown(c) = c
    BY <2>1 DEF Shown
  <2>9. Put(Put(Dump(buffer), Top(l) + (Ascii + e), <<c>>), Top(l) + 3 * e, Code[c])
          = Dump([buffer EXCEPT ![Row(PerLine, l) + e + 1] = c])
    BY <1>1, <2>3, <2>7, <2>8, InAscii
  <2>10. buffer' = [buffer EXCEPT ![Row(PerLine, l) + e + 1] = c]
    BY <1>2, <2>6 DEF Set
  <2>11. caret = Top(l) + (Ascii + e)
    BY <1>5, <1>8, <2>5
  <2>12. QED
    BY <1>9, <2>2, <2>5, <2>9, <2>10, <2>11 DEF x
<1>18. QED
  BY <1>2, <1>11, <1>12, <1>14, <1>15, <1>16, <1>17, ReplacedIInv

\* In a dump it is a digit of a byte that is there.
LEMMA DumpDigit ==
  ASSUME NEW t \in Seq(Byte), t # <<>>, NEW pos \in 0..Len(Dump(t)), NEW e \in 0..(PerLine - 1),
         NEW c, c = 3 * e \/ c = 3 * e + 1,
         Inked(Dump(t)[LineStart(Dump(t), LineOf(Dump(t), pos)) + c + 1])
  PROVE  \E l \in 0..Bottom(t) :
           /\ At(Dump(t), pos).line = l /\ LineStart(Dump(t), LineOf(Dump(t), pos)) = Top(l)
           /\ l * PerLine = Row(PerLine, l) /\ Row(PerLine, l) \in Nat
           /\ e \in 0..(Held(t, l) - 1) /\ Row(PerLine, l) + e < Len(t)
<1>1. PICK l \in 0..Bottom(t) :
        /\ At(Dump(t), pos).line = l /\ LineStart(Dump(t), LineOf(Dump(t), pos)) = Top(l)
        /\ l * PerLine = Row(PerLine, l) /\ Row(PerLine, l) \in Nat
        /\ \A k \in 0..(PerLine - 1) : Row(PerLine, l) + k < Len(t) => k \in 0..(Held(t, l) - 1)
        /\ \A k \in 0..(Held(t, l) - 1) : Row(PerLine, l) + k < Len(t)
  BY DumpStands
<1>2. Held(t, l) \in 1..PerLine /\ \A k \in (3 * Held(t, l) + 1)..Ascii : Dump(t)[Top(l) + k] = " "
  BY CellsAre
<1>3. PerLine \in Nat /\ Ascii \in Nat /\ Ascii = 3 * PerLine
  BY Sizes
<1> DEFINE h == Held(t, l)
           x == Dump(t)
<1>4. Top(l) \in Nat /\ h \in 1..PerLine
  <2>1. l \in Nat
    <3>1. Bottom(t) \in Nat
      BY DumpSize
    <3>2. QED
      BY <3>1
  <2>2. QED
    BY <1>2, <2>1, TopIs
<1>5. Inked(x[Top(l) + c + 1])
  BY <1>1
<1>6. \A k \in (3 * h + 1)..Ascii : ~Inked(x[Top(l) + k])
  BY <1>2 DEF Inked
<1> HIDE DEF h, x
<1>7. e \in 0..(h - 1)
  <2>1. SUFFICES ASSUME e >= h
                 PROVE  FALSE
    BY <1>3, <1>4
  <2>2. c + 1 \in (3 * h + 1)..Ascii /\ Top(l) + (c + 1) = Top(l) + c + 1
    BY <1>3, <1>4, <2>1
  <2>3. QED
    BY <1>5, <1>6, <2>2
<1>8. QED
  BY <1>1, <1>7 DEF h

\* The byte of a place that is not blank.
LEMMA HexIndex ==
  ASSUME NEW t, NEW p, IsHex(p), NEW n, Index(t, p) \in 0..n
  PROVE  Cell(t, p) # " " /\ Index(t, p) = p.line * PerLine + p.col \div 3
<1> DEFINE c == p.col
           k == p.line * PerLine + p.col \div EachField
           i == Index(t, p)
<1>1. c \in 0..(Ascii - 1)
  BY Zenon DEF IsHex
<1>2. ~IsAscii(p)
  <2>1. ~ (c \in Ascii..(Width - 1))
    <3> HIDE DEF c
    <3>1. QED
      BY <1>1, Sizes
  <2>2. QED
    BY <2>1, Zenon DEF IsAscii
<1>3. Cell(t, p) = " " => i = -1
  BY <1>2 DEF Index, None
<1>4. Cell(t, p) # " " => i = k
  BY <1>2 DEF Index
<1>5. i # -1
  <2>1. i \in 0..n
    OBVIOUS
  <2> HIDE DEF i
  <2>2. QED
    BY <2>1
<1>6. k = p.line * PerLine + p.col \div 3
  BY Sizes
<1>7. QED
  BY <1>3, <1>4, <1>5, <1>6, Zenon DEF i, k

\* The cell of a place on a line.
LEMMA CellIs ==
  ASSUME NEW t \in Seq(Cells), NEW s \in Nat, NEW line, s = LineStart(t, line), NEW c \in Nat,
         s + c + 1 \in 1..Len(t)
  PROVE  Cell(t, [line |-> line, col |-> c]) = t[s + c + 1]
<1> DEFINE x == s + c + 1
<1>1. DOMAIN t = 1..Len(t)
  OBVIOUS
<1>2. Cell(t, [line |-> line, col |-> c]) = IF x \in DOMAIN t THEN t[x] ELSE Nl
  BY DEF Cell
<1>3. QED
  BY <1>1, <1>2

\* Digits are changed in the hex field, and the sign with these.
LEMMA HexIInv ==
  ASSUME IInv, active, active' = active, original' = original,
         did'.n = did.n + 1, did'.n \in 0..MaxEdits, text # <<>>,
         NEW s \in Starts(text), NEW e \in 0..(PerLine - 1), Lit(text, s, e),
         NEW one, Redone(text, one, s, e),
         NEW b \in Byte, NEW i \in Nat,
         NEW two, two = Put(one, s + (Ascii + e), <<Shown(b)>>),
         Changed(<<one, two>>), buffer' = Set(i, b),
         caret' = caret \/ caret' = Min({caret + 1, Len(text')}),
         astray \subseteq astray', astray' \subseteq Kinds,
         astray' \subseteq {"set"} => two = Dump(buffer')
  PROVE  IInv'
<1>1. text \in Seq(Cells) /\ Looks(text)
  BY Given
<1>2. Shown(b) \in Cells /\ Shown(b) # Nl
  BY ShownIs
<1>3. one \in Seq(Cells) /\ two \in Seq(Cells)
      /\ Alters(text, one, s, e) /\ Alters(text, two, s, e)
  <2> DEFINE g == Shown(b)
  <2>1. g \in Cells /\ g # Nl /\ two = Put(one, s + (Ascii + e), <<g>>)
    BY <1>2
  <2> HIDE DEF g
  <2>2. one \in Seq(Cells)
    BY DEF Redone
  <2>3. QED
    BY <2>1, <2>2, AltersHex
<1>4. Looks(one) /\ Looks(two) /\ Len(text) <= Len(two)
  BY <1>1, <1>3, AltersBoth
<1>5. text' = two
  BY LastOfTwo DEF Changed
<1>6. caret' \in 0..Len(two)
  BY <1>3, <1>4, <1>5, RightIs
<1>7. buffer' \in Seq(Byte)
  BY SetIs
<1>8. QED
  BY <1>3, <1>4, <1>6, <1>7, ReplacedIInv

\* Two digits in the place of a byte's.
LEMMA ReplaceByteIInv ==
  ASSUME IInv, NEW b \in Byte, ReplaceByte(b)
  PROVE  IInv'
<1> DEFINE p == Place(text, caret)
           i == Index(text, p)
           s == LineStart(text, p.line)
           one == Put(text, s + p.col, Code[b])
           two == Put(one, s + Other(p), <<Shown(b)>>)
           a == At(text, caret)
<1>1. /\ text \in Seq(Cells) /\ caret \in 0..Len(text) /\ buffer \in Seq(Byte)
      /\ Len(buffer) \in Nat /\ astray \subseteq Kinds /\ Len(text) \in Nat
  BY Given
<1>2. /\ active /\ active' = active /\ original' = original /\ text # <<>>
      /\ IsHex(p) /\ i \in 0..Len(buffer) /\ p.col % EachField = 0
      /\ Changed(<<one, two>>) /\ buffer' = Set(i, b) /\ astray' = astray /\ caret' = caret
      /\ did'.n = did.n + 1 /\ did'.n \in 0..MaxEdits
  BY Edited DEF ReplaceByte
<1>3. Looks(text)
  BY <1>2, Given
<1>4. p = a
  <2>1. p = a \/ p = [line |-> a.line + 1, col |-> Ascii]
    BY DEF Place
  <2>2. p.col # Ascii
    <3> DEFINE c == p.col
    <3>1. c \in 0..(Ascii - 1)
      BY <1>2, Zenon DEF IsHex
    <3> HIDE DEF c
    <3>2. c # Ascii
      BY <3>1, Sizes
    <3>3. QED
      BY <3>2 DEF c
  <2> HIDE DEF p
  <2>3. QED
    BY <2>1, <2>2
<1>5. a.line = LineOf(text, caret) /\ Stands(text, caret, LineStart(text, LineOf(text, caret)), a)
  BY <1>1, AtStands
<1>6. Stands(text, caret, s, p) /\ s = LineStart(text, LineOf(text, caret))
  BY <1>4, <1>5
<1>7. Cell(text, p) # " " /\ i = p.line * PerLine + p.col \div 3
  BY <1>2, HexIndex
<1>8. OnDigit(text, caret, s, p)
  BY <1>2, <1>6, <1>7 DEF OnDigit
<1>9. p.col % 3 = 0 /\ Other(p) = Ascii + p.col \div 3
  <2>1. ~IsAscii(p)
    <3> DEFINE c == p.col
    <3>1. c \in 0..(Ascii - 1)
      BY <1>2, Zenon DEF IsHex
    <3> HIDE DEF c
    <3>2. ~ (c \in Ascii..(Width - 1))
      BY <3>1, Sizes
    <3>3. QED
      BY <3>2, Zenon DEF c, IsAscii
  <2>2. QED
    BY <1>2, <2>1, Sizes DEF Other
<1> DEFINE c == p.col
<1>10. p.line = At(text, caret).line
  BY <1>4
<1>11. s \in Starts(text) /\ s \in Nat /\ c \in Nat
  BY <1>6, Zenon DEF Stands
<1> HIDE DEF p, s, i, a, one, two
<1>12. PICK e \in 0..(PerLine - 1) : DigitAt(text, s, p, e)
  <2>1. text \in Seq(Cells) /\ text # <<>>
    BY <1>1, <1>2
  <2>2. QED
    BY <1>3, <1>8, <2>1, DigitIs
<1>13. /\ p.col \div 3 = e /\ Lit(text, s, e) /\ e \in Nat
       /\ p.col = 3 * e \/ p.col = 3 * e + 1
       /\ s + 3 * e + 3 <= Len(text) /\ s + p.col + 1 \in 1..Len(text)
       /\ text[s + (3 * e + 3)] = " " /\ Cell(text, p) = text[s + p.col + 1]
  BY <1>12, Zenon DEF DigitAt
<1>14. c = 3 * e
  <2>1. c % 3 = 0 /\ (c = 3 * e \/ c = 3 * e + 1) /\ e \in Nat
    BY <1>9, <1>13
  <2> HIDE DEF c
  <2>2. QED
    BY <2>1
<1>15. one = Put(text, s + 3 * e, Code[b]) /\ two = Put(one, s + (Ascii + e), <<Shown(b)>>)
  BY <1>9, <1>13, <1>14 DEF one, two
<1>16. Redone(text, one, s, e)
  <2> DEFINE q == s + 3 * e
  <2>1. q \in Nat /\ q + 2 <= Len(text) /\ q + 1 = s + (3 * e + 1) /\ q + 2 = s + (3 * e + 2)
    <3>1. e \in Nat /\ s + 3 * e + 3 <= Len(text)
      BY <1>13, Zenon
    <3>2. QED
      BY <1>1, <1>11, <3>1
  <2>2. one = Put(text, q, Code[b])
    BY <1>15
  <2> HIDE DEF q
  <2>3. /\ one \in Seq(Cells) /\ Len(one) = Len(text)
        /\ one[q + 1] = Code[b][1] /\ one[q + 2] = Code[b][2]
        /\ \A k \in 1..Len(text) : k # q + 1 /\ k # q + 2 => one[k] = text[k]
    <3>1. text \in Seq(Cells)
      BY <1>1
    <3>2. QED
      BY <2>1, <2>2, <3>1, PutCode
  <2>4. one[q + 1] \in Digit /\ one[q + 2] \in Digit
    BY <2>3, CodeIs
  <2>5. QED
    BY <2>1, <2>3, <2>4 DEF Redone
<1>17. i \in Nat
  BY <1>1, <1>2
<1>18. astray \subseteq astray' /\ astray' \subseteq Kinds
  BY <1>1, <1>2
<1>19. ASSUME astray' \subseteq {"set"}
       PROVE  two = Dump(buffer')
  <2>1. text = Dump(buffer)
    BY <1>2, <1>19 DEF IInv, DumpIsBuffer, Together
  <2>2. buffer # <<>>
    BY <1>2, <2>1, DumpOfNone
  <2>3. s = LineStart(Dump(buffer), LineOf(Dump(buffer), caret))
    BY <1>6, <2>1
  <2>4. Inked(Dump(buffer)[LineStart(Dump(buffer), LineOf(Dump(buffer), caret)) + c + 1])
    BY <1>7, <1>13, <2>1, <2>3 DEF Inked
  <2>5. c = 3 * e \/ c = 3 * e + 1
    BY <1>14
  <2>6. caret \in 0..Len(Dump(buffer))
    BY <1>1, <2>1
  <2> HIDE DEF c
  <2>7. PICK l \in 0..Bottom(buffer) :
          /\ At(Dump(buffer), caret).line = l
          /\ LineStart(Dump(buffer), LineOf(Dump(buffer), caret)) = Top(l)
          /\ l * PerLine = Row(PerLine, l) /\ Row(PerLine, l) \in Nat
          /\ e \in 0..(Held(buffer, l) - 1) /\ Row(PerLine, l) + e < Len(buffer)
    BY <1>1, <2>2, <2>4, <2>5, <2>6, DumpDigit
  <2>8. p.line = l /\ s = Top(l)
    BY <1>10, <2>1, <2>3, <2>7
  <2>9. i = Row(PerLine, l) + e
    BY <1>7, <1>13, <2>7, <2>8
  <2>10. buffer' = [buffer EXCEPT ![Row(PerLine, l) + e + 1] = b]
    BY <1>2, <2>7, <2>9 DEF Set
  <2>11. Put(Put(Dump(buffer), Top(l) + 3 * e, Code[b]), Top(l) + (Ascii + e), <<Shown(b)>>)
           = Dump([buffer EXCEPT ![Row(PerLine, l) + e + 1] = b])
    BY <1>1, <2>2, <2>7, InHex
  <2>12. QED
    BY <1>15, <2>1, <2>8, <2>10, <2>11
<1>20. Lit(text, s, e) /\ text # <<>> /\ s \in Starts(text)
  BY <1>2, <1>11, <1>13, Zenon
<1>21. two = Put(one, s + (Ascii + e), <<Shown(b)>>)
  BY <1>15
<1>22. QED
  BY <1>2, <1>16, <1>17, <1>18, <1>19, <1>20, <1>21, HexIInv

\* One digit in the place of another.
LEMMA ReplaceDigitIInv ==
  ASSUME IInv, NEW d \in Digit, NEW moves \in BOOLEAN, ReplaceDigit(d, moves)
  PROVE  IInv'
<1> DEFINE p == At(text, caret)
           i == Index(text, p)
           s == LineStart(text, p.line)
           second == Cell(text, [p EXCEPT !.col = @ + 1]) = " "
           digits == IF second THEN <<Cell(text, [p EXCEPT !.col = @ - 1]), d>>
                     ELSE <<d, Cell(text, p)>>
           code == CHOOSE b \in Byte : Code[b] = digits
           one == Put(text, s + p.col, <<d>>)
           two == Put(one, s + Other(p), <<Shown(code)>>)
           c == p.col
<1>1. /\ text \in Seq(Cells) /\ caret \in 0..Len(text) /\ buffer \in Seq(Byte)
      /\ Len(buffer) \in Nat /\ astray \subseteq Kinds /\ Len(text) \in Nat
  BY Given
<1>2. /\ active /\ active' = active /\ original' = original
      /\ IsHex(p) /\ i \in 0..Len(buffer) /\ \E b \in Byte : Code[b] = digits
      /\ Changed(<<one, two>>) /\ buffer' = Set(i, code)
      /\ astray' = astray \cup (IF second THEN {} ELSE {"digit"})
      /\ caret' = caret \/ caret' = Min({caret + 1, Len(text')})
      /\ did'.n = did.n + 1 /\ did'.n \in 0..MaxEdits
  BY Edited DEF ReplaceDigit, Right
<1>3. Looks(text)
  BY <1>2, Given
<1>4. code \in Byte /\ Code[code] = digits
  BY <1>2
<1>5. text # <<>>
  <2>1. SUFFICES ASSUME text = <<>>
                 PROVE  FALSE
    OBVIOUS
  <2>2. \A q : Cell(text, q) = Nl
    BY <2>1 DEF Cell
  <2>3. digits = <<d, Nl>>
    <3>1. ~second
      BY <2>2, Apart
    <3>2. QED
      BY <2>2, <3>1
  <2>4. Code[code][2] \in Digit
    BY <1>4, CodeIs
  <2>5. Code[code][2] = Nl
    <3>1. Code[code] = <<d, Nl>>
      BY <1>4, <2>3
    <3> HIDE DEF code, digits
    <3>2. QED
      BY <3>1
  <2>6. QED
    BY <2>4, <2>5, Apart
<1>6. p.line = LineOf(text, caret) /\ Stands(text, caret, s, p)
  BY <1>1, AtStands
<1>7. Cell(text, p) # " " /\ i = p.line * PerLine + p.col \div 3
  BY <1>2, HexIndex
<1>8. OnDigit(text, caret, s, p)
  BY <1>2, <1>6, <1>7, Zenon DEF OnDigit
<1>9. Other(p) = Ascii + p.col \div 3
  <2>1. ~IsAscii(p)
    <3>1. c \in 0..(Ascii - 1)
      BY <1>2, Zenon DEF IsHex
    <3> HIDE DEF c
    <3>2. ~ (c \in Ascii..(Width - 1))
      BY <3>1, Sizes
    <3>3. QED
      BY <3>2, Zenon DEF c, IsAscii
  <2>2. QED
    BY <2>1, Sizes DEF Other
<1>10. p = [line |-> p.line, col |-> c]
  BY DEF At
<1>11. s \in Starts(text) /\ s \in Nat /\ c \in Nat /\ s = LineStart(text, p.line)
  BY <1>6, Zenon DEF Stands
<1>12. s = LineStart(text, LineOf(text, caret))
  BY <1>6
<1>13. /\ second = (Cell(text, [line |-> p.line, col |-> c + 1]) = " ")
       /\ second => digits = <<Cell(text, [line |-> p.line, col |-> c - 1]), d>>
  <2>1. /\ [p EXCEPT !.col = @ + 1] = [line |-> p.line, col |-> c + 1]
        /\ [p EXCEPT !.col = @ - 1] = [line |-> p.line, col |-> c - 1]
    <3> HIDE DEF p
    <3>1. QED
      BY <1>10
  <2>2. QED
    BY <2>1
<1>14. p.line = At(text, caret).line
  OBVIOUS
<1> HIDE DEF p, s, i, second, digits, code, one, two
<1>15. PICK e \in 0..(PerLine - 1) : DigitAt(text, s, p, e)
  <2>1. text \in Seq(Cells)
    BY <1>1
  <2>2. QED
    BY <1>3, <1>5, <1>8, <2>1, DigitIs
<1>16. /\ p.col \div 3 = e /\ Lit(text, s, e) /\ e \in Nat
       /\ p.col = 3 * e \/ p.col = 3 * e + 1
       /\ s + 3 * e + 3 <= Len(text) /\ s + p.col + 1 \in 1..Len(text)
       /\ text[s + (3 * e + 3)] = " " /\ Cell(text, p) = text[s + p.col + 1]
  BY <1>15, Zenon DEF DigitAt
<1>17. /\ Lit(text, s, e) /\ e \in Nat /\ (c = 3 * e \/ c = 3 * e + 1)
       /\ s + 3 * e + 3 <= Len(text) /\ c \div 3 = e
  BY <1>16, Zenon
<1>18. one = Put(text, s + c, <<d>>) /\ two = Put(one, s + (Ascii + e), <<Shown(code)>>)
  BY <1>9, <1>16 DEF one, two
<1> HIDE DEF c
<1>19. Redone(text, one, s, e)
  <2> DEFINE q == s + c
  <2>1. /\ q \in Nat /\ q \in 0..Len(text) /\ q < Len(text)
        /\ q + 1 = s + (3 * e + 1) \/ q + 1 = s + (3 * e + 2)
    <3>1. /\ s \in Nat /\ e \in Nat /\ c \in Nat /\ Len(text) \in Nat
          /\ c = 3 * e \/ c = 3 * e + 1
          /\ s + 3 * e + 3 <= Len(text)
      BY <1>1, <1>11, <1>17, Zenon
    <3>2. QED
      BY <3>1
  <2>2. one = Put(text, q, <<d>>) /\ d \in Cells
    BY <1>18 DEF Cells
  <2> HIDE DEF q
  <2>3. /\ one \in Seq(Cells) /\ Len(one) = (IF q < Len(text) THEN Len(text) ELSE q + 1)
        /\ one[q + 1] = d /\ \A k \in 1..Len(text) : k # q + 1 => one[k] = text[k]
    BY <1>1, <2>1, <2>2, PutOne
  <2>4. QED
    BY <2>1, <2>3 DEF Redone
<1>20. i \in Nat
  BY <1>1, <1>2
<1>21. astray \subseteq astray' /\ astray' \subseteq Kinds
  BY <1>1, <1>2 DEF Kinds
<1>22. ASSUME astray' \subseteq {"set"}
       PROVE  two = Dump(buffer')
  <2>1. second /\ astray \subseteq {"set"}
    BY <1>2, <1>22
  <2>2. text = Dump(buffer)
    BY <1>2, <2>1 DEF IInv, DumpIsBuffer, Together
  <2>3. buffer # <<>>
    BY <1>5, <2>2, DumpOfNone
  <2>4. s = LineStart(Dump(buffer), LineOf(Dump(buffer), caret))
    BY <1>12, <2>2
  <2>5. Inked(Dump(buffer)[LineStart(Dump(buffer), LineOf(Dump(buffer), caret)) + c + 1])
    BY <1>7, <1>16, <2>2, <2>4 DEF Inked, c
  <2>6. c = 3 * e \/ c = 3 * e + 1
    BY <1>17
  <2>7. caret \in 0..Len(Dump(buffer))
    BY <1>1, <2>2
  <2>8. PICK l \in 0..Bottom(buffer) :
          /\ At(Dump(buffer), caret).line = l
          /\ LineStart(Dump(buffer), LineOf(Dump(buffer), caret)) = Top(l)
          /\ l * PerLine = Row(PerLine, l) /\ Row(PerLine, l) \in Nat
          /\ e \in 0..(Held(buffer, l) - 1) /\ Row(PerLine, l) + e < Len(buffer)
    BY <1>1, <2>3, <2>5, <2>6, <2>7, DumpDigit
  <2>9. p.line = l /\ s = Top(l)
    BY <1>14, <2>2, <2>4, <2>8
  <2>10. i = Row(PerLine, l) + e
    BY <1>7, <1>16, <2>8, <2>9
  <2>11. buffer' = [buffer EXCEPT ![Row(PerLine, l) + e + 1] = code]
    BY <1>2, <2>8, <2>10 DEF Set
  <2> DEFINE o == Row(PerLine, l)
  <2>12. /\ Dump(buffer)[Top(l) + (3 * e + 1)] = Code[buffer[o + e + 1]][1]
         /\ Dump(buffer)[Top(l) + (3 * e + 2)] = Code[buffer[o + e + 1]][2]
         /\ buffer[o + e + 1] \in Byte
    BY <1>1, <2>3, <2>8, CellsAre
  <2>13. text[s + (3 * e + 2)] # " "
    <3>1. Code[buffer[o + e + 1]][2] \in Digit
      BY <2>12, CodeIs
    <3>2. QED
      BY <2>2, <2>9, <2>12, <3>1, Apart
  <2>14. c + 1 \in Nat /\ s + (c + 1) + 1 \in 1..Len(text)
    <3>1. /\ s \in Nat /\ e \in Nat /\ c \in Nat /\ Len(text) \in Nat
          /\ c = 3 * e \/ c = 3 * e + 1
          /\ s + 3 * e + 3 <= Len(text)
      BY <1>1, <1>11, <1>17, Zenon
    <3>2. QED
      BY <3>1
  <2>15. Cell(text, [line |-> p.line, col |-> c + 1]) = text[s + (c + 1) + 1]
    <3> DEFINE g == c + 1
               line == p.line
    <3>1. text \in Seq(Cells) /\ s \in Nat /\ s = LineStart(text, line)
      BY <1>1, <1>11, Zenon
    <3>2. g \in Nat /\ s + g + 1 \in 1..Len(text)
      BY <2>14
    <3> HIDE DEF g, line
    <3>3. Cell(text, [line |-> line, col |-> g]) = text[s + g + 1]
      BY <3>1, <3>2, CellIs
    <3>4. QED
      BY <3>3 DEF g, line
  <2>16. c # 3 * e
    <3>1. c = 3 * e => s + (c + 1) + 1 = s + (3 * e + 2)
      BY <1>11, <1>17
    <3>2. text[s + (c + 1) + 1] = " "
      BY <1>13, <2>1, <2>15
    <3>3. QED
      BY <2>13, <3>1, <3>2
  <2>17. c = 3 * e + 1
    BY <1>17, <2>16
  <2>18. c - 1 \in Nat /\ s + (c - 1) + 1 \in 1..Len(text) /\ s + (c - 1) + 1 = s + (3 * e + 1)
    <3>1. /\ s \in Nat /\ e \in Nat /\ c = 3 * e + 1 /\ c \in Nat /\ Len(text) \in Nat
          /\ s + 3 * e + 3 <= Len(text)
      BY <1>1, <1>11, <1>17, <2>17, Zenon
    <3>2. QED
      BY <3>1
  <2>19. Cell(text, [line |-> p.line, col |-> c - 1]) = text[s + (c - 1) + 1]
    <3> DEFINE g == c - 1
               line == p.line
    <3>1. text \in Seq(Cells) /\ s \in Nat /\ s = LineStart(text, line)
      BY <1>1, <1>11, Zenon
    <3>2. g \in Nat /\ s + g + 1 \in 1..Len(text)
      BY <2>18
    <3> HIDE DEF g, line
    <3>3. Cell(text, [line |-> line, col |-> g]) = text[s + g + 1]
      BY <3>1, <3>2, CellIs
    <3>4. QED
      BY <3>3 DEF g, line
  <2>20. digits = <<text[s + (3 * e + 1)], d>>
    BY <1>13, <2>1, <2>18, <2>19
  <2>21. Code[code][1] = Dump(buffer)[Top(l) + (3 * e + 1)] /\ Code[code][2] = d
    BY <1>4, <2>2, <2>9, <2>20
  <2>22. Put(Put(Dump(buffer), Top(l) + (3 * e + 1), <<d>>), Top(l) + (Ascii + e), <<Shown(code)>>)
           = Dump([buffer EXCEPT ![Row(PerLine, l) + e + 1] = code])
    <3>1. buffer \in Seq(Byte) /\ code \in Byte
      BY <1>1, <1>4
    <3>2. l \in 0..Bottom(buffer) /\ e \in 0..(Held(buffer, l) - 1)
      BY <2>8
    <3>3. QED
      BY <2>3, <2>21, <3>1, <3>2, InSecond
  <2>23. QED
    BY <1>18, <2>2, <2>9, <2>11, <2>17, <2>22
<1>23. text # <<>> /\ s \in Starts(text) /\ Lit(text, s, e)
  BY <1>5, <1>11, <1>17
<1>24. two = Put(one, s + (Ascii + e), <<Shown(code)>>)
  BY <1>18
<1>25. QED
  BY <1>2, <1>4, <1>19, <1>20, <1>21, <1>22, <1>23, <1>24, HexIInv

\* Each action keeps it.
LEMMA NextIInv ==
  ASSUME IInv, Next
  PROVE  IInv'
<1>1. CASE Activate
  BY <1>1, ActivateIInv
<1>2. CASE Deactivate
  BY <1>2, DeactivateIInv
<1>3. CASE Undo
  BY <1>3, UndoIInv
<1>4. CASE Save
  BY <1>4, SaveIInv
<1>5. CASE \E pos \in 0..(Width + 1) * MaxBytes : Move(pos)
  BY <1>5, MoveIInv
<1>6. CASE \E right \in BOOLEAN : Arrow(right)
  BY <1>6, ArrowIInv
<1>7. ASSUME NEW moves \in BOOLEAN, NEW c \in Byte, ReplaceAscii(c, moves)
      PROVE  IInv'
  BY <1>7, ReplaceAsciiIInv
<1>8. ASSUME NEW moves \in BOOLEAN, NEW d \in Digit, ReplaceDigit(d, moves)
      PROVE  IInv'
  BY <1>8, ReplaceDigitIInv
<1>9. ASSUME NEW b \in Byte, ReplaceByte(b) \/ InsertByte(b)
      PROVE  IInv'
  BY <1>9, ReplaceByteIInv, InsertByteIInv
<1>10. ASSUME NEW t \in Inserts, InsertAscii(t) \/ AppendText(t)
       PROVE  IInv'
  BY <1>10, InsertAsciiIInv, AppendTextIInv
<1>11. CASE \E count \in 1..2 : Erase(count)
  BY <1>11, EraseIInv
<1>12. ASSUME NEW i \in 0..(MaxBytes - 1), NEW size \in 1..PerLine, NEW blank \in BOOLEAN,
              NEW settext \in BOOLEAN, NEW with \in Inserts,
              ReplaceTarget(i, size, blank, with, settext)
       PROVE  IInv'
  <2>1. i \in Nat /\ size \in Nat
    OBVIOUS
  <2>2. QED
    BY <1>12, <2>1, ReplaceTargetIInv
<1>13. QED
  BY <1>1, <1>2, <1>3, <1>4, <1>5, <1>6, <1>7, <1>8, <1>9, <1>10, <1>11, <1>12, Zenon DEF Next

\* So does a step that does nothing.
LEMMA StutterIInv ==
  ASSUME IInv, UNCHANGED vars
  PROVE  IInv'
<1>1. /\ text' = text /\ caret' = caret /\ active' = active /\ buffer' = buffer
      /\ original' = original /\ undo' = undo /\ did' = did /\ astray' = astray
  BY DEF vars
<1>2. did'.n = did.n /\ caret' \in 0..Len(text)
  BY <1>1, Given
<1>3. QED
  BY <1>1, <1>2, CaretIInv

\* The types are part of it.
LEMMA Types ==
  ASSUME IInv
  PROVE  TypeOK
<1>1. /\ text \in Seq(Cells) /\ caret \in 0..Len(text) /\ active \in BOOLEAN
      /\ buffer \in Seq(Byte) /\ original \in Seq(Byte)
      /\ did.n \in 0..MaxEdits /\ astray \subseteq Kinds /\ Recorded(undo, did.n)
  BY Given
<1>2. /\ undo.depth \in 0..did.n /\ undo.fresh \in BOOLEAN
      /\ undo.clean \in -1..Len(undo.past)
  BY <1>1 DEF Recorded
<1>3. undo.depth \in 0..MaxEdits
  BY <1>1, <1>2, BoundsAssumed
<1>4. QED
  BY <1>1, <1>2, <1>3 DEF TypeOK, Cells, Kinds

-----------------------------------------------------------------------------
(* What replaces a target.                                                 *)

\* A line with a byte on it is a line of the dump.
LEMMA RowInside ==
  ASSUME NEW d \in Seq(Byte), NEW l \in Nat, Row(PerLine, l) < Len(d)
  PROVE  d # <<>> /\ l \in 0..Bottom(d)
<1>1. Row(PerLine, l) \in Nat /\ Len(d) \in Nat /\ PerLine \in Nat
  BY Sizes, RowIs
<1>2. d # <<>>
  BY <1>1
<1>3. Bottom(d) \in Nat /\ Len(d) - Row(PerLine, Bottom(d)) \in 1..PerLine
  BY <1>2, BottomIs
<1>4. ~ (Bottom(d) < l)
  <2>1. SUFFICES ASSUME Bottom(d) < l PROVE FALSE
    OBVIOUS
  <2>2. Row(PerLine, Bottom(d)) + PerLine <= Row(PerLine, l)
    BY <1>1, <1>3, <2>1, RowLess
  <2>3. Row(PerLine, Bottom(d)) \in Nat
    BY <1>1, <1>3, RowIs
  <2>4. QED
    BY <1>1, <1>3, <2>2, <2>3
<1>5. QED
  BY <1>2, <1>3, <1>4

\* The first digit of a byte has the index of the byte, a blank has none, and
\* behind the hex field is the other one.
LEMMA TargetPlace ==
  ASSUME NEW d \in Seq(Byte), NEW l \in Nat, Row(PerLine, l) < Len(d), NEW j \in 0..PerLine
  PROVE  LET p == Place(Dump(d), Top(l) + 3 * j)
         IN  /\ j < PerLine => Index(Dump(d), p) = IF Row(PerLine, l) + j < Len(d)
                                                   THEN Row(PerLine, l) + j ELSE -1
             /\ j < PerLine => ~IsAscii(p)
             /\ j = PerLine => IsAscii(p)
<1> DEFINE x == Dump(d)
           c == 3 * j
           o == Row(PerLine, l)
           p == [line |-> l, col |-> c]
<1>1. d # <<>> /\ l \in 0..Bottom(d)
  BY RowInside
<1>2. /\ o \in Nat /\ o < Len(d) /\ Len(d) \in Nat /\ PerLine \in Nat /\ PerLine >= 1
      /\ Top(l) \in Nat
      /\ Ascii = 3 * PerLine /\ Width = 4 * PerLine /\ Ascii \in Nat /\ Width \in Nat
  BY Sizes, RowIs, TopIs
<1>3. c \in Nat /\ c <= Ascii /\ c < Width /\ c \in 0..Width
  BY <1>2
<1>4. x \in Seq(Cells) /\ Len(x) \in Nat
  BY <1>1, DumpSize
<1>5. /\ Held(d, l) \in 1..PerLine /\ o + Held(d, l) <= Len(d)
      /\ \A e \in 0..(Held(d, l) - 1) : /\ o + e + 1 \in 1..Len(d) /\ d[o + e + 1] \in Byte
                                        /\ x[Top(l) + (3 * e + 1)] = Code[d[o + e + 1]][1]
      /\ \A k \in (3 * Held(d, l) + 1)..Ascii : x[Top(l) + k] = " "
      /\ Len(LineAt(d, l)) = Ascii + Held(d, l) + (IF l < Bottom(d) THEN 1 ELSE 0)
  BY <1>1, CellsAre
<1>6. Top(l) + Ascii < Len(x) /\ Top(l) + c < Len(x)
  <2>1. Top(l) + Len(LineAt(d, l)) <= Len(x)
    BY <1>1, DumpSize
  <2> DEFINE n == Len(LineAt(d, l))
             h == Held(d, l)
  <2>2. n > Ascii /\ n \in Nat
    <3>1. h \in 1..PerLine /\ n = Ascii + h + (IF l < Bottom(d) THEN 1 ELSE 0)
      BY <1>5
    <3> HIDE DEF n, h
    <3>2. h \in Nat /\ h >= 1 /\ (n = Ascii + h \/ n = Ascii + h + 1)
      BY <1>2, <3>1
    <3>3. QED
      BY <1>2, <3>1, <3>2
  <2> HIDE DEF n
  <2>3. QED
    BY <1>2, <1>3, <1>4, <2>1, <2>2 DEF n
<1> HIDE DEF c
<1>7. LineStart(x, l) = Top(l) /\ At(x, Top(l) + c) = p
  BY <1>1, <1>2, <1>3, <1>4, <1>6, DumpLines
<1>8. Place(x, Top(l) + c) = p
  BY <1>2, <1>3, <1>7 DEF Place
<1>9. p.col = c /\ p.line = l
  OBVIOUS
<1>10. j = PerLine => IsAscii(p)
  BY <1>2, <1>9 DEF IsAscii, c
<1>11. ASSUME j < PerLine
       PROVE  /\ ~IsAscii(p)
              /\ Index(x, p) = IF o + j < Len(d) THEN o + j ELSE -1
  <2>1. c < Ascii /\ j \in 0..(PerLine - 1)
    BY <1>2, <1>11 DEF c
  <2>2. ~IsAscii(p) /\ IsHex(p)
    BY <1>2, <1>3, <1>9, <2>1 DEF IsAscii, IsHex
  <2>3. Cell(x, p) = x[Top(l) + c + 1]
    <3>1. Top(l) + c + 1 \in 1..Len(x)
      BY <1>2, <1>3, <1>4, <1>6
    <3>2. QED
      BY <1>2, <1>3, <1>4, <1>7, <3>1, CellIs
  <2>4. Top(l) + c + 1 = Top(l) + (c + 1)
    BY <1>2, <1>3
  <2>5. Index(x, p) = IF Cell(x, p) # " " THEN l * PerLine + c \div EachField ELSE -1
    BY <1>9, <2>2, Zenon DEF Index, None
  <2>6. l * PerLine + c \div EachField = o + j
    <3>1. (3 * j) \div 3 = j
      BY <2>1
    <3>2. l * PerLine = o
      BY <1>2 DEF Row
    <3>3. EachField = 3
      BY Sizes
    <3>4. QED
      BY <3>1, <3>2, <3>3 DEF c
  <2> DEFINE h == Held(d, l)
  <2>7. h = IF Len(d) - o < PerLine THEN Len(d) - o ELSE PerLine
    BY DEF Held, Here
  <2>8. CASE o + j < Len(d)
    <3>1. j \in 0..(h - 1)
      <4> HIDE DEF h, o
      <4>1. QED
        BY <1>2, <2>1, <2>7, <2>8
    <3>2. x[Top(l) + (c + 1)] = Code[d[o + j + 1]][1] /\ d[o + j + 1] \in Byte
      BY <1>5, <3>1 DEF c
    <3>3. Code[d[o + j + 1]][1] # " "
      <4>1. Code[d[o + j + 1]][1] \in Digit
        BY <3>2, CodeAssumed
      <4>2. QED
        BY <4>1, DigitAssumed
    <3>4. QED
      BY <2>2, <2>3, <2>4, <2>5, <2>6, <2>8, <3>2, <3>3, Zenon
  <2>9. CASE ~ (o + j < Len(d))
    <3>1. c + 1 \in (3 * h + 1)..Ascii
      <4>1. h \in Nat /\ h <= j
        <5> HIDE DEF h, o
        <5>1. QED
          BY <1>2, <2>1, <2>7, <2>9
      <4> HIDE DEF h
      <4>2. QED
        BY <1>2, <2>1, <4>1 DEF c
    <3>2. x[Top(l) + (c + 1)] = " "
      BY <1>5, <3>1
    <3>3. QED
      BY <2>2, <2>3, <2>4, <2>5, <2>9, <3>2, Zenon
  <2>10. QED
    BY <2>8, <2>9
<1>12. QED
  BY <1>8, <1>10, <1>11 DEF c

\* The bytes b, with k of c from place i, for those up to m.
Spliced(x, b, i, c, k, m) ==
  /\ x \in Seq(Byte) /\ Len(x) = i + k + (Len(b) - m)
  /\ \A h \in 1..i : x[h] = b[h]
  /\ \A h \in 1..k : x[i + h] = c[h]
  /\ \A h \in 1..(Len(b) - m) : x[i + k + h] = b[m + h]

\* What that is of.
Splices(b, i, c, k, m) ==
  /\ b \in Seq(Byte) /\ c \in Seq(Byte) /\ i \in Nat /\ k \in Nat /\ m \in Nat
  /\ k <= Len(c) /\ i <= m /\ m <= Len(b)

\* Two sequences of known lengths, put together.
Join(y, S, a, b, n, m) ==
  /\ y \in Seq(S) /\ Len(y) = n + m
  /\ \A h \in 1..n : y[h] = a[h]
  /\ \A h \in 1..m : y[n + h] = b[h]

\* They are that when put together.
LEMMA JoinIs ==
  ASSUME NEW S, NEW a \in Seq(S), NEW b \in Seq(S), NEW n \in Nat, NEW m \in Nat,
         Len(a) = n, Len(b) = m
  PROVE  Join(a \o b, S, a, b, n, m)
<1> DEFINE y == a \o b
<1>1. /\ y \in Seq(S) /\ Len(y) = n + m
      /\ \A i \in 1..(n + m) : y[i] = IF i <= n THEN a[i] ELSE b[i - n]
  BY ConcatProperties
<1> HIDE DEF y
<1>2. \A i \in 1..n : i \in 1..(n + m) /\ i <= n
  OBVIOUS
<1>3. \A i \in 1..m : n + i \in 1..(n + m) /\ ~ (n + i <= n) /\ (n + i) - n = i
  OBVIOUS
<1>4. Join(y, S, a, b, n, m)
  BY <1>1, <1>2, <1>3 DEF Join
<1>5. QED
  BY <1>4 DEF y

\* In the beginning none.
LEMMA SplicedNone ==
  ASSUME NEW b \in Seq(Byte), NEW i \in 0..Len(b), NEW c
  PROVE  Spliced(b, b, i, c, 0, i)
BY DEF Spliced

\* The next byte replaces one.
LEMMA SplicedSet ==
  ASSUME NEW x, NEW b, NEW i, NEW c, NEW k, NEW m, Splices(b, i, c, k, m),
         Spliced(x, b, i, c, k, m), k < Len(c), m = i + k, m < Len(b)
  PROVE  Spliced([x EXCEPT ![i + k + 1] = c[k + 1]], b, i, c, k + 1, m + 1)
<1> DEFINE at == i + k + 1
           y == [x EXCEPT ![at] = c[k + 1]]
<1>1. /\ b \in Seq(Byte) /\ c \in Seq(Byte) /\ i \in Nat /\ k \in Nat /\ m \in Nat
      /\ Len(b) \in Nat /\ Len(c) \in Nat
  BY DEF Splices
<1>2. /\ x \in Seq(Byte) /\ Len(x) = i + k + (Len(b) - m)
      /\ \A h \in 1..i : x[h] = b[h]
      /\ \A h \in 1..k : x[i + h] = c[h]
      /\ \A h \in 1..(Len(b) - m) : x[i + k + h] = b[m + h]
  BY DEF Spliced
<1>3. k + 1 \in 1..Len(c) /\ c[k + 1] \in Byte /\ at \in 1..Len(x) /\ at \in Nat
  BY <1>1, <1>2, ElementOfSeq
<1>4. y \in Seq(Byte) /\ Len(y) = Len(x) /\ y[at] = c[k + 1]
  BY <1>2, <1>3
<1>5. \A h \in 1..Len(x) : h # at => y[h] = x[h]
  BY <1>2
<1> HIDE DEF y
<1>6. \A h \in 1..i : y[h] = b[h]
  BY <1>1, <1>2, <1>3, <1>5
<1>7. ASSUME NEW h \in 1..(k + 1) PROVE y[i + h] = c[h]
  <2>1. CASE h = k + 1
    BY <1>1, <1>4, <2>1
  <2>2. CASE h # k + 1
    <3>1. h \in 1..k /\ i + h \in 1..Len(x) /\ i + h # at
      BY <1>1, <1>2, <2>2
    <3>2. QED
      BY <1>2, <1>5, <3>1
  <2>3. QED
    BY <2>1, <2>2
<1>8. ASSUME NEW h \in 1..(Len(b) - (m + 1)) PROVE y[i + (k + 1) + h] = b[m + 1 + h]
  <2> DEFINE g == h + 1
  <2>1. g \in 1..(Len(b) - m) /\ i + k + g \in 1..Len(x) /\ i + k + g # at
    BY <1>1, <1>2
  <2>2. i + k + g = i + (k + 1) + h /\ m + g = m + 1 + h
    BY <1>1
  <2> HIDE DEF g
  <2>3. x[i + k + g] = b[m + g] /\ y[i + k + g] = x[i + k + g]
    BY <1>2, <1>5, <2>1
  <2>4. QED
    BY <2>2, <2>3
<1>9. Len(y) = i + (k + 1) + (Len(b) - (m + 1))
  BY <1>1, <1>2, <1>4
<1>10. QED
  BY <1>4, <1>6, <1>7, <1>8, <1>9 DEF Spliced, y

\* A part of a sequence.
LEMMA PartIs ==
  ASSUME NEW S, NEW s \in Seq(S), NEW f \in Nat, NEW n \in Nat, f + n <= Len(s)
  PROVE  LET p == SubSeq(s, f + 1, f + n)
         IN  p \in Seq(S) /\ Len(p) = n /\ \A h \in 1..n : p[h] = s[f + h]
<1>1. \A h \in 1..n : f + h \in 1..Len(s) /\ s[f + h] \in S
  BY ElementOfSeq
<1>2. SubSeq(s, f + 1, f + n) = [h \in 1..n |-> s[f + h]]
  OBVIOUS
<1>3. QED
  BY <1>1, <1>2

\* The next byte comes in between.
LEMMA SplicedInsert ==
  ASSUME NEW x, NEW b, NEW i, NEW c, NEW k, NEW m, Splices(b, i, c, k, m),
         Spliced(x, b, i, c, k, m), k < Len(c)
  PROVE  Spliced(Inserted(x, i + k, <<c[k + 1]>>), b, i, c, k + 1, m)
<1> DEFINE at == i + k
           one == <<c[k + 1]>>
           u == SubSeq(x, 1, at)
           v == SubSeq(x, at + 1, Len(x))
           n == Len(b) - m
<1>1. /\ b \in Seq(Byte) /\ c \in Seq(Byte) /\ i \in Nat /\ k \in Nat /\ m \in Nat
      /\ Len(b) \in Nat /\ Len(c) \in Nat /\ n \in Nat
  BY DEF Splices
<1>2. /\ x \in Seq(Byte) /\ Len(x) = at + n
      /\ \A h \in 1..i : x[h] = b[h]
      /\ \A h \in 1..k : x[i + h] = c[h]
      /\ \A h \in 1..n : x[at + h] = b[m + h]
  BY DEF Spliced
<1>3. k + 1 \in 1..Len(c) /\ c[k + 1] \in Byte /\ at \in Nat
  BY <1>1, ElementOfSeq
<1>4. one \in Seq(Byte) /\ Len(one) = 1 /\ one[1] = c[k + 1]
  BY <1>3
<1> HIDE DEF one, n, at
<1>5. u \in Seq(Byte) /\ Len(u) = at /\ \A h \in 1..at : u[h] = x[h]
  <2>1. 0 + 1 = 1 /\ 0 + at = at /\ 0 + at <= Len(x) /\ \A h \in 1..at : 0 + h = h
    BY <1>1, <1>2, <1>3
  <2>2. QED
    BY <1>2, <1>3, <2>1, PartIs
<1>6. v \in Seq(Byte) /\ Len(v) = n /\ \A h \in 1..n : v[h] = x[at + h]
  <2>1. at + n <= Len(x)
    BY <1>1, <1>2, <1>3
  <2>2. QED
    BY <1>1, <1>2, <1>3, <2>1, PartIs
<1> HIDE DEF u, v
<1>7. Join(u \o one, Byte, u, one, at, 1)
  BY <1>3, <1>4, <1>5, JoinIs
<1> DEFINE w == u \o one
<1> HIDE DEF w
<1>8. /\ w \in Seq(Byte) /\ Len(w) = at + 1 /\ w[at + 1] = c[k + 1]
      /\ \A h \in 1..at : w[h] = u[h]
  BY <1>3, <1>4, <1>7 DEF Join, w
<1> DEFINE y == w \o v
<1>9. Join(y, Byte, w, v, at + 1, n)
  BY <1>6, <1>8, JoinIs
<1> HIDE DEF y
<1>10. /\ y \in Seq(Byte) /\ Len(y) = at + 1 + n
       /\ \A h \in 1..(at + 1) : y[h] = w[h]
       /\ \A h \in 1..n : y[at + 1 + h] = v[h]
  BY <1>9 DEF Join
<1>11. Len(y) = i + (k + 1) + (Len(b) - m)
  BY <1>1, <1>10 DEF n, at
<1>12. \A h \in 1..at : y[h] = x[h]
  BY <1>3, <1>5, <1>8, <1>10
<1>13. \A h \in 1..i : y[h] = b[h]
  BY <1>1, <1>2, <1>12 DEF at
<1>14. ASSUME NEW h \in 1..(k + 1) PROVE y[i + h] = c[h]
  <2>1. CASE h = k + 1
    <3>1. i + h = at + 1 /\ at + 1 \in 1..(at + 1)
      BY <1>1, <1>3, <2>1 DEF at
    <3>2. QED
      BY <1>8, <1>10, <2>1, <3>1
  <2>2. CASE h # k + 1
    <3>1. h \in 1..k /\ i + h \in 1..at
      BY <1>1, <2>2 DEF at
    <3>2. QED
      BY <1>2, <1>12, <3>1
  <2>3. QED
    BY <2>1, <2>2
<1>15. ASSUME NEW h \in 1..n PROVE y[i + (k + 1) + h] = b[m + h]
  <2>1. i + (k + 1) + h = at + 1 + h
    BY <1>1 DEF at
  <2>2. QED
    BY <1>2, <1>6, <1>10, <2>1
<1>16. Inserted(x, i + k, <<c[k + 1]>>) = y
  BY DEF Inserted, y, w, u, v, one, at
<1>17. QED
  BY <1>10, <1>11, <1>13, <1>14, <1>15, <1>16 DEF Spliced, n

\* The bytes behind these are erased.
LEMMA SplicedErase ==
  ASSUME NEW x, NEW b, NEW i, NEW c, NEW k, NEW m, Splices(b, i, c, k, m),
         Spliced(x, b, i, c, k, m), NEW e \in Nat, m + e <= Len(b)
  PROVE  Spliced(Without(x, i + k, e), b, i, c, k, m + e)
<1> DEFINE at == i + k
           u == SubSeq(x, 1, at)
           v == SubSeq(x, at + e + 1, Len(x))
           n == Len(b) - (m + e)
           y == u \o v
<1>1. /\ b \in Seq(Byte) /\ c \in Seq(Byte) /\ i \in Nat /\ k \in Nat /\ m \in Nat
      /\ Len(b) \in Nat /\ Len(c) \in Nat /\ n \in Nat /\ at \in Nat
  BY DEF Splices
<1>2. /\ x \in Seq(Byte) /\ Len(x) = at + (Len(b) - m)
      /\ \A h \in 1..i : x[h] = b[h]
      /\ \A h \in 1..k : x[i + h] = c[h]
      /\ \A h \in 1..(Len(b) - m) : x[at + h] = b[m + h]
  BY DEF Spliced
<1>3. Len(x) = at + e + n
  BY <1>1, <1>2
<1>4. ASSUME NEW h \in 1..n PROVE x[at + e + h] = b[m + e + h]
  <2>1. e + h \in 1..(Len(b) - m) /\ at + (e + h) = at + e + h /\ m + (e + h) = m + e + h
    BY <1>1
  <2> HIDE DEF at
  <2>2. QED
    BY <1>2, <2>1
<1> HIDE DEF n, at
<1>5. u \in Seq(Byte) /\ Len(u) = at /\ \A h \in 1..at : u[h] = x[h]
  <2>1. 0 + 1 = 1 /\ 0 + at = at /\ 0 + at <= Len(x) /\ \A h \in 1..at : 0 + h = h
    BY <1>1, <1>3
  <2>2. QED
    BY <1>1, <1>2, <2>1, PartIs
<1>6. v \in Seq(Byte) /\ Len(v) = n /\ \A h \in 1..n : v[h] = x[at + e + h]
  <2> DEFINE f == at + e
  <2>1. f \in Nat /\ f + n <= Len(x) /\ f + n = Len(x)
    BY <1>1, <1>3
  <2>2. v = SubSeq(x, f + 1, f + n)
    BY <2>1
  <2> HIDE DEF f, v
  <2>3. v \in Seq(Byte) /\ Len(v) = n /\ \A h \in 1..n : v[h] = x[f + h]
    BY <1>1, <1>2, <2>1, <2>2, PartIs
  <2>4. QED
    BY <2>3 DEF f
<1> HIDE DEF u, v
<1>7. Join(y, Byte, u, v, at, n)
  BY <1>5, <1>6, JoinIs
<1> HIDE DEF y
<1>8. /\ y \in Seq(Byte) /\ Len(y) = at + n
      /\ \A h \in 1..at : y[h] = u[h]
      /\ \A h \in 1..n : y[at + h] = v[h]
  BY <1>7 DEF Join
<1>9. Len(y) = i + k + (Len(b) - (m + e))
  BY <1>8 DEF n, at
<1>10. \A h \in 1..i : y[h] = b[h]
  <2>1. \A h \in 1..i : h \in 1..at
    BY <1>1 DEF at
  <2>2. QED
    BY <1>2, <1>5, <1>8, <2>1
<1>11. \A h \in 1..k : y[i + h] = c[h]
  <2>1. \A h \in 1..k : i + h \in 1..at
    BY <1>1 DEF at
  <2>2. QED
    BY <1>2, <1>5, <1>8, <2>1
<1>12. \A h \in 1..n : y[at + h] = b[m + e + h]
  BY <1>4, <1>6, <1>8
<1>13. Without(x, i + k, e) = y
  BY DEF Without, y, u, v, at
<1>14. QED
  BY <1>8, <1>9, <1>10, <1>11, <1>12, <1>13 DEF Spliced, n, at

\* When all of c is there it is as it was cut.
LEMMA SplicedAll ==
  ASSUME NEW x, NEW b, NEW i, NEW c, NEW m, Splices(b, i, c, Len(c), m),
         Spliced(x, b, i, c, Len(c), m)
  PROVE  x = SubSeq(b, 1, i) \o c \o SubSeq(b, m + 1, Len(b))
<1> DEFINE k == Len(c)
           at == i + k
           u == SubSeq(b, 1, i)
           v == SubSeq(b, m + 1, Len(b))
           n == Len(b) - m
<1>1. /\ b \in Seq(Byte) /\ c \in Seq(Byte) /\ i \in Nat /\ k \in Nat /\ m \in Nat
      /\ Len(b) \in Nat /\ n \in Nat /\ at \in Nat /\ i <= Len(b) /\ m + n = Len(b)
  BY DEF Splices
<1>2. /\ x \in Seq(Byte) /\ Len(x) = at + n
      /\ \A h \in 1..i : x[h] = b[h]
      /\ \A h \in 1..k : x[i + h] = c[h]
      /\ \A h \in 1..n : x[at + h] = b[m + h]
  BY DEF Spliced
<1> HIDE DEF n
<1>3. u \in Seq(Byte) /\ Len(u) = i /\ \A h \in 1..i : u[h] = b[h]
  <2>1. 0 + 1 = 1 /\ 0 + i = i /\ 0 + i <= Len(b) /\ \A h \in 1..i : 0 + h = h
    BY <1>1
  <2>2. QED
    BY <1>1, <2>1, PartIs
<1>4. v \in Seq(Byte) /\ Len(v) = n /\ \A h \in 1..n : v[h] = b[m + h]
  <2>1. v = SubSeq(b, m + 1, m + n) /\ m + n <= Len(b)
    BY <1>1
  <2> HIDE DEF v
  <2>2. QED
    BY <1>1, <2>1, PartIs
<1> HIDE DEF u, v
<1> DEFINE w == u \o c
<1>5. Join(w, Byte, u, c, i, k)
  BY <1>1, <1>3, JoinIs
<1> HIDE DEF w
<1>6. /\ w \in Seq(Byte) /\ Len(w) = at
      /\ \A h \in 1..i : w[h] = u[h]
      /\ \A h \in 1..k : w[i + h] = c[h]
  BY <1>5 DEF Join
<1> DEFINE y == w \o v
<1>7. Join(y, Byte, w, v, at, n)
  BY <1>3, <1>4, <1>6, JoinIs
<1> HIDE DEF y
<1>8. /\ y \in Seq(Byte) /\ Len(y) = at + n
      /\ \A h \in 1..at : y[h] = w[h]
      /\ \A h \in 1..n : y[at + h] = v[h]
  BY <1>7 DEF Join
<1>9. ASSUME NEW z \in 1..Len(x) PROVE x[z] = y[z]
  <2>1. CASE z <= i
    <3>1. z \in 1..i /\ z \in 1..at
      BY <1>1, <2>1
    <3>2. QED
      BY <1>2, <1>3, <1>6, <1>8, <3>1
  <2>2. CASE i < z /\ z <= at
    <3> DEFINE h == z - i
    <3>1. h \in 1..k /\ z = i + h /\ z \in 1..at
      BY <1>1, <2>2
    <3> HIDE DEF h
    <3>2. QED
      BY <1>2, <1>6, <1>8, <3>1
  <2>3. CASE at < z
    <3> DEFINE h == z - at
    <3>1. h \in 1..n /\ z = at + h
      BY <1>1, <1>2, <2>3
    <3> HIDE DEF h, at
    <3>2. QED
      BY <1>2, <1>4, <1>8, <3>1
  <2>4. QED
    BY <1>1, <2>1, <2>2, <2>3
<1>10. x = y
  <2>1. Len(x) = Len(y)
    BY <1>2, <1>8
  <2>2. QED
    BY <1>2, <1>8, <1>9, <2>1, SeqEqual
<1>11. QED
  BY <1>10 DEF y, w, u, v

\* A target of size bytes from byte i, which is col on line l, and what
\* replaces it: as many bytes or fewer when the last blank is in it, otherwise
\* as many or more.
Target(b, l, col, i, size, with, start, end) ==
  /\ i = Row(PerLine, l) + col
  /\ size >= 1 /\ i + size <= Len(b) /\ col + size <= PerLine
  /\ start = Top(l) + 3 * col
  /\ \/ Len(with) <= size /\ end = start + 3 * size
     \/ Len(with) >= size /\ end = start + 3 * size - 1

\* The bytes that are gone after k steps are those up to here.
Gone(i, size, k) == IF k <= size THEN i + k ELSE i + size

\* What the loop has done after k steps.  The dump may be an older one, with
\* as many bytes.
Partly(w, b, col, i, size, with, k) ==
  w.ok =>
    /\ Spliced(w.buf, b, i, with, k, Gone(i, size, k))
    /\ \E d \in Seq(Byte) : w.dump = Dump(d) /\ Len(d) = Len(w.buf)
    /\ col + k <= PerLine

\* In the beginning the loop has done nothing.
LEMMA TargetStarts ==
  ASSUME NEW b \in Seq(Byte), NEW l \in Nat, NEW col \in Nat, NEW i \in Nat, NEW size \in Nat,
         NEW with \in Seq(Byte), NEW start \in Nat, NEW end \in Int,
         Target(b, l, col, i, size, with, start, end)
  PROVE  Partly([buf |-> b, dump |-> Dump(b), ok |-> TRUE], b, col, i, size, with, 0)
<1>1. Len(b) \in Nat /\ i + size <= Len(b) /\ col + size <= PerLine
  BY DEF Target
<1>2. i \in 0..Len(b) /\ PerLine \in Nat
  BY <1>1, Sizes
<1>3. Gone(i, size, 0) = i
  BY <1>1, <1>2 DEF Gone
<1>4. Spliced(b, b, i, with, 0, i)
  BY <1>1, <1>2, SplicedNone
<1>5. col + 0 <= PerLine
  BY <1>1, <1>2
<1>6. QED
  BY <1>1, <1>3, <1>4, <1>5 DEF Partly

\* A step replaces the next byte of the target, or inserts one behind it.
LEMMA TargetGoesOn ==
  ASSUME NEW b \in Seq(Byte), NEW l \in Nat, NEW col \in Nat, NEW i \in Nat, NEW size \in Nat,
         NEW with \in Seq(Byte), NEW start \in Nat, NEW end \in Int,
         Target(b, l, col, i, size, with, start, end),
         NEW k \in Nat, k < Len(with), NEW settext, NEW w \in Runs,
         Partly(w, b, col, i, size, with, k)
  PROVE  Partly(TargetStep(w, k + 1, start, end, with, settext), b, col, i, size, with, k + 1)
<1> DEFINE at == start + EachField * ((k + 1) - 1)
           p == Place(w.dump, at)
           h == Index(w.dump, p)
           new == IF at <= end THEN [w.buf EXCEPT ![h + 1] = with[k + 1]]
                  ELSE Inserted(w.buf, h, <<with[k + 1]>>)
           g == \/ ~w.ok
                \/ h \notin 0..(Len(w.buf) - (IF at <= end THEN 1 ELSE 0))
                \/ at > end /\ IsAscii(p)
           z == TargetStep(w, k + 1, start, end, with, settext)
           o == Row(PerLine, l)
           t == Top(l)
           nb == Len(b)
           nw == Len(with)
<1>1. z = IF g THEN [w EXCEPT !.ok = FALSE]
          ELSE [buf |-> new, ok |-> TRUE,
                dump |-> IF settext \/ at > end THEN Dump(new) ELSE w.dump]
  BY DEF TargetStep
<1>2. /\ nb \in Nat /\ nw \in Nat /\ i = o + col
      /\ size >= 1 /\ i + size <= nb /\ col + size <= PerLine
      /\ start = t + 3 * col
      /\ \/ nw <= size /\ end = start + 3 * size
         \/ nw >= size /\ end = start + 3 * size - 1
  BY DEF Target
<1>3. o \in Nat /\ PerLine \in Nat /\ t \in Nat /\ k < nw
  BY Sizes, RowIs, TopIs
<1> HIDE DEF o, t, nb, nw
<1>4. CASE g
  <2>1. z.ok = FALSE
    <3> HIDE DEF g
    <3>1. QED
      BY <1>1, <1>4 DEF Runs
  <2> HIDE DEF z
  <2>2. QED
    BY <2>1 DEF Partly, z
<1>5. CASE ~g
  <2>1. /\ w.ok /\ h \in 0..(Len(w.buf) - (IF at <= end THEN 1 ELSE 0))
        /\ ~ (at > end /\ IsAscii(p))
        /\ z = [buf |-> new, ok |-> TRUE,
                dump |-> IF settext \/ at > end THEN Dump(new) ELSE w.dump]
    BY <1>1, <1>5, Zenon
  <2> HIDE DEF g, z
  <2> DEFINE m == Gone(i, size, k)
  <2>2. Spliced(w.buf, b, i, with, k, m) /\ col + k <= PerLine
    BY <2>1 DEF Partly
  <2>3. PICK d \in Seq(Byte) : w.dump = Dump(d) /\ Len(d) = Len(w.buf)
    BY <2>1 DEF Partly
  <2>4. at = t + 3 * (col + k) /\ at \in Int
    <3>1. EachField * ((k + 1) - 1) = 3 * k
      <4>1. (k + 1) - 1 = k
        OBVIOUS
      <4>2. QED
        BY <4>1, Sizes
    <3>2. at = start + 3 * k
      BY <3>1
    <3> HIDE DEF at
    <3>3. QED
      BY <1>2, <1>3, <3>2
  <2>5. end \in Int /\ (at <= end <=> k < size)
    <3>1. end \in Int
      BY <1>2, <1>3
    <3> HIDE DEF at
    <3>2. at <= end <=> k < size
      BY <1>2, <1>3, <2>4, <3>1
    <3>3. QED
      BY <3>1, <3>2
  <2>6. /\ m = (IF k <= size THEN i + k ELSE i + size) /\ m \in Nat /\ i <= m /\ m <= nb
        /\ k < size => m = i + k /\ m < nb /\ m + 1 = Gone(i, size, k + 1)
        /\ ~ (k < size) => m = i + size /\ m = Gone(i, size, k + 1)
    BY <1>2, <1>3 DEF Gone
  <2> HIDE DEF m
  <2>7. Splices(b, i, with, k, m)
    BY <1>2, <1>3, <2>6 DEF Splices, nb, nw
  <2>8. Len(w.buf) \in Nat /\ Len(w.buf) = i + k + (nb - m) /\ w.buf \in Seq(Byte)
    <3>1. w.buf \in Seq(Byte) /\ Len(w.buf) = i + k + (nb - m)
      BY <2>2 DEF Spliced, nb
    <3>2. QED
      BY <3>1
  <2>9. o < Len(d)
    <3> DEFINE nd == Len(d)
    <3>1. nd = i + k + (nb - m)
      BY <2>3, <2>8
    <3> HIDE DEF nd
    <3>2. o < nd
      BY <1>2, <1>3, <2>6, <3>1
    <3>3. QED
      BY <3>2 DEF nd
  <2> DEFINE j == col + k
  <2>10. j \in 0..PerLine /\ o + j = i + k
    BY <1>2, <1>3, <2>2
  <2>11. /\ j < PerLine => h = IF i + k < Len(d) THEN i + k ELSE -1
         /\ j = PerLine => IsAscii(p)
    <3> HIDE DEF j
    <3>1. at = Top(l) + 3 * j
      BY <2>4 DEF j, t
    <3>2. Row(PerLine, l) < Len(d) /\ Row(PerLine, l) + j = i + k
      BY <2>9, <2>10 DEF o
    <3> HIDE DEF at
    <3>3. QED
      BY <2>3, <2>10, <3>1, <3>2, TargetPlace
  <2>12. j < PerLine /\ h = i + k /\ h \in Nat
    <3>1. j < PerLine
      <4>1. CASE k < size
        BY <1>2, <1>3, <4>1
      <4>2. CASE ~ (k < size)
        <5>1. at > end
          BY <2>4, <2>5, <4>2
        <5>2. j # PerLine
          BY <2>1, <2>11, <5>1
        <5>3. QED
          BY <1>3, <2>10, <5>2
      <4>3. QED
        BY <4>1, <4>2
    <3>2. h \in 0..(Len(w.buf) - (IF at <= end THEN 1 ELSE 0))
      BY <2>1
    <3> HIDE DEF h, at
    <3>3. h \in Nat
      BY <3>2
    <3>4. h # -1
      BY <3>3
    <3>5. h = i + k
      BY <2>11, <3>1, <3>4
    <3>6. QED
      BY <3>1, <3>3, <3>5
  <2>13. col + (k + 1) <= PerLine
    BY <1>2, <1>3, <2>12
  <2> HIDE DEF h
  <2>14. Spliced(new, b, i, with, k + 1, Gone(i, size, k + 1))
    <3>1. CASE k < size
      <4>1. new = [w.buf EXCEPT ![i + k + 1] = with[k + 1]]
        BY <2>5, <2>12, <3>1
      <4> HIDE DEF new
      <4>2. Spliced([w.buf EXCEPT ![i + k + 1] = with[k + 1]], b, i, with, k + 1, m + 1)
        <5>1. k < Len(with) /\ m = i + k /\ m < Len(b)
          BY <2>6, <3>1 DEF nb
        <5>2. QED
          BY <2>2, <2>7, <5>1, SplicedSet
      <4>3. QED
        BY <2>6, <3>1, <4>1, <4>2
    <3>2. CASE ~ (k < size)
      <4>1. new = Inserted(w.buf, i + k, <<with[k + 1]>>)
        BY <2>5, <2>12, <3>2
      <4> HIDE DEF new
      <4>2. Spliced(Inserted(w.buf, i + k, <<with[k + 1]>>), b, i, with, k + 1, m)
        BY <2>2, <2>7, SplicedInsert
      <4>3. QED
        BY <2>6, <3>2, <4>1, <4>2
    <3>3. QED
      BY <3>1, <3>2
  <2>15. at <= end => new \in Seq(Byte) /\ Len(new) = Len(w.buf)
    <3>1. SUFFICES ASSUME at <= end
                   PROVE  new \in Seq(Byte) /\ Len(new) = Len(w.buf)
      OBVIOUS
    <3>2. new \in Seq(Byte) /\ Len(new) = i + (k + 1) + (nb - Gone(i, size, k + 1))
      BY <2>14 DEF Spliced, nb
    <3> HIDE DEF new
    <3>3. k < size
      BY <2>5, <3>1
    <3>4. Len(new) = i + (k + 1) + (nb - (m + 1))
      BY <2>6, <3>2, <3>3
    <3>5. Len(new) = i + k + (nb - m)
      <4>1. nb \in Nat /\ m \in Nat
        BY <1>2, <2>6
      <4>2. i + (k + 1) + (nb - (m + 1)) = i + k + (nb - m)
        BY <4>1
      <4>3. QED
        BY <3>4, <4>2
    <3>6. QED
      BY <2>8, <3>2, <3>5
  <2>16. new \in Seq(Byte)
    BY <2>14 DEF Spliced
  <2> HIDE DEF new, at
  <2>17. \E e \in Seq(Byte) : z.dump = Dump(e) /\ Len(e) = Len(new)
    <3>1. CASE settext \/ at > end
      <4>1. z.dump = Dump(new)
        BY <2>1, <3>1
      <4>2. QED
        BY <2>16, <4>1
    <3>2. CASE ~ (settext \/ at > end)
      <4>1. z.dump = w.dump
        BY <2>1, <3>2
      <4>2. at <= end
        BY <2>4, <2>5, <3>2
      <4>3. QED
        BY <2>3, <2>15, <4>1, <4>2
    <3>3. QED
      BY <3>1, <3>2
  <2>18. z.buf = new
    BY <2>1
  <2>19. Partly(z, b, col, i, size, with, k + 1)
    BY <2>13, <2>14, <2>17, <2>18 DEF Partly
  <2>20. QED
    BY <2>19 DEF z
<1>6. QED
  BY <1>4, <1>5

\* What the loop and the end of it make of b.
Ended(w, start, end, with, b, i, size) ==
  TargetEnd(w, start, end, with) = SubSeq(b, 1, i) \o with \o SubSeq(b, i + size + 1, Len(b))

\* In the end what is left of the target is erased.
LEMMA TargetEnds ==
  ASSUME NEW b \in Seq(Byte), NEW l \in Nat, NEW col \in Nat, NEW i \in Nat, NEW size \in Nat,
         NEW with \in Seq(Byte), NEW start \in Nat, NEW end \in Int,
         Target(b, l, col, i, size, with, start, end),
         NEW w \in Runs, w.ok, Partly(w, b, col, i, size, with, Len(with))
  PROVE  Ended(w, start, end, with, b, i, size)
<1> DEFINE n == Len(with)
           at == start + EachField * n
           h == Index(w.dump, Place(w.dump, at))
           x == TargetEnd(w, start, end, with)
           m == Gone(i, size, n)
           o == Row(PerLine, l)
           t == Top(l)
           nb == Len(b)
<1>1. x = IF at >= end \/ h \notin 0..(Len(w.buf) - 1) THEN w.buf
          ELSE Without(w.buf, h, (end - at) \div EachField)
  BY DEF TargetEnd
<1>2. /\ nb \in Nat /\ n \in Nat /\ i = o + col
      /\ size >= 1 /\ i + size <= nb /\ col + size <= PerLine
      /\ start = t + 3 * col
      /\ \/ n <= size /\ end = start + 3 * size
         \/ n >= size /\ end = start + 3 * size - 1
  BY DEF Target
<1>3. o \in Nat /\ PerLine \in Nat /\ t \in Nat
  BY Sizes, RowIs, TopIs
<1>4. Spliced(w.buf, b, i, with, n, m)
  BY DEF Partly
<1>5. PICK d \in Seq(Byte) : w.dump = Dump(d) /\ Len(d) = Len(w.buf)
  BY DEF Partly
<1> HIDE DEF x, n, o, t, nb
<1>6. at = t + 3 * (col + n) /\ at \in Int /\ end \in Int
  <2>1. at = start + 3 * n
    BY Sizes
  <2> HIDE DEF at
  <2>2. QED
    BY <1>2, <1>3, <2>1
<1>7. /\ m \in Nat /\ i <= m /\ m <= nb
      /\ n < size => m = i + n
      /\ ~ (n < size) => m = i + size
  BY <1>2, <1>3 DEF Gone
<1> HIDE DEF m
<1>8. Splices(b, i, with, n, m)
  BY <1>2, <1>3, <1>7 DEF Splices, n, nb
<1>9. Spliced(x, b, i, with, n, i + size)
  <2>1. CASE ~ (n < size)
    <3> HIDE DEF at
    <3>1. at >= end
      BY <1>2, <1>3, <1>6, <2>1
    <3>2. x = w.buf
      BY <1>1, <3>1
    <3>3. QED
      BY <1>4, <1>7, <2>1, <3>2
  <2>2. CASE n < size
    <3>1. end = start + 3 * size
      BY <1>2, <2>2
    <3> HIDE DEF at
    <3>2. at < end /\ end - at = 3 * (size - n)
      BY <1>2, <1>3, <1>6, <2>2, <3>1
    <3>3. (end - at) \div EachField = size - n
      <4> DEFINE e == size - n
      <4>1. e \in Nat
        BY <1>2, <2>2
      <4> HIDE DEF e
      <4>2. (3 * e) \div 3 = e
        BY <4>1
      <4>3. QED
        BY <3>2, <4>2, Sizes DEF e
    <3>4. Len(w.buf) = nb
      <4>1. Len(w.buf) = i + n + (nb - m)
        BY <1>4 DEF Spliced, nb
      <4>2. i + n + (nb - m) = nb
        BY <1>2, <1>3, <1>7, <2>2
      <4>3. QED
        BY <4>1, <4>2
    <3> DEFINE j == col + n
    <3>5. j \in 0..PerLine /\ j < PerLine /\ o + j = i + n /\ i + n < nb
      BY <1>2, <1>3, <2>2
    <3>6. o < nb /\ nb = Len(d)
      <4>1. o < nb
        BY <1>2, <1>3
      <4>2. QED
        BY <1>5, <3>4, <4>1
    <3>7. h = i + n
      <4> HIDE DEF j
      <4>1. at = Top(l) + 3 * j
        BY <1>6 DEF j, t
      <4>2. Row(PerLine, l) < Len(d) /\ Row(PerLine, l) + j = i + n /\ i + n < Len(d)
        BY <3>5, <3>6 DEF o
      <4>3. Index(Dump(d), Place(Dump(d), at)) = i + n
        BY <3>5, <4>1, <4>2, TargetPlace
      <4>4. QED
        BY <1>5, <4>3
    <3>8. h \in 0..(Len(w.buf) - 1)
      <4> HIDE DEF h
      <4>1. QED
        BY <1>2, <1>3, <3>4, <3>5, <3>7
    <3> HIDE DEF h, at
    <3>9. x = Without(w.buf, i + n, size - n)
      BY <1>1, <1>6, <3>2, <3>3, <3>7, <3>8
    <3>10. size - n \in Nat /\ m + (size - n) = i + size /\ m + (size - n) <= Len(b)
      <4>1. size - n \in Nat /\ m + (size - n) = i + size /\ m + (size - n) <= nb
        BY <1>2, <1>3, <1>7, <2>2
      <4>2. QED
        BY <4>1 DEF nb
    <3>11. Spliced(Without(w.buf, i + n, size - n), b, i, with, n, m + (size - n))
      BY <1>4, <1>8, <3>10, SplicedErase
    <3>12. QED
      BY <3>9, <3>10, <3>11
  <2>3. QED
    BY <2>1, <2>2
<1>10. Splices(b, i, with, n, i + size)
  BY <1>2, <1>3 DEF Splices, n, nb
<1>11. x = SubSeq(b, 1, i) \o with \o SubSeq(b, i + size + 1, Len(b))
  BY <1>9, <1>10, SplicedAll DEF n
<1>12. QED
  BY <1>11 DEF x, Ended

\* A target is replaced as a whole.
LEMMA TargetDone ==
  ASSUME IInv, Together, NEW i \in Nat, NEW size \in 1..PerLine, NEW blank \in BOOLEAN,
         NEW with \in Inserts, NEW settext \in BOOLEAN,
         ReplaceTarget(i, size, blank, with, settext),
         blank => Len(with) <= size, ~blank => Len(with) >= size
  PROVE  buffer' = SubSeq(buffer, 1, i) \o with \o SubSeq(buffer, i + size + 1, Len(buffer))
<1> DEFINE l     == i \div PerLine
           col   == i % PerLine
           start == LineStart(text, l) + EachField * col
           end   == start + EachField * size - (IF blank THEN 0 ELSE 1)
           w     == [buf |-> buffer, dump |-> text, ok |-> TRUE]
           run   == CHOOSE run : run = [k \in 0..Len(with) |->
                      IF k = 0 THEN w
                      ELSE TargetStep(run[k - 1], k, start, end, with, settext)]
           buf   == TargetEnd(run[Len(with)], start, end, with)
<1>1. /\ SetText(buf, caret) /\ run[Len(with)].ok
      /\ i + size <= Len(buffer) /\ col + size <= PerLine
  BY DEF ReplaceTarget
<1>2. buffer' = buf
  BY <1>1 DEF SetText
<1>3. /\ with \in Seq(Byte) /\ text \in Seq(Cells) /\ buffer \in Seq(Byte)
      /\ Len(with) \in Nat /\ Len(buffer) \in Nat /\ size \in Nat /\ size >= 1
      /\ text = Dump(buffer)
  BY Given, BoundsAssumed DEF IInv, DumpIsBuffer
<1>4. w \in Runs
  BY <1>3 DEF Runs
<1>5. /\ l \in Nat /\ col \in Nat /\ i = Row(PerLine, l) + col
      /\ Row(PerLine, l) \in Nat /\ Top(l) \in Nat
  <2>1. l \in Nat /\ col \in 0..(PerLine - 1) /\ i = Row(PerLine, l) + col
    BY LineAssumed, RowDiv
  <2> HIDE DEF l, col
  <2>2. Row(PerLine, l) \in Nat /\ Top(l) \in Nat
    BY <2>1, Sizes, RowIs, TopIs
  <2>3. QED
    BY <2>1, <2>2
<1> HIDE DEF l, col
<1>6. LineStart(text, l) = Top(l)
  <2>1. Row(PerLine, l) < Len(buffer)
    <3> DEFINE o == Row(PerLine, l)
               n == Len(buffer)
    <3>1. o \in Nat /\ n \in Nat /\ i = o + col /\ i + size <= n
      BY <1>1, <1>3, <1>5
    <3> HIDE DEF o, n
    <3>2. o < n
      BY <1>3, <1>5, <3>1
    <3>3. QED
      BY <3>2 DEF o, n
  <2>2. buffer # <<>> /\ l \in 0..Bottom(buffer)
    BY <1>3, <1>5, <2>1, RowInside
  <2>3. Top(l) + 0 <= Len(Dump(buffer)) /\ 0 \in 0..Width
    <3>1. Width \in Nat
      BY Sizes
    <3>2. /\ Top(l) + Len(LineAt(buffer, l)) <= Len(Dump(buffer))
          /\ Len(Dump(buffer)) \in Nat
      BY <1>3, <2>2, DumpSize
    <3>3. Len(LineAt(buffer, l)) \in Nat
      <4>1. /\ Held(buffer, l) \in 1..PerLine
            /\ Len(LineAt(buffer, l)) = Ascii + Held(buffer, l)
                                         + (IF l < Bottom(buffer) THEN 1 ELSE 0)
        BY <1>3, <2>2, CellsAre
      <4> DEFINE h == Held(buffer, l)
      <4> HIDE DEF h
      <4>2. h \in Nat /\ Ascii \in Nat
        BY <4>1, Sizes DEF h
      <4>3. QED
        BY <4>1, <4>2 DEF h
    <3>4. QED
      BY <1>5, <3>1, <3>2, <3>3
  <2>4. QED
    BY <1>3, <2>2, <2>3, DumpLines
<1>7. start = Top(l) + 3 * col /\ start \in Nat
  BY <1>5, <1>6 DEF EachField
<1> HIDE DEF start
<1>8. /\ end \in Int
      /\ \/ Len(with) <= size /\ end = start + 3 * size
         \/ Len(with) >= size /\ end = start + 3 * size - 1
  <2>1. CASE blank
    <3>1. end = start + 3 * size
      BY <1>3, <1>7, <2>1 DEF EachField
    <3> HIDE DEF end
    <3>2. QED
      BY <1>3, <1>7, <2>1, <3>1
  <2>2. CASE ~blank
    <3>1. end = start + 3 * size - 1
      BY <1>3, <1>7, <2>2 DEF EachField
    <3> HIDE DEF end
    <3>2. QED
      BY <1>3, <1>7, <2>2, <3>1
  <2>3. QED
    BY <2>1, <2>2
<1> HIDE DEF end
<1>9. Target(buffer, l, col, i, size, with, start, end)
  BY <1>1, <1>3, <1>5, <1>7, <1>8 DEF Target
<1>10. Partly(w, buffer, col, i, size, with, 0)
  <2>1. w = [buf |-> buffer, dump |-> Dump(buffer), ok |-> TRUE]
    BY <1>3
  <2> HIDE DEF w
  <2>2. Partly([buf |-> buffer, dump |-> Dump(buffer), ok |-> TRUE], buffer, col, i, size,
               with, 0)
    BY <1>3, <1>5, <1>7, <1>8, <1>9, TargetStarts
  <2>3. QED
    BY <2>1, <2>2
<1> HIDE DEF w
<1>11. run = [k \in 0..Len(with) |->
                IF k = 0 THEN w ELSE TargetStep(run[k - 1], k, start, end, with, settext)]
  <2> DEFINE n == Len(with)
             again == settext
  <2>1. n \in Nat
    BY <1>3
  <2> HIDE DEF n, again
  <2>2. \E f : IsRun(f, w, start, end, with, again, n)
    BY <2>1, TargetRuns
  <2>3. \E f : f = [k \in 0..Len(with) |->
                      IF k = 0 THEN w ELSE TargetStep(f[k - 1], k, start, end, with, settext)]
    BY <2>2 DEF n, again, IsRun
  <2>4. QED
    BY <2>3
<1> HIDE DEF run
<1>12. run[Len(with)] \in Runs /\ Partly(run[Len(with)], buffer, col, i, size, with, Len(with))
  <2> DEFINE n == Len(with)
             P == {k \in Nat : k <= n => /\ run[k] \in Runs
                                         /\ Partly(run[k], buffer, col, i, size, with, k)}
  <2>1. 0 \in P
    <3>1. run[0] = w
      BY <1>3, <1>11
    <3>2. QED
      BY <1>4, <1>10, <3>1
  <2>2. ASSUME NEW k \in Nat, k \in P
        PROVE  k + 1 \in P
    <3>1. SUFFICES ASSUME k + 1 <= n
                   PROVE  /\ run[k + 1] \in Runs
                          /\ Partly(run[k + 1], buffer, col, i, size, with, k + 1)
      OBVIOUS
    <3>2. k + 1 \in 1..n /\ k + 1 \in 0..n /\ (k + 1) - 1 = k /\ k + 1 # 0 /\ k <= n /\ k < n
      BY <1>3, <3>1
    <3>3. run[k] \in Runs /\ Partly(run[k], buffer, col, i, size, with, k)
      BY <2>2, <3>2
    <3>4. run[k + 1] = TargetStep(run[k], k + 1, start, end, with, settext)
      BY <1>11, <3>2
    <3>5. TargetStep(run[k], k + 1, start, end, with, settext) \in Runs
      BY <1>3, <3>2, <3>3, TargetStepIs
    <3>6. Partly(TargetStep(run[k], k + 1, start, end, with, settext), buffer, col, i, size,
                 with, k + 1)
      BY <1>3, <1>5, <1>7, <1>8, <1>9, <3>2, <3>3, TargetGoesOn
    <3>7. QED
      BY <3>4, <3>5, <3>6
  <2>3. n \in P
    <3> HIDE DEF P
    <3>1. n \in Nat
      BY <1>3
    <3> HIDE DEF n
    <3>2. QED
      BY <2>1, <2>2, <3>1, Induction
  <2>4. QED
    BY <1>3, <2>3
<1>13. buf = SubSeq(buffer, 1, i) \o with \o SubSeq(buffer, i + size + 1, Len(buffer))
  <2> DEFINE r == run[Len(with)]
  <2>1. r \in Runs /\ r.ok /\ Partly(r, buffer, col, i, size, with, Len(with))
    BY <1>1, <1>12
  <2>2. buf = TargetEnd(r, start, end, with)
    OBVIOUS
  <2>3. /\ buffer \in Seq(Byte) /\ with \in Seq(Byte) /\ size \in Nat
        /\ l \in Nat /\ col \in Nat /\ start \in Nat /\ end \in Int
    BY <1>3, <1>5, <1>7, <1>8
  <2> HIDE DEF r, buf
  <2>4. Ended(r, start, end, with, buffer, i, size)
    BY <1>9, <2>1, <2>3, TargetEnds
  <2>5. QED
    BY <2>2, <2>4 DEF Ended
<1>14. QED
  BY <1>2, <1>13

\* What a step does to a target.
Replaces ==
  LET e == did'
  IN  did.n # e.n /\ Together
      /\ \/ e.op = "target" /\ Len(e.with) <= e.size
         \/ e.op = "target short" /\ Len(e.with) >= e.size
      => buffer' = SubSeq(buffer, 1, e.i) \o e.with
                   \o SubSeq(buffer, e.i + e.size + 1, Len(buffer))

\* An edit of another kind is none of a target.
LEMMA OtherEdit ==
  ASSUME NEW op, op \notin {"target", "target short"}, NEW i, NEW with, NEW size,
         Edit(op, i, with, size)
  PROVE  Replaces
<1>1. did'.op = op
  BY DEF Edit
<1>2. QED
  BY <1>1, Zenon DEF Replaces

\* Nor is a step that is no edit.
LEMMA NoEdit ==
  ASSUME did'.n = did.n
  PROVE  Replaces
BY DEF Replaces

\* Every step does.
LEMMA NextReplaces ==
  ASSUME IInv, [Next]_vars
  PROVE  Replaces
<1>1. CASE Activate
  BY <1>1, OtherEdit DEF Activate
<1>2. CASE Deactivate
  BY <1>2, OtherEdit DEF Deactivate
<1>3. CASE Undo
  BY <1>3, OtherEdit DEF Undo
<1>4. CASE Save
  BY <1>4, NoEdit DEF Save
<1>5. ASSUME NEW pos \in 0..(Width + 1) * MaxBytes, Move(pos)
      PROVE  Replaces
  <2>1. did' = [n |-> did.n, op |-> "move", i |-> 0, with |-> <<>>, size |-> 0]
    BY <1>5 DEF Move
  <2>2. QED
    BY <2>1, NoEdit
<1>6. ASSUME NEW right \in BOOLEAN, Arrow(right)
      PROVE  Replaces
  <2>1. did' = [n |-> did.n, op |-> "arrow", i |-> 0, with |-> <<>>,
                size |-> IF right THEN 1 ELSE -1]
    BY <1>6, Zenon DEF Arrow
  <2>2. QED
    BY <2>1, NoEdit
<1>7. ASSUME NEW moves \in BOOLEAN, NEW c \in Byte, ReplaceAscii(c, moves)
      PROVE  Replaces
  BY <1>7, OtherEdit DEF ReplaceAscii
<1>8. ASSUME NEW moves \in BOOLEAN, NEW d \in Digit, ReplaceDigit(d, moves)
      PROVE  Replaces
  BY <1>8, OtherEdit DEF ReplaceDigit
<1>9. ASSUME NEW b \in Byte, ReplaceByte(b) \/ InsertByte(b)
      PROVE  Replaces
  BY <1>9, OtherEdit DEF ReplaceByte, InsertByte
<1>10. ASSUME NEW t \in Inserts, InsertAscii(t) \/ AppendText(t)
       PROVE  Replaces
  BY <1>10, OtherEdit DEF InsertAscii, AppendText
<1>11. ASSUME NEW count \in 1..2, Erase(count)
       PROVE  Replaces
  BY <1>11, OtherEdit DEF Erase
<1>12. ASSUME NEW i \in 0..(MaxBytes - 1), NEW size \in 1..PerLine, NEW blank \in BOOLEAN,
              NEW settext \in BOOLEAN, NEW with \in Inserts,
              ReplaceTarget(i, size, blank, with, settext)
       PROVE  Replaces
  <2>1. i \in Nat
    OBVIOUS
  <2>2. Edit(IF blank THEN "target" ELSE "target short", i, with, size)
    BY <1>12 DEF ReplaceTarget
  <2>3. /\ did'.op = IF blank THEN "target" ELSE "target short"
        /\ did'.i = i /\ did'.with = with /\ did'.size = size
    BY <2>2 DEF Edit
  <2>4. ASSUME Together,
               \/ did'.op = "target" /\ Len(did'.with) <= did'.size
               \/ did'.op = "target short" /\ Len(did'.with) >= did'.size
        PROVE  buffer' = SubSeq(buffer, 1, did'.i) \o did'.with
                         \o SubSeq(buffer, did'.i + did'.size + 1, Len(buffer))
    <3>1. blank => Len(with) <= size
      BY <2>3, <2>4
    <3>2. ~blank => Len(with) >= size
      BY <2>3, <2>4
    <3>3. buffer' = SubSeq(buffer, 1, i) \o with \o SubSeq(buffer, i + size + 1, Len(buffer))
      BY <1>12, <2>1, <2>4, <3>1, <3>2, TargetDone
    <3>4. QED
      BY <2>3, <3>3
  <2>5. QED
    BY <2>4, Zenon DEF Replaces
<1>13. CASE UNCHANGED vars
  BY <1>13, NoEdit DEF vars
<1>14. QED
  BY <1>1, <1>2, <1>3, <1>4, <1>5, <1>6, <1>7, <1>8, <1>9, <1>10, <1>11, <1>12, <1>13, Zenon
     DEF Next

-----------------------------------------------------------------------------
(* What holds in every state.                                              *)

(* What undo may bring back is kept apart by what it looks like: a dump,   *)
(* also one that went astray, or a text of the buffer's characters.  That  *)
(* is why the mode that undo infers from the text, and the buffer it       *)
(* restores with it, fit each other: hexmode::undo.                        *)
THEOREM InductiveInvariant == Spec => []IInv
<1>1. Init => IInv
  BY InitIInv
<1>2. IInv /\ [Next]_vars => IInv'
  BY NextIInv, StutterIInv
<1>3. QED
  BY <1>1, <1>2, PTL DEF Spec

(* The types of the variables: the texts are of bytes, digits and what is  *)
(* between these, and the caret and the save point lie within the text and *)
(* the history of undo.                                                    *)
THEOREM TypeCorrect == Spec => []TypeOK
<1>1. IInv => TypeOK
  BY Types
<1>2. QED
  BY <1>1, InductiveInvariant, PTL

(* In hex mode the dump shows the buffer, which is what a save writes, as  *)
(* long as nothing astray happened: edits of a byte in one of its fields   *)
(* change the other and the buffer alike, insertions, deletions and the    *)
(* replacement of a target make the dump of the buffer they made, and the  *)
(* undo of the group that the activation opened restores both.  It is for  *)
(* any number of bytes on a line, and any codes of them.                   *)
THEOREM DumpAlwaysBuffer == Spec => []DumpIsBuffer
<1>1. IInv => DumpIsBuffer
  BY DEF IInv
<1>2. QED
  BY <1>1, InductiveInvariant, PTL

(* A target that ends with the blank of its last byte is replaced by as    *)
(* many bytes or fewer, and one that ends in front of that by as many or   *)
(* more, so that the bytes around it stay: after each step of              *)
(* replace_target the bytes it has put are there, those behind them are    *)
(* the ones of the buffer, and the dump it looks at has as many bytes.     *)
THEOREM TargetAlwaysReplaced == Spec => TargetReplaced
<1>1. IInv /\ [Next]_vars => [Replaces]_vars
  BY NextReplaces
<1>2. QED
  BY <1>1, InductiveInvariant, PTL DEF Spec, TargetReplaced, Replaces

=============================================================================
