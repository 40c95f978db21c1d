--------------------------- MODULE ExCommand_proofs ----------------------------
(***************************************************************************)
(* For every set of characters, registers, clipboards and given commands:  *)
(* the types of ExCommand, and that the command and what the line shows    *)
(* stay the same text, whatever keys, pastes, registers and selections     *)
(* there were, but for the listed causes.                                  *)
(***************************************************************************)
EXTENDS ExCommand, SequenceTheorems, WellFoundedInduction, TLAPS

-----------------------------------------------------------------------------
(* Numbers and sequences.                                                  *)

\* Induction over a set of numbers.
LEMMA Induction ==
  ASSUME NEW S, 0 \in S, \A k \in Nat : k \in S => k + 1 \in S
  PROVE  \A k \in Nat : k \in S
<1> DEFINE bad == {k \in Nat : k \notin S}
<1>1. \A k \in Nat : k \in S <=> k \notin bad
  OBVIOUS
<1>2. bad \subseteq Nat
  OBVIOUS
<1> HIDE DEF bad
<1>3. ASSUME bad # {}
      PROVE  FALSE
  <2>1. PICK k \in bad : \A i \in bad : ~ (<<i, k>> \in OpToRel(<, Nat))
    BY <1>2, <1>3, NatLessThanWellFounded, WFMin
  <2>2. \A i \in bad : ~ (i < k)
    BY <1>2, <2>1 DEF OpToRel
  <2>3. k \in Nat /\ k # 0
    BY <1>1, <1>2
  <2>4. k - 1 \in Nat /\ k - 1 < k /\ (k - 1) + 1 = k
    BY <2>3
  <2>5. k - 1 \in S
    BY <1>1, <2>2, <2>4
  <2>6. k \in S
    BY <2>4, <2>5
  <2>7. QED
    BY <1>1, <2>3, <2>6
<1>4. QED
  BY <1>1, <1>3

\* A part of a text that is replaced.
Replaced(r, i, j, s) == SubSeq(r, 1, i) \o s \o SubSeq(r, j + 1, Len(r))

\* A text from its begin, and one to its end.
LEMMA Halves ==
  ASSUME NEW S, NEW r \in Seq(S), NEW i \in 0..Len(r)
  PROVE  /\ SubSeq(r, 1, i) \in Seq(S) /\ Len(SubSeq(r, 1, i)) = i
         /\ SubSeq(r, i + 1, Len(r)) \in Seq(S)
         /\ Len(SubSeq(r, i + 1, Len(r))) = Len(r) - i
         /\ \A k \in 1..i : SubSeq(r, 1, i)[k] = r[k]
         /\ \A k \in 1..(Len(r) - i) : SubSeq(r, i + 1, Len(r))[k] = r[i + k]
         /\ SubSeq(r, 1, i) \o SubSeq(r, i + 1, Len(r)) = r
<1>1. Len(r) \in Nat /\ \A k \in 1..Len(r) : r[k] \in S
  OBVIOUS
<1>2. /\ SubSeq(r, 1, i) \in Seq(S) /\ Len(SubSeq(r, 1, i)) = i
      /\ \A k \in 1..i : SubSeq(r, 1, i)[k] = r[k]
  BY <1>1
<1>3. /\ SubSeq(r, i + 1, Len(r)) \in Seq(S)
      /\ Len(SubSeq(r, i + 1, Len(r))) = Len(r) - i
      /\ \A k \in 1..(Len(r) - i) : SubSeq(r, i + 1, Len(r))[k] = r[i + k]
  BY <1>1
<1>4. SubSeq(r, 1, i) \o SubSeq(r, i + 1, Len(r)) = r
  <2>1. SubSeq(r, 1, Len(r)) = r
    BY SubSeqFull
  <2>2. 1 \in 1..(Len(r) + 1) /\ i \in (1 - 1)..Len(r) /\ Len(r) \in i..Len(r)
    BY <1>1
  <2>3. QED
    BY <2>1, <2>2, ConcatAdjacentSubSeq
<1>5. QED
  BY <1>2, <1>3, <1>4

\* The two parts of a text come apart where they were put together.
LEMMA Apart ==
  ASSUME NEW S, NEW a \in Seq(S), NEW b \in Seq(S)
  PROVE  /\ SubSeq(a \o b, 1, Len(a)) = a
         /\ SubSeq(a \o b, Len(a) + 1, Len(a \o b)) = b
<1> DEFINE c == a \o b
           k == Len(a)
<1>1. /\ c \in Seq(S) /\ Len(c) = Len(a) + Len(b) /\ Len(a) \in Nat /\ Len(b) \in Nat
      /\ \A l \in 1..Len(a) : c[l] = a[l]
      /\ \A l \in 1..Len(b) : c[Len(a) + l] = b[l]
  <2>1. /\ c \in Seq(S) /\ Len(c) = Len(a) + Len(b) /\ Len(a) \in Nat /\ Len(b) \in Nat
        /\ \A l \in 1..(Len(a) + Len(b)) : c[l] = IF l <= Len(a) THEN a[l] ELSE b[l - Len(a)]
    BY ConcatProperties
  <2> HIDE DEF c
  <2>2. ASSUME NEW l \in 1..Len(a)
        PROVE  c[l] = a[l]
    BY <2>1
  <2>3. ASSUME NEW l \in 1..Len(b)
        PROVE  c[Len(a) + l] = b[l]
    <3>1. /\ Len(a) + l \in 1..(Len(a) + Len(b)) /\ ~ (Len(a) + l <= Len(a))
          /\ (Len(a) + l) - Len(a) = l
      BY <2>1
    <3>2. QED
      BY <2>1, <3>1
  <2>4. QED
    BY <2>1, <2>2, <2>3
<1>2. k \in 0..Len(c) /\ Len(c) - k = Len(b)
  BY <1>1
<1> HIDE DEF c, k
<1>3. /\ SubSeq(c, 1, k) \in Seq(S) /\ Len(SubSeq(c, 1, k)) = k
      /\ SubSeq(c, k + 1, Len(c)) \in Seq(S)
      /\ Len(SubSeq(c, k + 1, Len(c))) = Len(c) - k
      /\ \A l \in 1..k : SubSeq(c, 1, k)[l] = c[l]
      /\ \A l \in 1..(Len(c) - k) : SubSeq(c, k + 1, Len(c))[l] = c[k + l]
  BY <1>1, <1>2, Halves
<1>4. SubSeq(c, 1, k) = a
  <2>1. \A l \in 1..Len(SubSeq(c, 1, k)) : SubSeq(c, 1, k)[l] = a[l]
    BY <1>1, <1>3 DEF k
  <2>2. Len(SubSeq(c, 1, k)) = Len(a)
    BY <1>3 DEF k
  <2>3. QED
    BY <1>3, <2>1, <2>2, SeqEqual
<1>5. SubSeq(c, k + 1, Len(c)) = b
  <2>1. \A l \in 1..Len(SubSeq(c, k + 1, Len(c))) : SubSeq(c, k + 1, Len(c))[l] = b[l]
    BY <1>1, <1>2, <1>3 DEF k
  <2>2. Len(SubSeq(c, k + 1, Len(c))) = Len(b)
    BY <1>2, <1>3
  <2>3. QED
    BY <1>3, <2>1, <2>2, SeqEqual
<1>6. QED
  BY <1>4, <1>5 DEF c, k

\* A part of a text is the same part of it behind a prefix.
LEMMA Prefix ==
  ASSUME NEW S, NEW p \in Seq(S), NEW r \in Seq(S), NEW i \in 0..Len(r)
  PROVE  /\ p \o r \in Seq(S) /\ Len(p \o r) = Len(p) + Len(r)
         /\ SubSeq(p \o r, 1, Len(p) + i) = p \o SubSeq(r, 1, i)
         /\ SubSeq(p \o r, Len(p) + i + 1, Len(p \o r)) = SubSeq(r, i + 1, Len(r))
<1> DEFINE u == SubSeq(r, 1, i)
           v == SubSeq(r, i + 1, Len(r))
<1>1. u \in Seq(S) /\ Len(u) = i /\ v \in Seq(S) /\ u \o v = r
  BY Halves
<1> HIDE DEF u, v
<1>2. p \o u \in Seq(S) /\ Len(p \o u) = Len(p) + i
  BY <1>1, ConcatProperties
<1>3. (p \o u) \o v = p \o (u \o v)
  <2>1. u \in Seq(S) /\ v \in Seq(S)
    BY <1>1
  <2>2. QED
    BY <2>1, ConcatAssociative
<1>4. /\ SubSeq(p \o r, 1, Len(p) + i) = p \o u
      /\ SubSeq(p \o r, Len(p) + i + 1, Len(p \o r)) = v
  <2> DEFINE a == p \o u
  <2>1. a \in Seq(S) /\ Len(a) = Len(p) + i /\ a \o v = p \o r
    BY <1>1, <1>2, <1>3
  <2> HIDE DEF a
  <2>2. SubSeq(a \o v, 1, Len(a)) = a /\ SubSeq(a \o v, Len(a) + 1, Len(a \o v)) = v
    BY <1>1, <2>1, Apart
  <2>3. SubSeq(p \o r, 1, Len(p) + i) = a /\ SubSeq(p \o r, Len(p) + i + 1, Len(p \o r)) = v
    BY <2>1, <2>2
  <2>4. QED
    BY <2>3 DEF a
<1>5. p \o r \in Seq(S) /\ Len(p \o r) = Len(p) + Len(r)
  BY ConcatProperties
<1>6. QED
  BY <1>4, <1>5 DEF u, v

-----------------------------------------------------------------------------
(* What a text stands for.                                                 *)

Clean(r) == \A i \in DOMAIN r : r[i] # "^R"

\* The symbols that are typed, and the names of registers.
LEMMA Symbols ==
  /\ Char \subseteq Symbol /\ "^R" \in Symbol /\ "cr" \in Symbol /\ "." \in Symbol
  /\ "^R" \notin Char
  /\ \A c \in Char : Regs[c] \in Seq(Char)
  BY ExCommandAssumption DEF Symbol

\* A text of characters is a text, without a register.
LEMMA Typed ==
  ASSUME NEW s \in Seq(Char)
  PROVE  s \in Text /\ Clean(s)
<1>1. s \in Text
  BY Symbols, SeqMonotonic DEF Text
<1>2. \A i \in DOMAIN s : s[i] \in Char
  OBVIOUS
<1>3. QED
  BY <1>1, <1>2, Symbols DEF Clean

\* The function that Expansion asks for exists.
LEMMA Recursion ==
  ASSUME NEW s
  PROVE  \A k \in Nat : \E f : f = [i \in 0..k |-> IF i = 0 THEN <<>> ELSE Named(f[i - 1], s[i])]
<1> DEFINE Has == {k \in Nat :
                     \E f : f = [i \in 0..k |-> IF i = 0 THEN <<>> ELSE Named(f[i - 1], s[i])]}
<1>1. 0 \in Has
  <2> DEFINE f == [i \in 0..0 |-> <<>>]
  <2>1. f = [i \in 0..0 |-> IF i = 0 THEN <<>> ELSE Named(f[i - 1], s[i])]
    OBVIOUS
  <2> HIDE DEF f
  <2>2. QED
    BY <2>1
<1>2. ASSUME NEW k \in Nat, k \in Has
      PROVE  k + 1 \in Has
  <2>1. PICK f : f = [i \in 0..k |-> IF i = 0 THEN <<>> ELSE Named(f[i - 1], s[i])]
    BY <1>2
  <2> DEFINE g == [i \in 0..(k + 1) |-> IF i \in 0..k THEN f[i] ELSE Named(f[k], s[k + 1])]
             h == [i \in 0..(k + 1) |-> IF i = 0 THEN <<>> ELSE Named(g[i - 1], s[i])]
  <2>2. ASSUME NEW i \in 0..(k + 1)
        PROVE  g[i] = h[i]
    <3>1. CASE i = 0
      BY <2>1, <3>1
    <3>2. CASE i \in 1..k
      <4>1. i - 1 \in 0..k /\ i \in 0..k /\ i # 0 /\ i - 1 \in 0..(k + 1)
        BY <3>2
      <4>2. g[i] = f[i] /\ g[i - 1] = f[i - 1]
        BY <4>1
      <4>3. f[i] = Named(f[i - 1], s[i])
        BY <2>1, <4>1
      <4>4. h[i] = Named(g[i - 1], s[i])
        BY <4>1
      <4>5. QED
        BY <4>2, <4>3, <4>4
    <3>3. CASE i = k + 1
      <4>1. i - 1 = k /\ i # 0 /\ i \notin 0..k /\ k \in 0..(k + 1) /\ k \in 0..k
        BY <3>3
      <4>2. g[i] = Named(f[k], s[k + 1]) /\ g[k] = f[k]
        BY <4>1
      <4>3. h[i] = Named(g[i - 1], s[i])
        BY <4>1
      <4>4. QED
        BY <3>3, <4>1, <4>2, <4>3
    <3>4. QED
      BY <3>1, <3>2, <3>3
  <2>3. g = h
    BY <2>2
  <2> HIDE DEF g
  <2>4. \E e : e = [i \in 0..(k + 1) |-> IF i = 0 THEN <<>> ELSE Named(e[i - 1], s[i])]
    BY <2>3
  <2>5. QED
    BY <2>4
<1> HIDE DEF Has
<1>3. \A k \in Nat : k \in Has
  BY <1>1, <1>2, Induction
<1>4. QED
  BY <1>3 DEF Has

\* Expansion is that function.
LEMMA Expands ==
  ASSUME NEW s \in Text
  PROVE  /\ DOMAIN Expansion(s) = 0..Len(s)
         /\ Expansion(s)[0] = <<>>
         /\ \A i \in 1..Len(s) : Expansion(s)[i] = Named(Expansion(s)[i - 1], s[i])
<1>1. Len(s) \in Nat
  BY DEF Text
<1>2. \E f : f = [i \in 0..Len(s) |-> IF i = 0 THEN <<>> ELSE Named(f[i - 1], s[i])]
  BY <1>1, Recursion
<1> DEFINE e == Expansion(s)
<1>3. e = [i \in 0..Len(s) |-> IF i = 0 THEN <<>> ELSE Named(e[i - 1], s[i])]
  BY <1>2, Zenon DEF Expansion
<1> HIDE DEF e
<1>4. DOMAIN e = 0..Len(s)
  BY <1>3
<1>5. e[0] = <<>>
  BY <1>1, <1>3
<1>6. ASSUME NEW i \in 1..Len(s)
      PROVE  e[i] = Named(e[i - 1], s[i])
  BY <1>1, <1>3
<1>7. QED
  BY <1>4, <1>5, <1>6 DEF e

\* A name after ^R stands for the contents of the register, else for itself.
LEMMA NamedType ==
  ASSUME NEW r \in Text, NEW x \in Symbol
  PROVE  /\ Named(r, x) \in Text
         /\ Clean(r) => Named(r, x) = Append(r, x)
         /\ x \in Char => Named(Append(r, "^R"), x) = r \o Regs[x]
<1>1. Append(r, x) \in Text
  BY DEF Text
<1>2. Named(r, x) \in Text
  <2>1. CASE r # <<>> /\ Last(r) = "^R" /\ x \in Char
    <3>1. Front(r) \in Text /\ Regs[x] \in Text
      <4>1. Len(r) \in Nat \ {0} /\ \A i \in 1..Len(r) : r[i] \in Symbol
        BY <2>1 DEF Text
      <4>2. Front(r) \in Text
        BY <4>1 DEF Front, Text
      <4>3. QED
        BY <2>1, <4>2, Symbols, Typed
    <3>2. Front(r) \o Regs[x] \in Text
      BY <3>1, ConcatProperties DEF Text
    <3>3. QED
      BY <2>1, <3>2 DEF Named
  <2>2. CASE ~ (r # <<>> /\ Last(r) = "^R" /\ x \in Char)
    BY <1>1, <2>2 DEF Named
  <2>3. QED
    BY <2>1, <2>2
<1>4. ASSUME Clean(r)
      PROVE  Named(r, x) = Append(r, x)
  <2>1. CASE r = <<>>
    BY <2>1 DEF Named
  <2>2. CASE r # <<>>
    <3>1. Len(r) \in DOMAIN r
      BY <2>2 DEF Text
    <3>2. Last(r) # "^R"
      BY <1>4, <3>1 DEF Clean, Last
    <3>3. QED
      BY <3>2 DEF Named
  <2>3. QED
    BY <2>1, <2>2
<1>5. ASSUME x \in Char
      PROVE  Named(Append(r, "^R"), x) = r \o Regs[x]
  <2> DEFINE a == Append(r, "^R")
  <2>1. /\ a \in Text /\ a # <<>> /\ Len(a) = Len(r) + 1 /\ Len(r) \in Nat
        /\ a[Len(r) + 1] = "^R" /\ \A i \in 1..Len(r) : a[i] = r[i]
    BY Symbols, AppendProperties DEF Text
  <2> HIDE DEF a
  <2>2. Last(a) = "^R"
    BY <2>1 DEF Last
  <2>3. Front(a) = r
    <3>1. Front(a) = SubSeq(a, 1, Len(r))
      BY <2>1 DEF Front
    <3>2. Len(r) \in 0..Len(a)
      BY <2>1
    <3>3. /\ SubSeq(a, 1, Len(r)) \in Seq(Symbol) /\ Len(SubSeq(a, 1, Len(r))) = Len(r)
          /\ \A k \in 1..Len(r) : SubSeq(a, 1, Len(r))[k] = a[k]
      BY <2>1, <3>2, Halves DEF Text
    <3>4. QED
      BY <2>1, <3>1, <3>3, SeqEqual DEF Text
  <2>4. Named(a, x) = Front(a) \o Regs[x]
    BY <1>5, <2>1, <2>2 DEF Named
  <2>5. QED
    BY <2>3, <2>4 DEF a
<1>6. QED
  BY <1>2, <1>4, <1>5

\* All that is expanded is a text.
LEMMA ExpansionType ==
  ASSUME NEW s \in Text
  PROVE  \A k \in 0..Len(s) : Expansion(s)[k] \in Text
<1> DEFINE S == {k \in Nat : k <= Len(s) => Expansion(s)[k] \in Text}
<1>0. Len(s) \in Nat
  BY DEF Text
<1>1. 0 \in S
  BY Expands, EmptySeq DEF Text
<1>2. ASSUME NEW k \in Nat, k \in S
      PROVE  k + 1 \in S
  <2>1. CASE k + 1 <= Len(s)
    <3>1. k + 1 \in 1..Len(s) /\ (k + 1) - 1 = k /\ k <= Len(s)
      BY <1>0, <2>1
    <3>2. Expansion(s)[k + 1] = Named(Expansion(s)[k], s[k + 1])
      BY <3>1, Expands
    <3>3. Expansion(s)[k] \in Text /\ s[k + 1] \in Symbol
      BY <1>2, <3>1 DEF Text
    <3>4. QED
      BY <3>2, <3>3, NamedType
  <2>2. QED
    BY <2>1
<1> HIDE DEF S
<1>3. \A k \in Nat : k \in S
  BY <1>1, <1>2, Induction
<1>4. QED
  BY <1>0, <1>3 DEF S

\* The empty text, and a text to which a symbol is added.
LEMMA ExpandAppend ==
  /\ Expand(<<>>) = <<>>
  /\ \A s \in Text : Expand(s) \in Text
  /\ \A s \in Text, x \in Symbol : Expand(Append(s, x)) = Named(Expand(s), x)
<1>1. Expand(<<>>) = <<>>
  <2>1. <<>> \in Text /\ Len(<<>>) = 0
    BY EmptySeq DEF Text
  <2>2. QED
    BY <2>1, Expands DEF Expand
<1>2. ASSUME NEW s \in Text
      PROVE  Expand(s) \in Text
  <2>1. Len(s) \in 0..Len(s)
    BY DEF Text
  <2>2. QED
    BY <2>1, ExpansionType DEF Expand
<1>3. ASSUME NEW s \in Text, NEW x \in Symbol
      PROVE  Expand(Append(s, x)) = Named(Expand(s), x)
  <2> DEFINE a == Append(s, x)
  <2>1. /\ a \in Text /\ Len(a) = Len(s) + 1 /\ Len(s) \in Nat
        /\ a[Len(s) + 1] = x /\ \A i \in 1..Len(s) : a[i] = s[i]
    BY AppendProperties DEF Text
  <2> HIDE DEF a
  <2> DEFINE S == {k \in Nat : k <= Len(s) => Expansion(a)[k] = Expansion(s)[k]}
  <2>2. 0 \in S
    BY <2>1, Expands
  <2>3. ASSUME NEW k \in Nat, k \in S
        PROVE  k + 1 \in S
    <3>1. CASE k + 1 <= Len(s)
      <4>1. k + 1 \in 1..Len(s) /\ k + 1 \in 1..Len(a) /\ (k + 1) - 1 = k /\ k <= Len(s)
        BY <2>1, <3>1
      <4>2. Expansion(s)[k + 1] = Named(Expansion(s)[k], s[k + 1])
        BY <4>1, Expands
      <4>3. Expansion(a)[k + 1] = Named(Expansion(a)[k], a[k + 1])
        BY <2>1, <4>1, Expands
      <4>4. a[k + 1] = s[k + 1] /\ Expansion(a)[k] = Expansion(s)[k]
        BY <2>1, <2>3, <4>1
      <4>5. QED
        BY <4>2, <4>3, <4>4
    <3>2. QED
      BY <3>1
  <2> HIDE DEF S
  <2>4. Len(s) \in S
    BY <2>1, <2>2, <2>3, Induction
  <2>5. Expansion(a)[Len(s)] = Expansion(s)[Len(s)]
    BY <2>1, <2>4 DEF S
  <2>6. Len(a) \in 1..Len(a) /\ Len(a) - 1 = Len(s)
    BY <2>1
  <2>7. Expansion(a)[Len(a)] = Named(Expansion(a)[Len(s)], a[Len(a)])
    BY <2>1, <2>6, Expands
  <2>8. QED
    BY <2>1, <2>5, <2>7 DEF Expand, a
<1>4. QED
  BY <1>1, <1>2, <1>3

\* Each ^R is followed by the name of a register.
Paired(r) ==
  \A i \in DOMAIN r : r[i] = "^R" => i + 1 \in DOMAIN r /\ r[i + 1] \in Char

\* Parts of a text without registers have none, nor has what is put together from them.
LEMMA CleanParts ==
  ASSUME NEW u \in Text, NEW v \in Text
  PROVE  Clean(u \o v) <=> Clean(u) /\ Clean(v)
<1>1. /\ u \o v \in Text /\ Len(u \o v) = Len(u) + Len(v) /\ Len(u) \in Nat /\ Len(v) \in Nat
      /\ DOMAIN (u \o v) = 1..(Len(u) + Len(v)) /\ DOMAIN u = 1..Len(u) /\ DOMAIN v = 1..Len(v)
      /\ \A i \in 1..(Len(u) + Len(v)) : (u \o v)[i] = IF i <= Len(u) THEN u[i] ELSE v[i - Len(u)]
  BY ConcatProperties DEF Text
<1>2. ASSUME Clean(u), Clean(v), NEW i \in 1..(Len(u) + Len(v))
      PROVE  (u \o v)[i] # "^R"
  <2>1. CASE i <= Len(u)
    <3>1. i \in DOMAIN u /\ (u \o v)[i] = u[i]
      BY <1>1, <2>1
    <3>2. QED
      BY <1>2, <3>1 DEF Clean
  <2>2. CASE ~ (i <= Len(u))
    <3>1. i - Len(u) \in DOMAIN v /\ (u \o v)[i] = v[i - Len(u)]
      BY <1>1, <2>2
    <3>2. QED
      BY <1>2, <3>1 DEF Clean
  <2>3. QED
    BY <2>1, <2>2
<1>3. ASSUME Clean(u \o v), NEW i \in 1..Len(u)
      PROVE  u[i] # "^R"
  <2>1. i \in DOMAIN (u \o v) /\ (u \o v)[i] = u[i]
    BY <1>1
  <2>2. QED
    BY <1>3, <2>1 DEF Clean
<1>4. ASSUME Clean(u \o v), NEW i \in 1..Len(v)
      PROVE  v[i] # "^R"
  <2>1. /\ Len(u) + i \in 1..(Len(u) + Len(v)) /\ ~ (Len(u) + i <= Len(u))
        /\ (Len(u) + i) - Len(u) = i
    BY <1>1
  <2>2. Len(u) + i \in DOMAIN (u \o v) /\ (u \o v)[Len(u) + i] = v[i]
    BY <1>1, <2>1
  <2>3. QED
    BY <1>4, <2>2 DEF Clean
<1>5. QED
  BY <1>1, <1>2, <1>3, <1>4 DEF Clean

\* With a symbol more.
LEMMA CleanAppend ==
  ASSUME NEW r \in Text, NEW x \in Symbol
  PROVE  Clean(Append(r, x)) <=> Clean(r) /\ x # "^R"
<1>1. /\ DOMAIN Append(r, x) = 1..(Len(r) + 1) /\ Len(r) \in Nat /\ DOMAIN r = 1..Len(r)
      /\ Append(r, x)[Len(r) + 1] = x /\ \A i \in 1..Len(r) : Append(r, x)[i] = r[i]
  BY AppendProperties DEF Text
<1>2. QED
  BY <1>1 DEF Clean

\* A text whose registers have names has none of them left when it is expanded.
LEMMA CleanExpand ==
  ASSUME NEW s \in Text, Paired(s)
  PROVE  Clean(Expand(s))
<1> DEFINE e == Expansion(s)
           Half(k) == k > 0 /\ s[k] = "^R"
           S == {k \in Nat : k <= Len(s) =>
                   /\ Half(k) => \E r \in Text : Clean(r) /\ e[k] = Append(r, "^R")
                   /\ ~ Half(k) => Clean(e[k])}
<1>1. /\ Len(s) \in Nat /\ DOMAIN s = 1..Len(s) /\ e[0] = <<>>
      /\ \A k \in 0..Len(s) : e[k] \in Text
      /\ \A k \in 1..Len(s) : e[k] = Named(e[k - 1], s[k]) /\ s[k] \in Symbol
  BY Expands, ExpansionType DEF Text
<1> HIDE DEF e
<1>2. 0 \in S
  <2>1. DOMAIN <<>> = {}
    OBVIOUS
  <2>2. QED
    BY <1>1, <2>1 DEF Clean
<1>3. ASSUME NEW k \in Nat, k \in S
      PROVE  k + 1 \in S
  <2> SUFFICES ASSUME k + 1 <= Len(s)
               PROVE  /\ Half(k + 1) => \E r \in Text : Clean(r) /\ e[k + 1] = Append(r, "^R")
                      /\ ~ Half(k + 1) => Clean(e[k + 1])
    OBVIOUS
  <2>1. /\ k + 1 \in DOMAIN s /\ e[k + 1] = Named(e[k], s[k + 1]) /\ s[k + 1] \in Symbol
        /\ e[k] \in Text /\ (Half(k + 1) <=> s[k + 1] = "^R")
    <3>1. k + 1 \in 1..Len(s) /\ (k + 1) - 1 = k /\ k \in 0..Len(s) /\ k + 1 > 0
      BY <1>1
    <3>2. QED
      BY <1>1, <3>1
  <2>2. CASE Half(k)
    <3>1. PICK r \in Text : Clean(r) /\ e[k] = Append(r, "^R")
      BY <1>3, <2>2
    <3>2. k \in DOMAIN s /\ s[k] = "^R"
      BY <1>1, <2>2
    <3>3. s[k + 1] \in Char /\ s[k + 1] # "^R"
      BY <3>2, Symbols DEF Paired
    <3>4. e[k + 1] = r \o Regs[s[k + 1]]
      BY <2>1, <3>1, <3>3, NamedType
    <3>5. Regs[s[k + 1]] \in Text /\ Clean(Regs[s[k + 1]])
      BY <3>3, Symbols, Typed
    <3>6. Clean(e[k + 1])
      BY <3>1, <3>4, <3>5, CleanParts
    <3>7. QED
      BY <2>1, <3>3, <3>6
  <2>3. CASE ~ Half(k)
    <3>1. Clean(e[k])
      BY <1>3, <2>3
    <3>2. e[k + 1] = Append(e[k], s[k + 1])
      BY <2>1, <3>1, NamedType
    <3>3. s[k + 1] # "^R" => Clean(e[k + 1])
      BY <2>1, <3>1, <3>2, CleanAppend
    <3>4. QED
      BY <2>1, <3>1, <3>2, <3>3
  <2>4. QED
    BY <2>2, <2>3
<1> DEFINE T == S
<1> HIDE DEF T
<1>4. Len(s) \in T
  BY <1>1, <1>2, <1>3, Induction DEF T
<1>5. ~ Half(Len(s))
  <2>1. ASSUME Half(Len(s))
        PROVE  FALSE
    <3>1. Len(s) \in DOMAIN s /\ Len(s) + 1 \notin DOMAIN s
      BY <1>1, <2>1
    <3>2. QED
      BY <2>1, <3>1 DEF Paired
  <2>2. QED
    BY <2>1
<1>6. Clean(e[Len(s)])
  BY <1>1, <1>4, <1>5 DEF T
<1>7. QED
  BY <1>6 DEF e, Expand

\* What is behind the registers stands for itself.
LEMMA ExpandBehind ==
  ASSUME NEW u \in Text, NEW v \in Text, Clean(Expand(u)), Clean(v)
  PROVE  Expand(u \o v) = Expand(u) \o v
<1> DEFINE w(k) == SubSeq(v, 1, k)
           S == {k \in Nat : k <= Len(v) => Expand(u \o w(k)) = Expand(u) \o w(k)}
<1>1. /\ Len(v) \in Nat /\ Expand(u) \in Text
      /\ \A k \in 0..Len(v) : w(k) \in Text /\ Len(w(k)) = k /\ \A i \in 1..k : w(k)[i] = v[i]
  <2>1. ASSUME NEW k \in 0..Len(v)
        PROVE  w(k) \in Text /\ Len(w(k)) = k /\ \A i \in 1..k : w(k)[i] = v[i]
    BY Halves DEF Text
  <2>2. QED
    BY <2>1, ExpandAppend DEF Text
<1>2. 0 \in S
  <2>1. w(0) = <<>>
    BY <1>1
  <2>2. u \o <<>> = u /\ Expand(u) \o <<>> = Expand(u)
    BY <1>1, ConcatEmptySeq DEF Text
  <2>3. QED
    BY <2>1, <2>2
<1>3. ASSUME NEW k \in Nat, k \in S
      PROVE  k + 1 \in S
  <2> SUFFICES ASSUME k + 1 <= Len(v)
               PROVE  Expand(u \o w(k + 1)) = Expand(u) \o w(k + 1)
    OBVIOUS
  <2> DEFINE x == v[k + 1]
             a == w(k)
             b == w(k + 1)
  <2>1. k \in 0..Len(v) /\ k + 1 \in 0..Len(v) /\ k + 1 \in DOMAIN v /\ x \in Symbol
    BY <1>1 DEF Text
  <2>2. x # "^R"
    BY <2>1 DEF Clean
  <2>3. Expand(u \o a) = Expand(u) \o a
    BY <1>1, <1>3, <2>1
  <2>4. a \in Text /\ Len(a) = k /\ (\A i \in 1..k : a[i] = v[i])
    BY <1>1, <2>1
  <2>5. b \in Text /\ Len(b) = k + 1 /\ (\A i \in 1..(k + 1) : b[i] = v[i])
    BY <1>1, <2>1
  <2>6. Clean(a)
    BY <1>1, <2>1, <2>4 DEF Clean, Text
  <2> HIDE DEF x, a, w
  <2>7. b = a \o <<x>>
    <3>1. Append(a, x) \in Text /\ Len(Append(a, x)) = k + 1
      BY <2>1, <2>4, AppendProperties DEF Text
    <3>2. ASSUME NEW i \in 1..(k + 1)
          PROVE  b[i] = Append(a, x)[i]
      BY <2>1, <2>4, <2>5, AppendProperties DEF Text, x
    <3>3. b = Append(a, x)
      <4> HIDE DEF b
      <4>1. QED
        BY <2>5, <3>1, <3>2, SeqEqual DEF Text
    <3>4. QED
      BY <2>1, <2>4, <3>3, AppendIsConcat DEF Text
  <2> HIDE DEF b
  <2>8. <<x>> \in Text
    BY <2>1 DEF Text
  <2>9. ASSUME NEW t \in Text
        PROVE  t \o b = Append(t \o a, x)
    <3>1. (t \o a) \o <<x>> = t \o (a \o <<x>>)
      <4> DEFINE y == <<x>>
      <4>1. t \in Seq(Symbol) /\ a \in Seq(Symbol) /\ y \in Seq(Symbol)
        BY <2>4, <2>8 DEF Text
      <4> HIDE DEF y
      <4>2. (t \o a) \o y = t \o (a \o y)
        BY <4>1, ConcatAssociative
      <4>3. QED
        BY <4>2 DEF y
    <3>2. t \o a \in Text
      BY <2>4, ConcatProperties DEF Text
    <3>3. Append(t \o a, x) = (t \o a) \o <<x>>
      BY <2>1, <3>2, AppendIsConcat DEF Text
    <3>4. QED
      BY <2>7, <3>1, <3>3
  <2>10. u \o a \in Text /\ Expand(u) \o a \in Text
    BY <1>1, <2>4, ConcatProperties DEF Text
  <2>11. Expand(u \o b) = Named(Expand(u \o a), x)
    BY <2>1, <2>9, <2>10, ExpandAppend
  <2>12. Clean(Expand(u) \o a)
    BY <1>1, <2>4, <2>6, CleanParts
  <2>13. Expand(u \o b) = Append(Expand(u) \o a, x)
    BY <2>1, <2>3, <2>10, <2>11, <2>12, NamedType
  <2>14. Expand(u) \o b = Append(Expand(u) \o a, x)
    BY <1>1, <2>9
  <2>15. QED
    BY <2>13, <2>14 DEF b
<1> HIDE DEF S
<1>4. Len(v) \in S
  BY <1>1, <1>2, <1>3, Induction
<1>5. w(Len(v)) = v
  BY SubSeqFull DEF Text
<1> HIDE DEF w
<1>6. Expand(u \o w(Len(v))) = Expand(u) \o w(Len(v))
  BY <1>1, <1>4 DEF S
<1>7. QED
  BY <1>5, <1>6

\* So does a text without registers.
LEMMA ExpandClean ==
  ASSUME NEW v \in Text, Clean(v)
  PROVE  Expand(v) = v
<1>1. <<>> \in Text /\ Clean(<<>>)
  BY EmptySeq DEF Text, Clean
<1>2. Expand(<<>> \o v) = <<>> \o v
  BY <1>1, ExpandAppend, ExpandBehind
<1>3. <<>> \o v = v
  BY ConcatEmptySeq DEF Text
<1>4. QED
  BY <1>2, <1>3

\* And a register is what it has.
LEMMA ExpandRegister ==
  ASSUME NEW u \in Text, Clean(Expand(u)), NEW c \in Char
  PROVE  Expand(u \o <<"^R", c>>) = Expand(u) \o Regs[c]
<1>1. Expand(u) \in Text /\ c \in Symbol /\ "^R" \in Symbol
  BY ExpandAppend, Symbols
<1>2. Append(u, "^R") \in Text
  BY <1>1, AppendProperties DEF Text
<1>3. u \o <<"^R", c>> = Append(Append(u, "^R"), c)
  BY <1>1, <1>2 DEF Text
<1>4. Expand(Append(u, "^R")) = Append(Expand(u), "^R")
  BY <1>1, ExpandAppend, NamedType
<1>5. Expand(Append(Append(u, "^R"), c)) = Named(Append(Expand(u), "^R"), c)
  BY <1>1, <1>2, <1>4, ExpandAppend
<1>6. QED
  BY <1>1, <1>3, <1>5, NamedType

\* The registers that a text has keep their names when something follows.
LEMMA PairedParts ==
  ASSUME NEW u \in Text, NEW v \in Text, Paired(u), Paired(v)
  PROVE  Paired(u \o v)
<1>1. /\ u \o v \in Text /\ Len(u \o v) = Len(u) + Len(v) /\ Len(u) \in Nat /\ Len(v) \in Nat
      /\ DOMAIN (u \o v) = 1..(Len(u) + Len(v)) /\ DOMAIN u = 1..Len(u) /\ DOMAIN v = 1..Len(v)
      /\ \A i \in 1..(Len(u) + Len(v)) : (u \o v)[i] = IF i <= Len(u) THEN u[i] ELSE v[i - Len(u)]
  BY ConcatProperties DEF Text
<1> SUFFICES ASSUME NEW i \in 1..(Len(u) + Len(v)), (u \o v)[i] = "^R"
             PROVE  i + 1 \in 1..(Len(u) + Len(v)) /\ (u \o v)[i + 1] \in Char
  BY <1>1 DEF Paired
<1>2. CASE i <= Len(u)
  <2>1. i \in DOMAIN u /\ u[i] = "^R"
    BY <1>1, <1>2
  <2>2. i + 1 \in DOMAIN u /\ u[i + 1] \in Char
    BY <2>1 DEF Paired
  <2>3. i + 1 <= Len(u) /\ i + 1 \in 1..(Len(u) + Len(v))
    BY <1>1, <2>2
  <2>4. QED
    BY <1>1, <2>2, <2>3
<1>3. CASE ~ (i <= Len(u))
  <2>1. i - Len(u) \in DOMAIN v /\ v[i - Len(u)] = "^R"
    BY <1>1, <1>3
  <2>2. (i - Len(u)) + 1 \in DOMAIN v /\ v[(i - Len(u)) + 1] \in Char
    BY <2>1 DEF Paired
  <2>3. /\ i + 1 \in 1..(Len(u) + Len(v)) /\ ~ (i + 1 <= Len(u))
        /\ (i + 1) - Len(u) = (i - Len(u)) + 1
    BY <1>1, <1>3, <2>2
  <2>4. QED
    BY <1>1, <2>2, <2>3
<1>4. QED
  BY <1>2, <1>3

-----------------------------------------------------------------------------
(* The command behind its prefix.                                          *)

\* A text with a part replaced, and with a part that is erased first.
LEMMA ReplacedTwice ==
  ASSUME NEW S, NEW r \in Seq(S), NEW i \in 0..Len(r), NEW j \in i..Len(r), NEW s \in Seq(S)
  PROVE  /\ Replaced(r, i, j, s) \in Seq(S)
         /\ Len(Replaced(r, i, j, s)) = Len(r) - (j - i) + Len(s)
         /\ Replaced(Replaced(r, i, j, <<>>), i, i, s) = Replaced(r, i, j, s)
<1> DEFINE u == SubSeq(r, 1, i)
           v == SubSeq(r, j + 1, Len(r))
<1>1. Len(r) \in Nat /\ j \in 0..Len(r) /\ Len(s) \in Nat
  OBVIOUS
<1>2. u \in Seq(S) /\ Len(u) = i
  BY <1>1, Halves
<1>3. v \in Seq(S) /\ Len(v) = Len(r) - j
  BY <1>1, Halves
<1> HIDE DEF u, v
<1>4. u \o s \in Seq(S) /\ Len(u \o s) = i + Len(s)
  BY <1>2, ConcatProperties
<1>5. (u \o s) \o v \in Seq(S) /\ Len((u \o s) \o v) = i + Len(s) + (Len(r) - j)
  <2> DEFINE a == u \o s
  <2>1. a \in Seq(S) /\ Len(a) = i + Len(s)
    BY <1>4
  <2> HIDE DEF a
  <2>2. a \o v \in Seq(S) /\ Len(a \o v) = i + Len(s) + (Len(r) - j)
    BY <1>3, <2>1, ConcatProperties
  <2>3. QED
    BY <2>2 DEF a
<1>6. Replaced(r, i, j, s) = (u \o s) \o v
  BY DEF Replaced, u, v
<1>7. Replaced(r, i, j, <<>>) = u \o v
  <2>1. u \o <<>> = u
    BY <1>2, ConcatEmptySeq
  <2>2. Replaced(r, i, j, <<>>) = (u \o <<>>) \o v
    BY DEF Replaced, u, v
  <2>3. QED
    BY <2>1, <2>2
<1>8. SubSeq(u \o v, 1, i) = u /\ SubSeq(u \o v, i + 1, Len(u \o v)) = v
  BY <1>2, <1>3, Apart
<1>9. Replaced(u \o v, i, i, s) = (u \o s) \o v
  BY <1>8 DEF Replaced
<1>10. Replaced(Replaced(r, i, j, <<>>), i, i, s) = Replaced(r, i, j, s)
  BY <1>6, <1>7, <1>9
<1>11. i + Len(s) + (Len(r) - j) = Len(r) - (j - i) + Len(s)
  BY <1>1
<1>12. QED
  BY <1>5, <1>6, <1>10, <1>11

\* A text with a part replaced.
LEMMA ReplacedType ==
  ASSUME NEW S, NEW r \in Seq(S), NEW i \in 0..Len(r), NEW j \in i..Len(r), NEW s \in Seq(S)
  PROVE  /\ Replaced(r, i, j, s) \in Seq(S)
         /\ Len(Replaced(r, i, j, s)) = Len(r) - (j - i) + Len(s)
  BY ReplacedTwice

\* At the end it is added.
LEMMA ReplacedEnd ==
  ASSUME NEW S, NEW r \in Seq(S), NEW i \in 0..Len(r), NEW s \in Seq(S)
  PROVE  /\ Replaced(r, i, Len(r), s) = SubSeq(r, 1, i) \o s
         /\ Replaced(r, Len(r), Len(r), s) = r \o s
<1>1. Len(r) \in 0..Len(r) /\ SubSeq(r, 1, Len(r)) = r
  BY SubSeqFull
<1>2. SubSeq(r, Len(r) + 1, Len(r)) = <<>>
  BY SubSeqEmpty
<1>3. SubSeq(r, 1, i) \in Seq(S)
  BY Halves
<1>4. SubSeq(r, 1, i) \o s \in Seq(S) /\ r \o s \in Seq(S)
  BY <1>3, ConcatProperties
<1>5. (SubSeq(r, 1, i) \o s) \o <<>> = SubSeq(r, 1, i) \o s /\ (r \o s) \o <<>> = r \o s
  BY <1>4, ConcatEmptySeq
<1>6. Replaced(r, i, Len(r), s) = (SubSeq(r, 1, i) \o s) \o <<>>
  BY <1>2 DEF Replaced
<1>7. Replaced(r, Len(r), Len(r), s) = (r \o s) \o <<>>
  BY <1>1, <1>2 DEF Replaced
<1>8. QED
  BY <1>5, <1>6, <1>7

\* A command of one of the kinds is its prefix and what is behind it.
LEMMA Shape ==
  ASSUME NEW c \in Text, Type(c) \in Kinds
  PROVE  /\ Prefixed(c) = (IF Type(c) = "calc" THEN 2 ELSE 1) /\ Prefixed(c) \in 0..Len(c)
         /\ Rest(c) \in Text /\ c = Reset(c, Rest(c))
<1>1. Type(c) # None
  BY DEF Kinds, None
<1>2. Prefixed(c) = (IF Type(c) = "calc" THEN 2 ELSE 1)
  BY <1>1 DEF Prefixed
<1>3. c # <<>>
  BY <1>1 DEF Type
<1>4. Type(c) = "calc" => Len(c) > 1
  BY <1>1, <1>3 DEF Type
<1>5. Len(c) \in Nat \ {0}
  BY <1>3 DEF Text
<1>6. Prefixed(c) \in 0..Len(c)
  BY <1>2, <1>4, <1>5
<1>7. /\ SubSeq(c, Prefixed(c) + 1, Len(c)) \in Text
      /\ SubSeq(c, 1, Prefixed(c)) \o SubSeq(c, Prefixed(c) + 1, Len(c)) = c
  BY <1>6, Halves DEF Text
<1>8. QED
  BY <1>2, <1>6, <1>7 DEF Rest, Reset

\* Whatever is behind the prefix, it is a command of the same kind.
LEMMA ResetShape ==
  ASSUME NEW c \in Text, Type(c) \in Kinds, NEW r \in Text
  PROVE  /\ Reset(c, r) \in Text
         /\ Type(Reset(c, r)) = Type(c) /\ Prefixed(Reset(c, r)) = Prefixed(c)
         /\ Len(Reset(c, r)) = Prefixed(c) + Len(r)
         /\ SubSeq(Reset(c, r), 1, Prefixed(c)) = SubSeq(c, 1, Prefixed(c))
         /\ Rest(Reset(c, r)) = r
         /\ Reset(c, r) # Thrown /\ Reset(c, r) # <<>>
         /\ Type(c) = "command" => Reset(c, r)[1] = ":"
<1> DEFINE p == SubSeq(c, 1, Prefixed(c))
           d == p \o r
<1>1. /\ Prefixed(c) = (IF Type(c) = "calc" THEN 2 ELSE 1) /\ Prefixed(c) \in 0..Len(c)
      /\ Len(c) \in Nat /\ Len(r) \in Nat
  BY Shape DEF Text
<1>2. p \in Text /\ Len(p) = Prefixed(c) /\ \A k \in 1..Prefixed(c) : p[k] = c[k]
  BY <1>1, Halves DEF Text
<1>3. d = Reset(c, r)
  BY DEF Reset
<1> HIDE DEF p
<1>4. /\ d \in Text /\ Len(d) = Prefixed(c) + Len(r)
      /\ \A k \in 1..(Len(p) + Len(r)) : d[k] = IF k <= Len(p) THEN p[k] ELSE r[k - Len(p)]
  BY <1>2, ConcatProperties DEF Text
<1>5. SubSeq(d, 1, Prefixed(c)) = p /\ SubSeq(d, Prefixed(c) + 1, Len(d)) = r
  BY <1>2, Apart DEF Text
<1> HIDE DEF d
<1>6. \A k \in 1..Prefixed(c) : d[k] = c[k]
  BY <1>1, <1>2, <1>4
<1>7. d[1] = c[1] /\ (Type(c) = "calc" => d[2] = c[2] /\ Len(d) > 1) /\ d # <<>> /\ c # <<>>
  BY <1>1, <1>4, <1>6
<1>8. /\ c[1] = "^R" => Type(c) = "calc" /\ c[2] = "=" /\ Len(c) > 1
      /\ c[1] # "^R" => Type(c) # "calc" /\ c[1] \in {":", "!", "/"}
      /\ Type(c) = "command" => c[1] = ":"
  BY <1>7 DEF Type, Kinds, None
<1>9. Type(d) = Type(c)
  BY <1>7, <1>8 DEF Type
<1>10. Prefixed(d) = Prefixed(c)
  BY <1>9 DEF Prefixed
<1>11. Rest(d) = r
  BY <1>5, <1>10 DEF Rest
<1>12. d # Thrown
  <2>1. d[1] \in {"^R", ":", "!", "/"}
    BY <1>7, <1>8
  <2>2. Thrown[1] = "thrown"
    BY DEF Thrown
  <2>3. QED
    BY <2>1, <2>2
<1>13. QED
  BY <1>3, <1>4, <1>5, <1>7, <1>8, <1>9, <1>10, <1>11, <1>12 DEF p

\* A position of the text is the same place behind the prefix.
LEMMA ResetParts ==
  ASSUME NEW c \in Text, Type(c) \in Kinds, NEW r \in Text, NEW i \in 0..Len(r)
  PROVE  /\ SubSeq(Reset(c, r), 1, Prefixed(c) + i) = Reset(c, SubSeq(r, 1, i))
         /\ SubSeq(Reset(c, r), Prefixed(c) + i + 1, Len(Reset(c, r))) = SubSeq(r, i + 1, Len(r))
<1> DEFINE p == SubSeq(c, 1, Prefixed(c))
<1>1. p \in Seq(Symbol) /\ Len(p) = Prefixed(c)
  BY Shape, Halves DEF Text
<1>2. Reset(c, r) = p \o r /\ Reset(c, SubSeq(r, 1, i)) = p \o SubSeq(r, 1, i)
  BY DEF Reset
<1>3. r \in Seq(Symbol)
  BY DEF Text
<1> HIDE DEF p
<1>4. /\ SubSeq(p \o r, 1, Len(p) + i) = p \o SubSeq(r, 1, i)
      /\ SubSeq(p \o r, Len(p) + i + 1, Len(p \o r)) = SubSeq(r, i + 1, Len(r))
  <2>1. i \in 0..Len(r)
    OBVIOUS
  <2>2. QED
    BY <1>1, <1>3, <2>1, Prefix, ZenonT(30)
<1>5. QED
  BY <1>1, <1>2, <1>4

\* What is inserted in a command is inserted in its text.
LEMMA InsertShape ==
  ASSUME NEW c \in Text, Type(c) \in Kinds, NEW r \in Text, NEW s \in Text
  PROVE  /\ \A i \in 0..Len(r) : Insert(Reset(c, r), i, s) = Reset(c, Replaced(r, i, i, s))
         /\ \A i \in Nat : i > Len(r) /\ Insert(Reset(c, r), i, s) # Thrown =>
              Insert(Reset(c, r), i, s) = Reset(c, r \o s)
         /\ Reset(c, r) \o s = Reset(c, r \o s)
<1> DEFINE d == Reset(c, r)
           p == SubSeq(c, 1, Prefixed(c))
           k == Prefixed(c)
<1>1. /\ d \in Text /\ Prefixed(d) = k /\ Len(d) = k + Len(r) /\ d # Thrown
      /\ k \in {1, 2} /\ Len(r) \in Nat
  <2>1. d \in Text /\ Prefixed(d) = k /\ Len(d) = k + Len(r) /\ d # Thrown
    BY ResetShape
  <2>2. k \in {1, 2}
    BY Shape
  <2>3. Len(r) \in Nat
    BY DEF Text
  <2>4. QED
    BY <2>1, <2>2, <2>3
<1>2. p \in Seq(Symbol)
  BY Shape, Halves DEF Text
<1>3. d \o s = Reset(c, r \o s)
  <2>1. (p \o r) \o s = p \o (r \o s)
    <3> HIDE DEF p
    <3>1. r \in Seq(Symbol) /\ s \in Seq(Symbol)
      BY DEF Text
    <3>2. QED
      BY <1>2, <3>1, ConcatAssociative
  <2>2. QED
    BY <2>1 DEF Reset
<1>4. ASSUME NEW i \in 0..Len(r)
      PROVE  Insert(d, i, s) = Reset(c, Replaced(r, i, i, s))
  <2> DEFINE u == SubSeq(r, 1, i)
             v == SubSeq(r, i + 1, Len(r))
  <2>1. u \in Seq(Symbol) /\ v \in Seq(Symbol) /\ s \in Seq(Symbol)
    BY Halves DEF Text
  <2>2. SubSeq(d, 1, k + i) = p \o u /\ SubSeq(d, k + i + 1, Len(d)) = v
    <3>1. Reset(c, u) = p \o u
      BY DEF Reset
    <3>2. SubSeq(d, 1, k + i) = Reset(c, u) /\ SubSeq(d, k + i + 1, Len(d)) = v
      BY ResetParts
    <3>3. QED
      BY <3>1, <3>2
  <2>3. i < Len(d) /\ ~ (k + i > Len(d))
    BY <1>1
  <2> HIDE DEF d, k
  <2>4. Insert(d, i, s) = SubSeq(d, 1, k + i) \o s \o SubSeq(d, k + i + 1, Len(d))
    BY <1>1, <2>3 DEF Insert, Beyond
  <2> HIDE DEF p, u, v
  <2>5. ((p \o u) \o s) \o v = p \o ((u \o s) \o v)
    <3> DEFINE a == u \o s
    <3>1. a \in Seq(Symbol)
      BY <2>1, ConcatProperties
    <3>2. (p \o u) \o s = p \o a
      <4>1. p \in Seq(Symbol) /\ u \in Seq(Symbol) /\ s \in Seq(Symbol)
        BY <1>2, <2>1
      <4>2. (p \o u) \o s = p \o (u \o s)
        BY <4>1, ConcatAssociative
      <4>3. QED
        BY <4>2
    <3> HIDE DEF a
    <3>3. (p \o a) \o v = p \o (a \o v)
      BY <1>2, <2>1, <3>1, ConcatAssociative
    <3>4. ((p \o u) \o s) \o v = (p \o a) \o v
      BY <3>2
    <3>5. QED
      BY <3>3, <3>4 DEF a
  <2>6. Insert(d, i, s) = p \o ((u \o s) \o v)
    BY <2>2, <2>4, <2>5
  <2>7. QED
    BY <2>6 DEF Replaced, Reset, p, u, v
<1>5. ASSUME NEW i \in Nat, i > Len(r), Insert(d, i, s) # Thrown
      PROVE  Insert(d, i, s) = Reset(c, r \o s)
  <2> HIDE DEF d
  <2>1. CASE i < Len(d)
    <3>1. Beyond(d, i)
      BY <1>1, <1>5, <2>1 DEF Beyond
    <3>2. QED
      BY <1>5, <3>1 DEF Insert
  <2>2. CASE ~ (i < Len(d))
    <3>1. ~ Beyond(d, i)
      BY <1>1, <2>2 DEF Beyond
    <3>2. Insert(d, i, s) = d \o s
      BY <2>2, <3>1 DEF Insert
    <3>3. QED
      BY <1>3, <3>2
  <2>3. QED
    BY <2>1, <2>2
<1>6. QED
  BY <1>3, <1>4, <1>5

\* What is erased from a command is erased from its text.
LEMMA EraseShape ==
  ASSUME NEW c \in Text, Type(c) \in Kinds, NEW r \in Text,
         NEW i \in 0..Len(r), NEW j \in i..Len(r)
  PROVE  Erase(Reset(c, r), i, j - i) = Reset(c, Replaced(r, i, j, <<>>))
<1> DEFINE d == Reset(c, r)
           p == SubSeq(c, 1, Prefixed(c))
           k == Prefixed(c)
           u == SubSeq(r, 1, i)
           v == SubSeq(r, j + 1, Len(r))
<1>1. /\ d \in Text /\ Prefixed(d) = k /\ Len(d) = k + Len(r) /\ d # Thrown
      /\ k \in {1, 2} /\ Len(r) \in Nat /\ j \in 0..Len(r)
  <2>1. d \in Text /\ Prefixed(d) = k /\ Len(d) = k + Len(r) /\ d # Thrown
    BY ResetShape
  <2>2. k \in {1, 2}
    BY Shape
  <2>3. Len(r) \in Nat
    BY DEF Text
  <2>4. QED
    BY <2>1, <2>2, <2>3
<1>2. p \in Seq(Symbol)
  BY Shape, Halves DEF Text
<1>3. u \in Seq(Symbol) /\ v \in Seq(Symbol)
  BY <1>1, Halves DEF Text
<1>4. SubSeq(d, 1, k + i) = p \o u
  <2>1. Reset(c, u) = p \o u
    BY DEF Reset
  <2>2. SubSeq(d, 1, k + i) = Reset(c, u)
    BY ResetParts
  <2>3. QED
    BY <2>1, <2>2
<1>5. SubSeq(d, k + j + 1, Len(d)) = v
  BY <1>1, ResetParts
<1>6. i < Len(d) /\ ~ (k + i > Len(d)) /\ i + (j - i) < Len(d) /\ k + i + (j - i) + 1 = k + j + 1
  BY <1>1
<1> HIDE DEF d, k
<1>7. Erase(d, i, j - i) = SubSeq(d, 1, k + i) \o SubSeq(d, k + i + (j - i) + 1, Len(d))
  <2>1. ~ Beyond(d, i) /\ ~ (i >= Len(d)) /\ ~ (i + (j - i) >= Len(d))
    BY <1>1, <1>6 DEF Beyond
  <2>2. QED
    BY <1>1, <2>1 DEF Erase
<1> HIDE DEF p, u, v
<1>8. Erase(d, i, j - i) = (p \o u) \o v
  BY <1>4, <1>5, <1>6, <1>7
<1>9. (p \o u) \o v = p \o (u \o v)
  BY <1>2, <1>3, ConcatAssociative
<1>10. Replaced(r, i, j, <<>>) = u \o v
  <2>1. u \o <<>> = u
    BY <1>3, ConcatEmptySeq
  <2>2. Replaced(r, i, j, <<>>) = (u \o <<>>) \o v
    BY DEF Replaced, u, v
  <2>3. QED
    BY <2>1, <2>2
<1>11. QED
  BY <1>8, <1>9, <1>10 DEF Reset, p, d

\* get_text loses nothing of a command, and of none that ex mode may have.
LEMMA CoercedShape ==
  ASSUME NEW c \in Text, Type(c) \in Kinds, NEW r \in Text, exMode => Type(c) = "command"
  PROVE  /\ Coerced(Reset(c, r)) = Reset(c, r)
         /\ r = <<>> => Reset(Reset(c, r), <<>>) = Reset(c, r)
<1>1. Type(c) = "command" => Reset(c, r)[1] = ":"
  BY ResetShape
<1>2. Coerced(Reset(c, r)) = Reset(c, r)
  BY <1>1 DEF Coerced
<1>3. ASSUME r = <<>>
      PROVE  Reset(Reset(c, r), <<>>) = Reset(c, r)
  <2>1. /\ Prefixed(Reset(c, r)) = Prefixed(c)
        /\ SubSeq(Reset(c, r), 1, Prefixed(c)) = SubSeq(c, 1, Prefixed(c))
    BY ResetShape
  <2>2. QED
    BY <1>3, <2>1 DEF Reset
<1>4. QED
  BY <1>2, <1>3

-----------------------------------------------------------------------------
(* The types.                                                              *)

\* Both ends of the selection are in the text, and the caret is at one of them.
InControl(t) ==
  /\ t \in [value : Text, ip : Nat, from : Nat, to : Nat]
  /\ t.from <= t.to /\ t.to <= Len(t.value) /\ t.ip \in {t.from, t.to}

\* A prefix is a part of its command.
LEMMA PrefixedType ==
  ASSUME NEW c \in Text
  PROVE  /\ Prefixed(c) \in 0..Len(c) /\ Rest(c) \in Text
         /\ \A t \in Text : Reset(c, t) \in Text
<1>1. Len(c) \in Nat
  BY DEF Text
<1>2. Prefixed(c) \in 0..Len(c)
  <2>1. Type(c) = None => Prefixed(c) \in 0..Len(c)
    BY <1>1 DEF Prefixed, None
  <2>2. Type(c) = "calc" => Prefixed(c) \in 0..Len(c)
    <3>1. ASSUME Type(c) = "calc"
          PROVE  Len(c) > 1
      BY <3>1 DEF Type, None
    <3>2. QED
      BY <1>1, <3>1 DEF Prefixed, None
  <2>3. Type(c) \notin {None, "calc"} => Prefixed(c) \in 0..Len(c)
    <3>1. ASSUME Type(c) # None
          PROVE  Len(c) # 0
      <4>1. c # <<>>
        BY <3>1 DEF Type
      <4>2. QED
        BY <4>1 DEF Text
    <3>2. QED
      BY <1>1, <3>1 DEF Prefixed
  <2>4. QED
    BY <2>1, <2>2, <2>3
<1>3. Rest(c) \in Text /\ SubSeq(c, 1, Prefixed(c)) \in Text
  BY <1>2, Halves DEF Rest, Text
<1>4. \A t \in Text : Reset(c, t) \in Text
  BY <1>3, ConcatProperties DEF Reset, Text
<1>5. QED
  BY <1>2, <1>3, <1>4

\* What is inserted or erased, if it is not thrown, gives a text.
LEMMA InsertType ==
  ASSUME NEW c \in Text, NEW i \in Nat, NEW s \in Text
  PROVE  /\ Insert(c, i, s) # Thrown => Insert(c, i, s) \in Text
         /\ Insert(Thrown, i, s) = Thrown
         /\ c \o s \in Text
<1>1. Len(c) \in Nat /\ Prefixed(c) \in 0..Len(c)
  BY PrefixedType DEF Text
<1>2. c \o s \in Text
  BY ConcatProperties DEF Text
<1>3. Insert(Thrown, i, s) = Thrown
  BY DEF Insert, Beyond
<1>4. ASSUME Insert(c, i, s) # Thrown
      PROVE  Insert(c, i, s) \in Text
  <2>1. ~ Beyond(c, i)
    BY <1>4 DEF Insert
  <2>2. CASE i < Len(c)
    <3> DEFINE k == Prefixed(c) + i
               u == SubSeq(c, 1, k)
               v == SubSeq(c, k + 1, Len(c))
    <3>1. k \in 0..Len(c)
      BY <1>1, <2>1, <2>2 DEF Beyond
    <3>2. u \in Text /\ v \in Text
      BY <3>1, Halves DEF Text
    <3>3. Insert(c, i, s) = u \o s \o v
      BY <2>1, <2>2 DEF Insert
    <3> HIDE DEF u, v
    <3>4. u \o s \in Text
      BY <3>2, ConcatProperties DEF Text
    <3> DEFINE a == u \o s
    <3>5. Insert(c, i, s) = a \o v /\ a \in Text
      BY <3>3, <3>4
    <3> HIDE DEF a
    <3>6. QED
      BY <3>2, <3>5, ConcatProperties DEF Text
  <2>3. CASE ~ (i < Len(c))
    BY <1>2, <2>1, <2>3 DEF Insert
  <2>4. QED
    BY <2>2, <2>3
<1>5. QED
  BY <1>2, <1>3, <1>4

\* The same for what is erased.
LEMMA EraseType ==
  ASSUME NEW c \in Text, NEW i \in Nat, NEW len \in Nat, Erase(c, i, len) # Thrown
  PROVE  Erase(c, i, len) \in Text
<1>1. Len(c) \in Nat /\ Prefixed(c) \in 0..Len(c)
  BY PrefixedType DEF Text
<1>2. ~ Beyond(c, i)
  BY DEF Erase
<1>3. CASE i < Len(c)
  <2> DEFINE k == Prefixed(c) + i
             u == SubSeq(c, 1, k)
             v == IF i + len >= Len(c) THEN <<>> ELSE SubSeq(c, k + len + 1, Len(c))
  <2>1. k \in 0..Len(c)
    BY <1>1, <1>2, <1>3 DEF Beyond
  <2>2. u \in Text
    BY <2>1, Halves DEF Text
  <2>3. v \in Text
    <3>1. CASE k + len <= Len(c)
      <4>1. k + len \in 0..Len(c)
        BY <1>1, <2>1, <3>1
      <4>2. SubSeq(c, k + len + 1, Len(c)) \in Text
        BY <4>1, Halves DEF Text
      <4>3. QED
        BY <4>2, EmptySeq DEF Text
    <3>2. CASE ~ (k + len <= Len(c))
      <4>1. k + len + 1 \in Int /\ Len(c) \in Int /\ Len(c) < k + len + 1
        BY <1>1, <2>1, <3>2
      <4>2. SubSeq(c, k + len + 1, Len(c)) = <<>>
        BY <4>1, SubSeqEmpty
      <4>3. QED
        BY <4>2, EmptySeq DEF Text
    <3>3. QED
      BY <3>1, <3>2
  <2>4. Erase(c, i, len) = u \o v
    <3>1. ~ (i >= Len(c)) /\ k + len + 1 = Prefixed(c) + i + len + 1
      BY <1>1, <1>3
    <3>2. QED
      BY <1>2, <3>1, Zenon DEF Erase
  <2> HIDE DEF u, v
  <2>5. QED
    BY <2>2, <2>3, <2>4, ConcatProperties DEF Text
<1>4. CASE ~ (i < Len(c))
  BY <1>1, <1>2, <1>4 DEF Erase
<1>5. QED
  BY <1>3, <1>4

\* The control as it is, and after what it does for itself.
LEMMA ControlType ==
  ASSUME TypeOK
  PROVE  /\ InControl(tc) /\ Len(tc.value) \in Nat
         /\ \A v \in Text : \A i \in 0..Len(v) : InControl(Plain(v, i))
         /\ \A v \in Text : \A t \in AllOf(v) : InControl(t) /\ t.value = v
<1>1. InControl(tc)
  BY DEF TypeOK, InControl
<1>2. Len(tc.value) \in Nat
  BY <1>1 DEF InControl, Text
<1>3. ASSUME NEW v \in Text, NEW i \in 0..Len(v)
      PROVE  InControl(Plain(v, i))
  <2>1. Len(v) \in Nat
    BY DEF Text
  <2>2. QED
    BY <2>1 DEF InControl, Plain
<1>4. ASSUME NEW v \in Text, NEW t \in AllOf(v)
      PROVE  InControl(t) /\ t.value = v
  <2>1. Len(v) \in Nat
    BY DEF Text
  <2>2. QED
    BY <2>1 DEF InControl, AllOf
<1>5. QED
  BY <1>1, <1>2, <1>3, <1>4

\* Where a text is written: at the selection, else at the caret.
WrittenAt == IF Selected THEN tc.from ELSE tc.ip
WrittenTo == IF Selected THEN tc.to ELSE tc.ip

\* A text that is written is in the place of what was there.
LEMMA WrittenType ==
  ASSUME TypeOK, NEW s \in Text
  PROVE  /\ WrittenAt \in 0..Len(tc.value) /\ WrittenTo \in WrittenAt..Len(tc.value)
         /\ Written(s).value = Replaced(tc.value, WrittenAt, WrittenTo, s)
         /\ Written(s) = Plain(Written(s).value, WrittenAt + Len(s))
         /\ InControl(Written(s))
<1>1. /\ InControl(tc) /\ Len(tc.value) \in Nat /\ tc.value \in Text
      /\ tc.ip \in Nat /\ tc.from \in Nat /\ tc.to \in Nat /\ tc.ip \in {tc.from, tc.to}
      /\ tc.from <= tc.to /\ tc.to <= Len(tc.value)
  BY ControlType DEF InControl
<1>2. WrittenAt \in 0..Len(tc.value) /\ WrittenTo \in WrittenAt..Len(tc.value)
  BY <1>1 DEF WrittenAt, WrittenTo, Selected
<1>3. Written(s) = Plain(Replaced(tc.value, WrittenAt, WrittenTo, s), WrittenAt + Len(s))
  BY Zenon DEF Written, Replaced, WrittenAt, WrittenTo
<1> DEFINE v == Replaced(tc.value, WrittenAt, WrittenTo, s)
<1>4. /\ v \in Text /\ Len(s) \in Nat /\ Len(v) \in Nat
      /\ Len(v) = Len(tc.value) - (WrittenTo - WrittenAt) + Len(s)
  <2>1. tc.value \in Seq(Symbol) /\ s \in Seq(Symbol)
    BY <1>1 DEF Text
  <2>2. /\ v \in Seq(Symbol)
        /\ Len(v) = Len(tc.value) - (WrittenTo - WrittenAt) + Len(s)
    BY <1>2, <2>1, ReplacedType
  <2>3. QED
    BY <2>1, <2>2 DEF Text
<1> HIDE DEF v
<1>5. WrittenAt + Len(s) \in 0..Len(v)
  BY <1>1, <1>2, <1>4
<1>6. InControl(Plain(v, WrittenAt + Len(s)))
  BY <1>4, <1>5, ControlType
<1>7. Plain(v, WrittenAt + Len(s)).value = v
  BY DEF Plain
<1>8. Written(s) = Plain(v, WrittenAt + Len(s))
  BY <1>3 DEF v
<1>9. Written(s).value = v
  BY <1>7, <1>8
<1>10. QED
  BY <1>2, <1>6, <1>8, <1>9 DEF v

\* What is deleted by backspace is the selection, or what is before the caret.
LEMMA BackedType ==
  ASSUME TypeOK
  PROVE  /\ InControl(Backed)
         /\ ~ Selected /\ tc.ip # 0 =>
              Backed = Plain(Replaced(tc.value, tc.ip - 1, tc.ip, <<>>), tc.ip - 1)
<1>1. /\ InControl(tc) /\ Len(tc.value) \in Nat /\ tc.value \in Text
      /\ tc.ip \in Nat /\ tc.ip <= Len(tc.value)
  BY ControlType DEF InControl
<1>2. <<>> \in Text
  BY EmptySeq DEF Text
<1>3. CASE Selected
  BY <1>2, <1>3, WrittenType DEF Backed
<1>4. CASE ~ Selected /\ tc.ip = 0
  BY <1>1, <1>4 DEF Backed
<1>5. CASE ~ Selected /\ tc.ip # 0
  <2> DEFINE i == tc.ip - 1
             v == Replaced(tc.value, i, tc.ip, <<>>)
  <2>1. i \in 0..Len(tc.value) /\ tc.ip \in i..Len(tc.value)
    BY <1>1, <1>5
  <2>2. v \in Text /\ Len(v) = Len(tc.value) - 1
    <3>1. tc.value \in Seq(Symbol) /\ <<>> \in Seq(Symbol) /\ Len(<<>>) = 0
      BY <1>1, <1>2 DEF Text
    <3>2. ASSUME NEW e \in Seq(Symbol)
          PROVE  /\ Replaced(tc.value, i, tc.ip, e) \in Seq(Symbol)
                 /\ Len(Replaced(tc.value, i, tc.ip, e)) = Len(tc.value) - (tc.ip - i) + Len(e)
      <4> HIDE DEF i
      <4>1. QED
        BY <2>1, <3>1, ReplacedType
    <3>3. v \in Seq(Symbol) /\ Len(v) = Len(tc.value) - (tc.ip - i) + Len(<<>>)
      BY <3>1, <3>2, Zenon
    <3>4. tc.ip - i = 1
      BY <1>1
    <3> HIDE DEF v, i
    <3>5. QED
      BY <1>1, <3>1, <3>3, <3>4 DEF Text
  <2>3. v = RemoveAt(tc.value, tc.ip)
    <3>1. SubSeq(tc.value, 1, i) \in Text
      BY <1>1, <2>1, Halves DEF Text
    <3>2. SubSeq(tc.value, 1, i) \o <<>> = SubSeq(tc.value, 1, i)
      BY <3>1, ConcatEmptySeq DEF Text
    <3>3. v = (SubSeq(tc.value, 1, i) \o <<>>) \o SubSeq(tc.value, tc.ip + 1, Len(tc.value))
      BY DEF Replaced
    <3>4. QED
      BY <3>2, <3>3 DEF RemoveAt
  <2>4. Backed = Plain(v, i)
    BY <1>5, <2>3 DEF Backed
  <2> HIDE DEF v
  <2>5. i \in 0..Len(v)
    BY <1>1, <1>5, <2>1, <2>2
  <2>6. InControl(Plain(v, i))
    BY <2>2, <2>5, ControlType
  <2>7. QED
    BY <2>4, <2>6 DEF v
<1>6. QED
  BY <1>3, <1>4, <1>5

\* The command, after it was cut and handled.
LEMMA HandleType ==
  ASSUME TypeOK
  PROVE  /\ Cut(m) # Thrown => Cut(m) \in Text
         /\ HandleBack(m) # Thrown => HandleBack(m) \in Text
         /\ \A c, s \in Text : Handle(c, s) # Thrown => Handle(c, s) \in Text
         /\ \A s \in Text : Handle(Thrown, s) = Thrown
<1>1. /\ tc.ip \in Nat /\ tc.from \in Nat /\ tc.to \in Nat /\ tc.from <= tc.to
      /\ tc.to - tc.from \in Nat
  BY ControlType DEF InControl
<1>2. m \in Text
  BY DEF TypeOK
<1>3. Cut(m) # Thrown => Cut(m) \in Text
  BY <1>1, <1>2, EraseType DEF Cut
<1>4. ASSUME HandleBack(m) # Thrown
      PROVE  HandleBack(m) \in Text
  <2>1. CASE m = <<>> \/ (~ AtEnd /\ tc.ip = 0)
    BY <1>2, <2>1 DEF HandleBack
  <2>2. CASE m # <<>> /\ AtEnd
    <3>1. HandleBack(m) = SubSeq(m, 1, Len(m) - 1)
      BY <2>2 DEF HandleBack, Front
    <3>2. Len(m) - 1 \in 0..Len(m)
      BY <1>2, <2>2 DEF Text
    <3>3. QED
      BY <1>2, <3>1, <3>2, Halves DEF Text
  <2>3. CASE m # <<>> /\ ~ AtEnd /\ tc.ip # 0
    <3> DEFINE len == IF Selected THEN tc.to - tc.from ELSE 1
    <3>1. tc.ip - 1 \in Nat /\ len \in Nat
      BY <1>1, <2>3
    <3>2. HandleBack(m) = Erase(m, tc.ip - 1, len)
      BY <2>3 DEF HandleBack
    <3> HIDE DEF len
    <3>3. QED
      BY <1>2, <1>4, <3>1, <3>2, EraseType
  <2>4. QED
    BY <2>1, <2>2, <2>3
<1>5. ASSUME NEW c \in Text, NEW s \in Text, Handle(c, s) # Thrown
      PROVE  Handle(c, s) \in Text
  BY <1>1, <1>5, InsertType DEF Handle
<1>6. ASSUME NEW s \in Text
      PROVE  Handle(Thrown, s) = Thrown
  BY DEF Handle, Insert, Beyond
<1>7. QED
  BY <1>3, <1>4, <1>5, <1>6

\* The function that Without asks for: of each begin of a list, what is left of it.
Listing(f, s, x, k) ==
  f = [i \in 0..k |-> IF i = 0 THEN <<>> ELSE Spared(f[i - 1], s[i], x)]

\* It exists as well.
LEMMA RecursionOfLists ==
  ASSUME NEW s, NEW x
  PROVE  \A k \in Nat : \E f : Listing(f, s, x, k)
<1> DEFINE Has == {k \in Nat :
                     \E f : f = [i \in 0..k |-> IF i = 0 THEN <<>> ELSE Spared(f[i - 1], s[i], x)]}
<1>1. 0 \in Has
  <2> DEFINE f == [i \in 0..0 |-> <<>>]
  <2>1. f = [i \in 0..0 |-> IF i = 0 THEN <<>> ELSE Spared(f[i - 1], s[i], x)]
    OBVIOUS
  <2> HIDE DEF f
  <2>2. QED
    BY <2>1
<1>2. ASSUME NEW k \in Nat, k \in Has
      PROVE  k + 1 \in Has
  <2>1. PICK f : f = [i \in 0..k |-> IF i = 0 THEN <<>> ELSE Spared(f[i - 1], s[i], x)]
    BY <1>2
  <2> DEFINE g == [i \in 0..(k + 1) |-> IF i \in 0..k THEN f[i] ELSE Spared(f[k], s[k + 1], x)]
             h == [i \in 0..(k + 1) |-> IF i = 0 THEN <<>> ELSE Spared(g[i - 1], s[i], x)]
  <2>2. ASSUME NEW i \in 0..(k + 1)
        PROVE  g[i] = h[i]
    <3>1. CASE i = 0
      BY <2>1, <3>1
    <3>2. CASE i \in 1..k
      <4>1. i - 1 \in 0..k /\ i \in 0..k /\ i # 0 /\ i - 1 \in 0..(k + 1)
        BY <3>2
      <4>2. g[i] = f[i] /\ g[i - 1] = f[i - 1]
        BY <4>1
      <4>3. f[i] = Spared(f[i - 1], s[i], x)
        BY <2>1, <4>1
      <4>4. h[i] = Spared(g[i - 1], s[i], x)
        BY <4>1
      <4>5. QED
        BY <4>2, <4>3, <4>4
    <3>3. CASE i = k + 1
      <4>1. i - 1 = k /\ i # 0 /\ i \notin 0..k /\ k \in 0..(k + 1) /\ k \in 0..k
        BY <3>3
      <4>2. g[i] = Spared(f[k], s[k + 1], x) /\ g[k] = f[k]
        BY <4>1
      <4>3. h[i] = Spared(g[i - 1], s[i], x)
        BY <4>1
      <4>4. QED
        BY <3>3, <4>1, <4>2, <4>3
    <3>4. QED
      BY <3>1, <3>2, <3>3
  <2>3. g = h
    BY <2>2
  <2> HIDE DEF g
  <2>4. \E e : e = [i \in 0..(k + 1) |-> IF i = 0 THEN <<>> ELSE Spared(e[i - 1], s[i], x)]
    BY <2>3
  <2>5. QED
    BY <2>4
<1> HIDE DEF Has
<1>3. \A k \in Nat : k \in Has
  BY <1>1, <1>2, Induction
<1>4. QED
  BY <1>3 DEF Has, Listing

\* What is left of a list is a list.
LEMMA WithoutType ==
  ASSUME NEW S, NEW s \in Seq(S), NEW x
  PROVE  Without(s, x)[Len(s)] \in Seq(S)
<1>1. Len(s) \in Nat
  OBVIOUS
<1>2. \E f : Listing(f, s, x, Len(s))
  BY <1>1, RecursionOfLists
<1> DEFINE e == Without(s, x)
           T == {k \in Nat : k <= Len(s) => e[k] \in Seq(S)}
<1>3. e = [i \in 0..Len(s) |-> IF i = 0 THEN <<>> ELSE Spared(e[i - 1], s[i], x)]
  BY <1>2, Zenon DEF Without, Listing
<1> HIDE DEF e
<1>4. 0 \in T
  BY <1>1, <1>3
<1>5. ASSUME NEW k \in Nat, k \in T
      PROVE  k + 1 \in T
  <2> SUFFICES ASSUME k + 1 <= Len(s)
               PROVE  e[k + 1] \in Seq(S)
    OBVIOUS
  <2>1. k + 1 \in 0..Len(s) /\ k + 1 # 0 /\ (k + 1) - 1 = k /\ s[k + 1] \in S
    BY <1>1
  <2>2. e[k + 1] = Spared(e[k], s[k + 1], x)
    BY <1>3, <2>1
  <2>3. e[k] \in Seq(S)
    BY <1>1, <1>5
  <2>4. Append(e[k], s[k + 1]) \in Seq(S)
    BY <2>1, <2>3
  <2>5. QED
    BY <2>2, <2>3, <2>4 DEF Spared
<1> HIDE DEF T
<1>6. Len(s) \in T
  BY <1>1, <1>4, <1>5, Induction
<1>7. QED
  BY <1>1, <1>6 DEF T, e

Entry == [values : Seq(Text), at : Nat \ {0}]

\* What was given before is a text, and so it stays when a list is used.
LEMMA HistoryType ==
  ASSUME NEW h \in Entry
  PROVE  /\ Get(h) \in Text
         /\ \A text \in Text : Recent(h, text) \in Entry
         /\ h.values # <<>> =>
              \A k \in {"up", "down", "home", "end"} : Browsed(h, k) \in Entry
<1>1. h.values \in Seq(Text) /\ h.at \in Nat /\ h.at # 0 /\ Len(h.values) \in Nat
  BY DEF Entry
<1>2. Get(h) \in Text
  <2>1. <<>> \in Text
    BY EmptySeq DEF Text
  <2>2. h.at <= Len(h.values) => h.values[h.at] \in Text
    BY <1>1
  <2>3. QED
    BY <2>1, <2>2 DEF Get
<1>3. ASSUME NEW text \in Text
      PROVE  Recent(h, text) \in Entry
  <2> DEFINE w == Without(h.values, text)[Len(h.values)]
  <2>1. w \in Seq(Text)
    BY <1>1, WithoutType
  <2>2. <<text>> \in Seq(Text)
    OBVIOUS
  <2>3. Recent(h, text) = [values |-> <<text>> \o w, at |-> 1]
    BY DEF Recent
  <2> HIDE DEF w
  <2>4. <<text>> \o w \in Seq(Text)
    BY <2>1, <2>2, ConcatProperties
  <2>5. QED
    BY <2>3, <2>4 DEF Entry
<1>4. ASSUME h.values # <<>>, NEW k \in {"up", "down", "home", "end"}
      PROVE  Browsed(h, k) \in Entry
  <2> DEFINE a == CASE k = "down" -> IF h.at > 1 THEN h.at - 1 ELSE h.at
                    [] k = "up" -> IF h.at <= Len(h.values) THEN h.at + 1 ELSE h.at
                    [] k = "end" -> Len(h.values)
                    [] k = "home" -> 1
  <2>1. Browsed(h, k) = [h EXCEPT !.at = a]
    BY DEF Browsed
  <2>2. Len(h.values) # 0
    BY <1>1, <1>4
  <2>3. a \in Nat \ {0}
    <3>1. CASE k = "down"
      BY <1>1, <3>1
    <3>2. CASE k = "up"
      BY <1>1, <3>2
    <3>3. CASE k = "end"
      BY <1>1, <2>2, <3>3
    <3>4. CASE k = "home"
      BY <3>4
    <3>5. QED
      BY <1>4, <3>1, <3>2, <3>3, <3>4
  <2> HIDE DEF a
  <2>4. QED
    BY <1>1, <2>1, <2>3 DEF Entry
<1>5. QED
  BY <1>2, <1>3, <1>4

\* A text that is shown as a whole.
LEMMA SelectsType ==
  ASSUME TypeOK, NEW text \in Text, SelectsAll(text)
  PROVE  InControl(tc)' /\ tc'.value = text /\ timer' \in BOOLEAN /\ allSelected' \in BOOLEAN
<1>1. timer \in BOOLEAN /\ allSelected \in BOOLEAN
  BY DEF TypeOK
<1>2. CASE tc' = Plain(text, 0) /\ timer' = TRUE /\ allSelected' = allSelected
  <2>1. 0 \in 0..Len(text)
    BY DEF Text
  <2>2. InControl(Plain(text, 0))
    BY <2>1, ControlType
  <2>3. Plain(text, 0).value = text
    BY DEF Plain
  <2>4. InControl(tc') /\ tc'.value = text
    BY <1>2, <2>2, <2>3
  <2>5. QED
    BY <1>1, <1>2, <2>4 DEF InControl
<1>3. CASE tc' \in AllOf(text) /\ allSelected' = TRUE /\ timer' = timer
  <2>1. InControl(tc') /\ tc'.value = text
    BY <1>3, ControlType
  <2>2. QED
    BY <1>1, <1>3, <2>1 DEF InControl
<1>4. QED
  BY <1>2, <1>3 DEF SelectsAll

\* A place, and what a caret and a saved place are.
LEMMA PlaceType ==
  ASSUME TypeOK
  PROVE  At(caret) \in Place /\ Restored \in Place /\ None \in Place
         /\ EscapedTo \in [place : Place, text : Text]
<1>1. caret \in [place : Place, text : Text] /\ saved \in Place /\ savedSel \in Place
  BY DEF TypeOK
<1>2. At(caret) \in Place /\ Restored \in Place /\ None \in Place
  BY <1>1 DEF At, Restored, Place
<1>3. QED
  BY <1>2, EmptySeq DEF EscapedTo, Text

\* The texts that are typed or opened.
LEMMA Keys ==
  /\ <<>> \in Text /\ <<":">> \in Text /\ <<"^R">> \in Text /\ <<"cr">> \in Text
  /\ <<"'<,'>">> \in Text /\ <<"!">> \in Text
  /\ \A c \in Char : <<c>> \in Text
  /\ Opens \subseteq Text
  /\ Seq(Char) \subseteq Text /\ Clips \subseteq Text
<1>1. /\ ":" \in Symbol /\ "^R" \in Symbol /\ "cr" \in Symbol /\ "'<,'>" \in Symbol
      /\ "/" \in Symbol /\ "!" \in Symbol /\ "=" \in Symbol /\ \A c \in Char : c \in Symbol
  BY DEF Symbol
<1>2. /\ <<>> \in Seq(Symbol) /\ <<":">> \in Seq(Symbol) /\ <<"^R">> \in Seq(Symbol)
      /\ <<"cr">> \in Seq(Symbol) /\ <<"'<,'>">> \in Seq(Symbol)
      /\ <<"/">> \in Seq(Symbol) /\ <<"!">> \in Seq(Symbol) /\ <<"^R", "=">> \in Seq(Symbol)
      /\ <<":", "!">> \in Seq(Symbol)
      /\ \A c \in Char : <<c>> \in Seq(Symbol)
  <2>1. ASSUME NEW x \in Symbol
        PROVE  <<x>> \in Seq(Symbol)
    OBVIOUS
  <2>2. ASSUME NEW x \in Symbol, NEW y \in Symbol
        PROVE  <<x, y>> \in Seq(Symbol)
    OBVIOUS
  <2>3. <<>> \in Seq(Symbol)
    BY EmptySeq
  <2>4. QED
    BY <1>1, <2>1, <2>2, <2>3, Zenon
<1>3. Opens \subseteq Seq(Symbol)
  BY <1>2, ExCommandAssumption
<1>4. Seq(Char) \subseteq Text /\ Clips \subseteq Text
  <2>1. Clips \subseteq Seq(Char)
    BY ExCommandAssumption
  <2>2. QED
    BY <2>1, Typed
<1>5. QED
  BY <1>2, <1>3, <1>4 DEF Text

\* An edit of a text leaves texts.
LEMMA EditedType ==
  ASSUME TypeOK, NEW c, c # Thrown => c \in Text, NEW u, NEW t, InControl(t), NEW causes,
         Edited(c, u, t, causes)
  PROVE  /\ m' \in Text /\ tc' = t /\ InControl(tc)'
         /\ caret' \in [place : Place, text : Text]
         /\ UNCHANGED <<allSelected, timer, saved, savedSel, findString>>
<1>1. c \in Text
  BY DEF Edited
<1>2. tc' = t /\ UNCHANGED <<allSelected, timer, saved, savedSel, findString>>
  BY DEF Edited
<1>3. InControl(tc)'
  BY <1>2 DEF InControl
<1>4. Coerced(c) \in Text /\ <<>> \in Text
  BY <1>1, Keys DEF Coerced
<1>5. m' \in Text
  <2>1. Reset(Coerced(c), <<>>) \in Text
    BY <1>4, PrefixedType
  <2>2. QED
    BY <1>1, <1>4, <2>1 DEF Edited
<1>6. caret' \in [place : Place, text : Text]
  <2>1. caret \in [place : Place, text : Text]
    BY DEF TypeOK
  <2>2. Finds(m', u) \in [place : Place, text : Text]
    BY <1>5, <2>1, PlaceType, PrefixedType DEF Finds
  <2>3. QED
    BY <2>1, <2>2 DEF Edited
<1>7. QED
  BY <1>2, <1>3, <1>5, <1>6

\* How an event ends.
Results == [what : {None, "escape", "nothing", "input", "find", "exec"}, given : Text, shown : Text]

\* Nothing was done, or a text was given.
LEMMA DoneType ==
  ASSUME TypeOK
  PROVE  /\ NotDone => done' \in Results
         /\ \A what \in {"escape", "nothing", "input", "find", "exec"} : \A given \in Text :
              Ended(what, given) => done' \in Results
         /\ Event => n' \in Nat /\ exMode' \in BOOLEAN
<1>1. tc.value \in Text /\ <<>> \in Text
  BY ControlType, Keys DEF InControl
<1>2. NotDone => done' \in Results
  BY <1>1 DEF NotDone, Results
<1>3. ASSUME NEW what \in {"escape", "nothing", "input", "find", "exec"}, NEW given \in Text,
             Ended(what, given)
      PROVE  done' \in Results
  BY <1>1, <1>3 DEF Ended, Results
<1>4. Event => n' \in Nat /\ exMode' \in BOOLEAN
  BY DEF Event, TypeOK
<1>5. QED
  BY <1>2, <1>3, <1>4

\* The text of a line that is opened.
LEMMA OpenTextType ==
  ASSUME TypeOK, NEW c, NEW visual \in BOOLEAN
  PROVE  OpenText(c, visual) \in Text
<1> DEFINE given == Get(history[ListOf(c)])
           range == IF visual THEN <<"'<,'>">> ELSE <<>>
<1>1. given \in Text
  <2>1. ListOf(c) \in Kinds
    BY DEF ListOf, Kinds
  <2>2. history[ListOf(c)] \in Entry
    BY <2>1 DEF TypeOK, Entry
  <2>3. QED
    BY <2>2, HistoryType
<1>2. range \in Text /\ <<>> \in Text /\ <<"!">> \in Text /\ findString \in Text
  BY Keys DEF TypeOK
<1>3. range \o given \in Text
  <2> HIDE DEF given, range
  <2>1. QED
    BY <1>1, <1>2, ConcatProperties DEF Text
<1>4. OpenText(c, visual) \in {<<"!">>, <<>>, findString, given, range, range \o given}
  BY DEF OpenText
<1> HIDE DEF given, range
<1>5. QED
  BY <1>1, <1>2, <1>3, <1>4

\* What is shown is the text that the line is opened with, behind the prefix.
LEMMA OpenedType ==
  ASSUME TypeOK, NEW c \in Text, NEW text \in Text, OpenedWith(c, text)
  PROVE  /\ m' = Reset(c, text) /\ InControl(tc)' /\ tc'.value = text
         /\ timer' \in BOOLEAN /\ allSelected' \in BOOLEAN
<1>1. CASE c = ShellOpen
  <2>1. m' = Reset(c, text) /\ tc' = Plain(text, Len(text)) /\ UNCHANGED <<allSelected, timer>>
    BY <1>1 DEF OpenedWith
  <2>2. Len(text) \in 0..Len(text)
    BY DEF Text
  <2>3. InControl(Plain(text, Len(text)))
    BY <2>2, ControlType
  <2>4. InControl(tc)'
    BY <2>1, <2>3 DEF InControl
  <2>5. tc'.value = text
    BY <2>1 DEF Plain
  <2>6. QED
    BY <2>1, <2>4, <2>5 DEF TypeOK
<1>2. CASE c # ShellOpen
  BY <1>2, SelectsType DEF OpenedWith, TextSet
<1>3. QED
  BY <1>1, <1>2

\* A line that is opened.
LEMMA OpenType ==
  ASSUME TypeOK, Open
  PROVE  TypeOK'
<1>1. PICK c \in {o \in Opens : exMode => o[1] = ":"}, visual \in BOOLEAN,
           start \in Places \cup {At(caret)} :
        /\ OpenedWith(c, OpenText(c, visual))
        /\ origin' = start
        /\ savedSel' = IF visual THEN start ELSE savedSel
  BY Zenon DEF Open
<1> DEFINE text == OpenText(c, visual)
<1>2. c \in Text
  BY Keys
<1>5. text \in Text
  BY OpenTextType
<1> HIDE DEF text
<1>6. OpenedWith(c, text)
  BY <1>1 DEF text
<1>7. m' \in Text
  BY <1>2, <1>5, <1>6, OpenedType, PrefixedType
<1>8. InControl(tc)' /\ timer' \in BOOLEAN /\ allSelected' \in BOOLEAN
  BY <1>2, <1>5, <1>6, OpenedType
<1>9. savedSel' \in Place /\ saved' \in Place /\ origin' \in Place
  <2>1. At(caret) \in Place /\ Places \subseteq Place
    BY PlaceType DEF Place
  <2>2. QED
    BY <1>1, <2>1 DEF Open, TypeOK
<1>10. done' \in Results /\ n' \in Nat /\ exMode' \in BOOLEAN
  BY DoneType DEF Open
<1>11. /\ open' \in BOOLEAN /\ input' \in BOOLEAN /\ userInput' \in BOOLEAN /\ controlR' \in BOOLEAN
       /\ UNCHANGED <<posted, caret, findString, history>>
  BY DEF Open
<1>12. QED
  BY <1>7, <1>8, <1>9, <1>10, <1>11 DEF TypeOK, InControl, Results

\* A text or a name of a register that is typed.
LEMMA CharType ==
  ASSUME TypeOK, NEW c \in Char, Char_(c)
  PROVE  TypeOK'
<1>1. <<c>> \in Text /\ <<"^R">> \in Text /\ m \in Text /\ tc.ip \in Nat
  BY Keys DEF TypeOK
<1>2. Cut(m) \in Text
  BY HandleType DEF Char_
<1>3. done' \in Results /\ n' \in Nat /\ exMode' \in BOOLEAN /\ origin' = origin
  BY DoneType DEF Char_, Key
<1>4. open' = open /\ input' = input /\ history' = history /\ userInput' = TRUE /\ controlR' = FALSE
  BY DEF Char_
<1>5. CASE controlR /\ Regs[c] # <<>>
  <2> DEFINE a == Insert(Cut(m), tc.ip, <<"^R">>)
             b == Insert(a, tc.ip + 1, <<c>>)
  <2>1. /\ m' = b /\ m' # Thrown /\ posted' = Append(posted, Regs[c])
        /\ UNCHANGED <<tc, caret, allSelected, timer, saved, savedSel, findString>>
    BY <1>5 DEF Char_
  <2>2. tc.ip + 1 \in Nat
    BY <1>1
  <2>3. a # Thrown => a \in Text
    BY <1>1, <1>2, InsertType
  <2> HIDE DEF a
  <2>4. a # Thrown
    BY <1>1, <2>1, <2>2, InsertType
  <2>5. m' \in Text
    BY <1>1, <2>1, <2>2, <2>3, <2>4, InsertType
  <2>6. posted' \in Seq(Seq(Char) \ {<<>>})
    <3>1. Regs[c] \in Seq(Char) \ {<<>>}
      BY <1>5, Symbols
    <3>2. QED
      BY <2>1, <3>1 DEF TypeOK
  <2> HIDE DEF b
  <2>7. QED
    BY <1>3, <1>4, <2>1, <2>5, <2>6 DEF TypeOK, Results
<1>6. CASE controlR /\ Regs[c] = <<>>
  <2>1. m' = Cut(m) /\ UNCHANGED <<tc, posted, allSelected, timer, document>>
    BY <1>6 DEF Char_
  <2>2. QED
    BY <1>2, <1>3, <1>4, <2>1 DEF TypeOK, Results, document
<1>7. CASE ~ controlR
  <2> DEFINE d == Handle(Cut(m), <<c>>)
             causes == Overtakes \cup Overwrites \cup Splices
             t == Written(<<c>>)
  <2>1. Edited(d, TRUE, t, causes) /\ posted' = posted
    BY <1>7 DEF Char_
  <2>2. d # Thrown => d \in Text
    BY <1>1, <1>2, HandleType
  <2>3. InControl(t)
    BY <1>1, WrittenType
  <2> HIDE DEF d, causes, t
  <2>4. /\ m' \in Text /\ InControl(tc)' /\ caret' \in [place : Place, text : Text]
        /\ UNCHANGED <<allSelected, timer, saved, savedSel, findString>>
    BY <2>1, <2>2, <2>3, EditedType
  <2>5. QED
    BY <1>3, <1>4, <2>1, <2>4 DEF TypeOK, InControl, Results
<1>8. QED
  BY <1>5, <1>6, <1>7

\* An edit, whichever event it is of.
LEMMA EditType ==
  ASSUME TypeOK, NEW c, c # Thrown => c \in Text, NEW u, NEW t, InControl(t), NEW causes,
         Edited(c, u, t, causes),
         done' \in Results, n' \in Nat, exMode' \in BOOLEAN, open' \in BOOLEAN,
         posted' \in Seq(Seq(Char) \ {<<>>}),
         UNCHANGED <<input, userInput, controlR, history, origin>>
  PROVE  TypeOK'
<1>1. /\ m' \in Text /\ InControl(tc)' /\ caret' \in [place : Place, text : Text]
      /\ UNCHANGED <<allSelected, timer, saved, savedSel, findString>>
  BY EditedType
<1>2. QED
  BY <1>1 DEF TypeOK, InControl, Results

\* A text that arrives, is deleted or is pasted.
LEMMA EditsType ==
  ASSUME TypeOK, Register \/ Back \/ Paste
  PROVE  TypeOK'
<1>1. m \in Text /\ tc.ip \in Nat /\ open \in BOOLEAN /\ posted \in Seq(Seq(Char) \ {<<>>})
  BY DEF TypeOK
<1>2. CASE Register
  <2>1. posted # <<>>
    BY <1>2 DEF Register
  <2>2. Head(posted) \in Text /\ Tail(posted) \in Seq(Seq(Char) \ {<<>>})
    <3>1. Head(posted) \in Seq(Char) \ {<<>>} /\ Tail(posted) \in Seq(Seq(Char) \ {<<>>})
      BY <1>1, <2>1, HeadTailProperties
    <3>2. QED
      BY <3>1, Keys
  <2> DEFINE t == Written(Head(posted))
  <2>3. InControl(t)
    BY <2>2, WrittenType
  <2>4. /\ Edited(m, userInput, t, {}) /\ posted' = Tail(posted)
        /\ UNCHANGED <<exMode, open, n, input, userInput, controlR, history, origin>>
    BY <1>2 DEF Register
  <2>5. done' \in Results
    BY <1>2, DoneType DEF Register
  <2>6. n' \in Nat /\ exMode' \in BOOLEAN
    BY <2>4 DEF TypeOK
  <2> HIDE DEF t
  <2>7. QED
    BY <1>1, <2>2, <2>3, <2>4, <2>5, <2>6, EditType
<1>3. CASE Back
  <2> DEFINE causes == Overtakes \cup (IF Selected THEN {"erased"} ELSE {})
              \cup (IF Rest(m) = <<>> THEN {"popped"} ELSE {})
              \cup (IF HasRegister THEN {"spliced"} ELSE {})
  <2>1. /\ Edited(HandleBack(m), userInput, Backed, causes)
        /\ UNCHANGED <<open, input, userInput, controlR, posted, history, origin>>
    BY <1>3 DEF Back, Key
  <2>2. done' \in Results /\ n' \in Nat /\ exMode' \in BOOLEAN
    BY <1>3, DoneType DEF Back, Key
  <2>3. (HandleBack(m) # Thrown => HandleBack(m) \in Text) /\ InControl(Backed)
    BY HandleType, BackedType
  <2> HIDE DEF causes
  <2>4. QED
    BY <1>1, <2>1, <2>2, <2>3, EditType
<1>4. CASE Paste
  <2>1. PICK s \in Clips :
          Edited(Insert(Cut(m), tc.ip, s), userInput, Written(s),
                 Overtakes \cup Overwrites \cup Splices \cup Lands)
    BY <1>4 DEF Paste
  <2> DEFINE causes == Overtakes \cup Overwrites \cup Splices \cup Lands
             c == Insert(Cut(m), tc.ip, s)
  <2>2. s \in Text
    BY Keys
  <2>3. c # Thrown => c \in Text
    BY <1>1, <2>2, HandleType, InsertType
  <2>4. InControl(Written(s))
    BY <2>2, WrittenType
  <2>5. done' \in Results /\ n' \in Nat /\ exMode' \in BOOLEAN
    BY <1>4, DoneType DEF Paste, Key
  <2>6. /\ Edited(c, userInput, Written(s), causes)
        /\ UNCHANGED <<open, input, userInput, controlR, posted, history, origin>>
    BY <1>4, <2>1 DEF Paste, Key
  <2> HIDE DEF causes, c
  <2>7. QED
    BY <1>1, <2>3, <2>4, <2>5, <2>6, EditType
<1>5. QED
  BY <1>2, <1>3, <1>4

\* The caret that moves, and what is selected.
LEMMA CaretType ==
  ASSUME TypeOK, ControlR \/ Left \/ Right \/ Select \/ TimerExpires \/ Refocus \/ Move
  PROVE  TypeOK'
<1>1. /\ InControl(tc) /\ tc.value \in Text /\ Len(tc.value) \in Nat /\ tc.ip \in Nat
      /\ tc.ip <= Len(tc.value)
  BY ControlType DEF InControl
<1>2. CASE ControlR
  <2>1. m' \in Text
    BY <1>2, HandleType DEF ControlR
  <2>2. done' \in Results /\ n' \in Nat /\ exMode' \in BOOLEAN
    BY <1>2, DoneType DEF ControlR, Key
  <2>3. /\ userInput' = TRUE /\ controlR' = TRUE
        /\ UNCHANGED <<open, tc, input, allSelected, timer, posted, document, history, origin>>
    BY <1>2 DEF ControlR, Key
  <2>4. QED
    BY <2>1, <2>2, <2>3 DEF TypeOK, Results, document
<1>3. CASE Left \/ Right
  <2>1. \E i \in 0..Len(tc.value) : tc' = Plain(tc.value, i)
    <3>1. CASE Left
      <4> DEFINE i == IF allSelected THEN 0 ELSE IF tc.ip > 0 THEN tc.ip - 1 ELSE tc.ip
      <4>1. i \in 0..Len(tc.value) /\ tc' = Plain(tc.value, i)
        BY <1>1, <3>1 DEF Left
      <4>2. QED
        BY <4>1
    <3>2. CASE Right
      <4> DEFINE e == Len(tc.value)
                 i == IF allSelected THEN e ELSE IF tc.ip < e THEN tc.ip + 1 ELSE tc.ip
      <4>1. i \in 0..Len(tc.value) /\ tc' = Plain(tc.value, i)
        BY <1>1, <3>2 DEF Right
      <4>2. QED
        BY <4>1
    <3>3. QED
      BY <1>3, <3>1, <3>2
  <2>2. InControl(tc')
    BY <1>1, <2>1, ControlType
  <2>3. done' \in Results /\ n' \in Nat /\ exMode' \in BOOLEAN
    BY <1>3, DoneType DEF Left, Right, Key
  <2>4. /\ allSelected' = FALSE
        /\ UNCHANGED <<open, m, input, userInput, controlR, timer, posted, document, history, origin>>
    BY <1>3 DEF Left, Right, Key
  <2>5. QED
    BY <2>2, <2>3, <2>4 DEF TypeOK, Results, document, InControl
<1>4. CASE Select
  <2>1. PICK from \in 0..Len(tc.value), to \in 0..Len(tc.value) :
          /\ from < to
          /\ \E i \in {from, to} :
               tc' = [value |-> tc.value, ip |-> i, from |-> from, to |-> to]
    BY <1>4 DEF Select
  <2>2. InControl(tc')
    BY <1>1, <2>1 DEF InControl
  <2>3. done' \in Results /\ n' \in Nat /\ exMode' \in BOOLEAN
    BY <1>4, DoneType DEF Select, Key
  <2>4. UNCHANGED <<open, m, input, userInput, controlR, allSelected, timer, posted,
                    document, history, origin>>
    BY <1>4 DEF Select, Key
  <2>5. QED
    BY <2>2, <2>3, <2>4 DEF TypeOK, Results, document, InControl
<1>5. CASE TimerExpires
  <2>1. InControl(tc')
    BY <1>1, <1>5, ControlType DEF TimerExpires
  <2>2. done' \in Results
    BY <1>5, DoneType DEF TimerExpires
  <2>3. /\ timer' = FALSE /\ allSelected' = TRUE
        /\ UNCHANGED <<exMode, open, m, input, userInput, controlR, posted, document,
                       history, origin, n>>
    BY <1>5 DEF TimerExpires
  <2>4. QED
    BY <2>1, <2>2, <2>3 DEF TypeOK, Results, document, InControl
<1>6. CASE Refocus
  <2>1. caret' \in [place : Place, text : Text]
    <3>1. [place : Places, text : {<<>>}] \subseteq [place : Place, text : Text]
      BY Keys DEF Place
    <3>2. QED
      BY <1>6, <3>1 DEF Refocus, TypeOK
  <2>2. saved' \in Place /\ savedSel' \in Place
    <3>1. At(caret') \in Place
      BY <2>1 DEF At, Place
    <3>2. saved' = At(caret') /\ savedSel' \in {None, savedSel, At(caret')}
      BY <1>6 DEF Refocus
    <3>3. QED
      BY <3>1, <3>2, PlaceType DEF TypeOK
  <2>3. done' \in Results /\ n' \in Nat /\ exMode' \in BOOLEAN
    BY <1>6, DoneType DEF Refocus, Key
  <2>4. UNCHANGED <<open, m, tc, input, userInput, controlR, allSelected, timer, posted,
                    findString, history, origin>>
    BY <1>6 DEF Refocus, Key
  <2>5. QED
    BY <2>1, <2>2, <2>3, <2>4 DEF TypeOK, Results
<1>7. CASE Move
  <2>1. caret' \in [place : Place, text : Text]
    <3>1. [place : Places, text : {<<>>}] \subseteq [place : Place, text : Text]
      BY Keys DEF Place
    <3>2. QED
      BY <1>7, <3>1 DEF Move
  <2>2. done' \in Results /\ n' \in Nat /\ exMode' \in BOOLEAN
    BY <1>7, DoneType DEF Move
  <2>3. UNCHANGED <<open, m, tc, input, userInput, controlR, allSelected, timer, posted, saved,
                    savedSel, findString, history, origin>>
    BY <1>7 DEF Move
  <2>4. QED
    BY <2>1, <2>2, <2>3 DEF TypeOK, Results
<1>8. QED
  BY <1>2, <1>3, <1>4, <1>5, <1>6, <1>7

\* A text that was given before.
LEMMA BrowseType ==
  ASSUME TypeOK, NEW k \in {"up", "down", "home", "end"}, Browse(k)
  PROVE  TypeOK'
<1> DEFINE t == IF Type(m) = "find" THEN "find" ELSE ListOf(m)
           h == Browsed(history[t], k)
<1>1. t \in Kinds /\ history[t] \in Entry /\ m \in Text
  BY DEF TypeOK, Entry, ListOf, Kinds
<1>2. /\ UNCHANGED <<open, input, userInput, controlR, posted, document, origin>>
      /\ done' \in Results /\ n' \in Nat /\ exMode' \in BOOLEAN
  BY DoneType DEF Browse, Key
<1>3. \/ /\ \E i \in 0..Len(tc.value) : tc' = Plain(tc.value, i)
         /\ UNCHANGED <<m, allSelected, timer, history>>
      \/ TextSet(m, Get(history[t])) /\ UNCHANGED history
      \/ /\ history[t].values # <<>>
         /\ TextSet(m, Get(h)) /\ history' = [history EXCEPT ![t] = h]
      \/ UNCHANGED <<m, tc, allSelected, timer, history>>
  BY Zenon DEF Browse
<1> HIDE DEF t
<1>4. CASE /\ \E i \in 0..Len(tc.value) : tc' = Plain(tc.value, i)
           /\ UNCHANGED <<m, allSelected, timer, history>>
  <2>1. InControl(tc')
    BY <1>4, ControlType DEF InControl
  <2>2. QED
    BY <1>2, <1>4, <2>1 DEF TypeOK, InControl, Results, document
<1>5. ASSUME NEW text \in Text, TextSet(m, text), history' \in [Kinds -> Entry]
      PROVE  TypeOK'
  <2>1. m' \in Text
    BY <1>1, <1>5, PrefixedType DEF TextSet
  <2>2. InControl(tc)' /\ timer' \in BOOLEAN /\ allSelected' \in BOOLEAN
    BY <1>5, SelectsType DEF TextSet
  <2>3. QED
    BY <1>2, <1>5, <2>1, <2>2 DEF TypeOK, InControl, Results, document, Entry
<1>6. CASE TextSet(m, Get(history[t])) /\ UNCHANGED history
  <2>1. history' \in [Kinds -> Entry]
    BY <1>6 DEF TypeOK, Entry
  <2>2. Get(history[t]) \in Text
    BY <1>1, HistoryType
  <2>3. QED
    BY <1>5, <1>6, <2>1, <2>2
<1>7. CASE /\ history[t].values # <<>>
           /\ TextSet(m, Get(h)) /\ history' = [history EXCEPT ![t] = h]
  <2>1. h \in Entry
    BY <1>1, <1>7, HistoryType
  <2>2. Get(h) \in Text
    BY <2>1, HistoryType
  <2>3. history' \in [Kinds -> Entry]
    <3> HIDE DEF h
    <3>1. QED
      BY <1>7, <2>1 DEF TypeOK, Entry
  <2> HIDE DEF h
  <2>4. QED
    BY <1>5, <1>7, <2>2, <2>3
<1>8. CASE UNCHANGED <<m, tc, allSelected, timer, history>>
  BY <1>2, <1>8 DEF TypeOK, Results, document
<1>9. QED
  BY <1>3, <1>4, <1>6, <1>7, <1>8

\* Escape, and Return without a text.
LEMMA AwayType ==
  ASSUME TypeOK, Escape \/ EnterNothing
  PROVE  TypeOK'
<1>1. <<>> \in Text /\ <<":">> \in Text /\ m \in Text
  BY Keys DEF TypeOK
<1>2. InControl(Plain(<<>>, 0))
  BY <1>1 DEF InControl, Plain
<1>3. CASE Escape
  <2>1. done' \in Results /\ n' \in Nat /\ exMode' \in BOOLEAN
    BY <1>1, <1>3, DoneType DEF Escape, Key
  <2>2. /\ userInput' = FALSE /\ controlR' = FALSE
        /\ UNCHANGED <<input, allSelected, timer, posted, saved, savedSel, findString, history, origin>>
    BY <1>3 DEF Escape, Key
  <2>3. CASE exMode
    <3>1. m' = <<":">> /\ tc' = Plain(<<>>, 0) /\ UNCHANGED <<open, caret>>
      BY <1>3, <2>3 DEF Escape, Emptied
    <3>2. InControl(tc')
      BY <1>2, <3>1
    <3>3. QED
      BY <1>1, <2>1, <2>2, <3>1, <3>2 DEF TypeOK, InControl, Results
  <2>4. CASE ~ exMode
    <3>1. UNCHANGED <<m, tc>> /\ open' = FALSE /\ caret' = EscapedTo
      BY <1>3, <2>4 DEF Escape, Away
    <3>2. caret' \in [place : Place, text : Text]
      BY <3>1, PlaceType
    <3>3. QED
      BY <2>1, <2>2, <3>1, <3>2 DEF TypeOK, Results
  <2>5. QED
    BY <2>3, <2>4
<1>4. CASE EnterNothing
  <2>1. done' \in Results /\ n' \in Nat /\ exMode' \in BOOLEAN
    BY <1>1, <1>4, DoneType DEF EnterNothing, Key
  <2>2. m' \in Text /\ open' \in BOOLEAN /\ tc' = tc
    <3>1. Coerced(m) \in Text
      BY <1>1 DEF Coerced
    <3>2. Reset(Coerced(m), <<>>) \in Text
      BY <1>1, <3>1, PrefixedType
    <3>3. QED
      BY <1>4, <3>2 DEF EnterNothing, Away, TypeOK
  <2>3. UNCHANGED <<input, userInput, controlR, allSelected, timer, posted, document, history, origin>>
    BY <1>4 DEF EnterNothing, Key
  <2>4. QED
    BY <2>1, <2>2, <2>3 DEF TypeOK, Results, document
<1>5. QED
  BY <1>3, <1>4

\* Return in an input mode.
LEMMA LineType ==
  ASSUME TypeOK, EnterLine
  PROVE  TypeOK'
<1> DEFINE c == Coerced(Entered)
           finished == Len(c) >= 2 /\ c[Len(c)] = "cr" /\ c[Len(c) - 1] = "."
<1>1. <<>> \in Text /\ <<":">> \in Text /\ <<"cr">> \in Text /\ m \in Text
  BY Keys DEF TypeOK
<1>2. Entered \in Text
  BY <1>1, HandleType DEF EnterLine, Entered
<1>3. c \in Text
  BY <1>1, <1>2 DEF Coerced
<1>4. /\ UNCHANGED <<input, userInput, controlR, posted, history, origin>>
      /\ Event
  BY DEF EnterLine, Key
<1>5. n' \in Nat /\ exMode' \in BOOLEAN
  BY <1>4, DoneType
<1>6. \/ /\ m' = Reset(c, <<>>) /\ open' = exMode
         /\ Ended("nothing", <<>>)
         /\ UNCHANGED <<tc, caret, allSelected, timer, saved, savedSel, findString>>
      \/ /\ finished
         /\ m' = c /\ open' \in BOOLEAN
         /\ done' = [what |-> "input", given |-> Inserted(c), shown |-> Newlined]
         /\ UNCHANGED <<tc, caret, allSelected, timer, saved, savedSel, findString>>
      \/ /\ \E causes : Edited(c, userInput, Written(<<"cr">>), causes)
         /\ NotDone /\ UNCHANGED open
  BY Zenon DEF EnterLine
<1> HIDE DEF c
<1>7. CASE /\ m' = Reset(c, <<>>) /\ open' = exMode
           /\ Ended("nothing", <<>>)
           /\ UNCHANGED <<tc, caret, allSelected, timer, saved, savedSel, findString>>
  <2>1. m' \in Text
    BY <1>1, <1>3, <1>7, PrefixedType
  <2>2. done' \in Results
    BY <1>1, <1>7, DoneType
  <2>3. QED
    BY <1>4, <1>5, <1>7, <2>1, <2>2 DEF TypeOK, Results
<1>8. CASE /\ finished
           /\ m' = c /\ open' \in BOOLEAN
           /\ done' = [what |-> "input", given |-> Inserted(c), shown |-> Newlined]
           /\ UNCHANGED <<tc, caret, allSelected, timer, saved, savedSel, findString>>
  <2>1. Lines(c) \in Text
    <3>1. Len(c) \in Nat /\ \A i \in 1..Len(c) : c[i] \in Symbol
      BY <1>3 DEF Text
    <3>2. \A i \in 2..(Len(c) - 2) : c[i] \in Symbol
      BY <3>1
    <3>3. SubSeq(c, 2, Len(c) - 2) \in Seq(Symbol)
      BY <3>1, <3>2, SubSeqProperties
    <3>4. QED
      BY <3>3 DEF Lines, Text
  <2>2. Newlined \in Text
    <3>1. tc.value \in Text /\ tc.ip \in 0..Len(tc.value) /\ (tc.ip + 1) - 1 = tc.ip
      BY ControlType DEF InControl
    <3> DEFINE u == SubSeq(tc.value, 1, tc.ip)
               v == SubSeq(tc.value, tc.ip + 1, Len(tc.value))
    <3>2. u \in Text /\ v \in Text
      BY <3>1, Halves DEF Text
    <3>3. Newlined = u \o <<"cr">> \o v
      BY <3>1 DEF Newlined, InsertAt
    <3> HIDE DEF u, v
    <3> DEFINE a == u \o <<"cr">>
    <3>4. a \in Text
      BY <1>1, <3>2, ConcatProperties DEF Text
    <3>5. Newlined = a \o v
      BY <3>3
    <3> HIDE DEF a
    <3>6. QED
      BY <3>2, <3>4, <3>5, ConcatProperties DEF Text
  <2>3. Inserted(c) \in Text
    <3>1. Expand(Lines(c)) \in Text
      BY <2>1, ExpandAppend
    <3>2. "cr" \in Symbol
      BY DEF Symbol
    <3>3. Append(Expand(Lines(c)), "cr") \in Text
      BY <3>1, <3>2 DEF Text
    <3>4. QED
      BY <1>1, <3>3 DEF Inserted
  <2>4. done' \in Results
    BY <1>8, <2>2, <2>3 DEF Results
  <2>5. QED
    BY <1>3, <1>4, <1>5, <1>8, <2>4 DEF TypeOK, Results
<1>9. CASE /\ \E causes : Edited(c, userInput, Written(<<"cr">>), causes)
           /\ NotDone /\ UNCHANGED open
  <2>1. PICK causes : Edited(c, userInput, Written(<<"cr">>), causes)
    BY <1>9
  <2>2. InControl(Written(<<"cr">>))
    BY <1>1, WrittenType
  <2>3. done' \in Results /\ open' \in BOOLEAN /\ posted' \in Seq(Seq(Char) \ {<<>>})
    BY <1>4, <1>9, DoneType DEF TypeOK
  <2>4. QED
    BY <1>3, <1>4, <1>5, <2>1, <2>2, <2>3, EditType
<1>10. QED
  BY <1>6, <1>7, <1>8, <1>9

\* Return for a find and for a command.
LEMMA EnterType ==
  ASSUME TypeOK, EnterFind \/ ExecFind \/ Exec
  PROVE  TypeOK'
<1>1. /\ <<>> \in Text /\ <<":">> \in Text /\ m \in Text /\ Rest(m) \in Text
      /\ history \in [Kinds -> Entry] /\ InControl(tc)
  BY Keys, PrefixedType, ControlType DEF TypeOK, Entry
<1>2. InControl(Plain(<<>>, 0))
  BY <1>1 DEF InControl, Plain
<1>3. \A t \in Kinds : [history EXCEPT ![t] = Recent(history[t], Rest(m))] \in [Kinds -> Entry]
  BY <1>1, HistoryType
<1>4. CASE EnterFind
  <2>1. done' \in Results /\ n' \in Nat /\ exMode' \in BOOLEAN
    BY <1>1, <1>4, DoneType DEF EnterFind, Key
  <2>2. history' \in [Kinds -> Entry]
    <3>1. history' = [history EXCEPT !["find"] = Recent(history["find"], Rest(m))]
      BY <1>4 DEF EnterFind
    <3>2. QED
      BY <1>3, <3>1 DEF Kinds
  <2>3. /\ open' = FALSE /\ findString' = Rest(m)
        /\ UNCHANGED <<m, tc, input, userInput, controlR, allSelected, timer, posted, caret,
                       saved, savedSel, origin>>
    BY <1>4 DEF EnterFind, Key
  <2>4. QED
    BY <1>1, <2>1, <2>2, <2>3 DEF TypeOK, Results, Entry
<1>5. CASE ExecFind
  <2>1. n' \in Nat /\ exMode' \in BOOLEAN
    BY <1>5, DoneType DEF ExecFind, Key
  <2>2. UNCHANGED <<m, tc, input, userInput, controlR, allSelected, timer, posted, saved,
                    savedSel, origin>>
    BY <1>5 DEF ExecFind, Key
  <2>3. CASE /\ open' = FALSE
             /\ caret' = [place |-> At(caret), text |-> Found]
             /\ findString' = Rest(m)
             /\ history' = [history EXCEPT !["find"] = Recent(history["find"], Rest(m))]
             /\ Ended("exec", Found)
    <3>1. Found \in Text
      <4>1. \A x : Contents(x) \in Text
        BY <1>1, Symbols, Keys DEF Contents
      <4>2. QED
        BY <1>1, <4>1 DEF Found
    <3>2. done' \in Results
      BY <2>3, <3>1, DoneType
    <3>3. caret' \in [place : Place, text : Text]
      BY <2>3, <3>1, PlaceType
    <3>4. history' \in [Kinds -> Entry]
      BY <1>3, <2>3 DEF Kinds
    <3>5. QED
      BY <1>1, <2>1, <2>2, <2>3, <3>2, <3>3, <3>4 DEF TypeOK, Results, Entry
  <2>4. CASE NotDone /\ UNCHANGED <<open, caret, findString, history>>
    <3>1. done' \in Results
      BY <2>4, DoneType
    <3>2. QED
      BY <2>1, <2>2, <2>4, <3>1 DEF TypeOK, Results
  <2>5. QED
    BY <1>5, <2>3, <2>4 DEF ExecFind
<1>6. CASE Exec
  <2>1. n' \in Nat /\ exMode' \in BOOLEAN
    BY <1>6, DoneType DEF Exec, Key
  <2>2. UNCHANGED <<userInput, allSelected, timer, posted, document, origin>>
    BY <1>6 DEF Exec, Key
  <2>3. Expand(Rest(m)) \in Text
    BY <1>1, ExpandAppend
  <2>4. CASE /\ input' = TRUE /\ controlR' = FALSE
             /\ m' = Reset(m, <<>>) /\ tc' = Plain(<<>>, 0)
             /\ Ended("exec", Expand(Rest(m)))
             /\ UNCHANGED <<open, history>>
    <3>1. m' \in Text
      BY <1>1, <2>4, PrefixedType
    <3>2. InControl(tc')
      BY <1>2, <2>4
    <3>3. done' \in Results
      BY <2>3, <2>4, DoneType
    <3>4. QED
      BY <2>1, <2>2, <2>4, <3>1, <3>2, <3>3 DEF TypeOK, InControl, Results, document
  <2>5. CASE /\ history' = [history EXCEPT ![ListOf(m)] = Recent(history[ListOf(m)], Rest(m))]
             /\ IF exMode THEN Emptied /\ UNCHANGED open ELSE Stays
             /\ Ended("exec", Expand(Rest(m)))
             /\ UNCHANGED <<input, controlR>>
    <3>1. history' \in [Kinds -> Entry]
      <4>1. ListOf(m) \in Kinds
        BY DEF ListOf, Kinds
      <4>2. QED
        BY <1>3, <2>5, <4>1
    <3>2. done' \in Results
      BY <2>3, <2>5, DoneType
    <3>3. m' \in Text /\ InControl(tc') /\ open' \in BOOLEAN
      BY <1>1, <1>2, <2>5 DEF Emptied, Stays, TypeOK
    <3>4. QED
      BY <2>1, <2>2, <2>5, <3>1, <3>2, <3>3 DEF TypeOK, InControl, Results, Entry, document
  <2>6. CASE NotDone /\ UNCHANGED <<open, m, tc, input, controlR, history>>
    <3>1. done' \in Results
      BY <2>6, DoneType
    <3>2. QED
      BY <2>1, <2>2, <2>6, <3>1 DEF TypeOK, Results, document
  <2>7. QED
    BY <1>6, <2>4, <2>5, <2>6 DEF Exec
<1>7. QED
  BY <1>4, <1>5, <1>6

\* The types hold at the start.
LEMMA InitType ==
  ASSUME Init
  PROVE  TypeOK
<1>1. <<>> \in Text /\ Len(<<>>) = 0
  BY Keys
<1>2. InControl(tc)
  BY <1>1 DEF Init, InControl, Plain
<1>3. caret \in [place : Place, text : Text]
  BY <1>1 DEF Init, Place
<1>4. history \in [Kinds -> Entry]
  <2>1. PICK h \in Histories :
          history = [t \in {"command", "calc", "escape", "find"} |->
                       [values |-> IF t = "find" THEN <<>> ELSE h, at |-> 1]]
    BY DEF Init
  <2>2. h \in Seq(Text)
    <3>1. Seq(Char \cup {"'"}) \subseteq Text
      <4>1. Char \cup {"'"} \subseteq Symbol
        BY DEF Symbol
      <4>2. QED
        BY <4>1, SeqMonotonic DEF Text
    <3>2. h \in Seq(Seq(Char \cup {"'"}))
      BY ExCommandAssumption
    <3>3. QED
      BY <3>1, <3>2, SeqMonotonic
  <2>3. <<>> \in Seq(Text)
    BY EmptySeq
  <2>4. QED
    BY <2>1, <2>2, <2>3 DEF Kinds, Entry
<1>5. done \in Results
  BY <1>1 DEF Init, Results
<1>6. posted \in Seq(Seq(Char) \ {<<>>})
  BY EmptySeq DEF Init
<1>7. m \in Text /\ findString \in Text
  BY <1>1 DEF Init
<1>8. saved \in Place /\ savedSel \in Place /\ origin \in Place
  BY DEF Init, Place
<1>9. /\ exMode \in BOOLEAN /\ open \in BOOLEAN /\ input \in BOOLEAN /\ userInput \in BOOLEAN
      /\ controlR \in BOOLEAN /\ allSelected \in BOOLEAN /\ timer \in BOOLEAN /\ n \in Nat
  BY DEF Init
<1>10. QED
  BY <1>2, <1>3, <1>4, <1>5, <1>6, <1>7, <1>8, <1>9 DEF TypeOK, InControl, Results, Entry

\* The types hold after each step.
LEMMA NextType ==
  ASSUME TypeOK, [Next]_vars
  PROVE  TypeOK'
<1>1. CASE Next
  <2>1. (\E c \in Char : Char_(c)) => TypeOK'
    BY CharType
  <2>2. (\E k \in {"up", "down", "home", "end"} : Browse(k)) => TypeOK'
    BY BrowseType
  <2>3. QED
    BY <1>1, <2>1, <2>2, OpenType, EditsType, CaretType, AwayType, LineType, EnterType, Zenon
       DEF Next
<1>2. CASE UNCHANGED vars
  BY <1>2 DEF TypeOK, vars, document
<1>3. QED
  BY <1>1, <1>2

\* In every state the variables have the types that the model gives them: no key
\* leaves a selection outside of the text, or a command that is not a text.
THEOREM TypeCorrect == Spec => []TypeOK
<1>1. Init => TypeOK
  BY InitType
<1>2. TypeOK /\ [Next]_vars => TypeOK'
  BY NextType
<1>3. QED
  BY <1>1, <1>2, PTL DEF Spec

-----------------------------------------------------------------------------
(* The command and what is shown.                                          *)

\* A command has a register if there is one behind its prefix.
LEMMA RegisterShape ==
  ASSUME NEW c \in Text, Type(c) \in Kinds
  PROVE  (\E i \in DOMAIN c : i > 1 /\ c[i] = "^R") <=> ~ Clean(Rest(c))
<1> DEFINE k == Prefixed(c)
           r == SubSeq(c, k + 1, Len(c))
<1>1. /\ k = (IF Type(c) = "calc" THEN 2 ELSE 1) /\ k \in 0..Len(c)
      /\ Len(c) \in Nat /\ DOMAIN c = 1..Len(c)
  BY Shape DEF Text
<1>2. r \in Text /\ Len(r) = Len(c) - k /\ \A i \in 1..(Len(c) - k) : r[i] = c[k + i]
  BY <1>1, Halves DEF Text
<1>3. Rest(c) = r
  BY DEF Rest
<1>4. k \in {1, 2} /\ (k = 2 => c[2] = "=")
  BY <1>1 DEF Type, None
<1>5. DOMAIN r = 1..Len(r)
  BY <1>2 DEF Text
<1> HIDE DEF k, r
<1>6. ASSUME NEW i \in DOMAIN c, i > 1, c[i] = "^R"
      PROVE  ~ Clean(r)
  <2>1. i # 2 \/ k # 2
    BY <1>4, <1>6
  <2>2. i - k \in 1..Len(r) /\ k + (i - k) = i
    <3>1. i \in Int /\ 1 < i /\ i <= Len(c)
      BY <1>1, <1>6
    <3>2. k \in {1, 2} /\ Len(r) = Len(c) - k /\ Len(c) \in Nat
      BY <1>1, <1>2, <1>4
    <3>3. QED
      BY <2>1, <3>1, <3>2
  <2>3. i - k \in DOMAIN r /\ r[i - k] = "^R"
    BY <1>2, <1>5, <1>6, <2>2
  <2>4. QED
    BY <2>3 DEF Clean
<1>7. ASSUME NEW i \in DOMAIN r, r[i] = "^R"
      PROVE  \E j \in DOMAIN c : j > 1 /\ c[j] = "^R"
  <2>1. k + i \in DOMAIN c /\ k + i > 1 /\ c[k + i] = "^R"
    <3>1. i \in Int /\ 1 <= i /\ i <= Len(r) /\ r[i] = "^R"
      <4>1. i \in 1..Len(r)
        BY <1>5
      <4>2. Len(r) \in Nat
        BY <1>2 DEF Text
      <4>3. QED
        BY <1>7, <4>1, <4>2
    <3>2. k \in {1, 2} /\ Len(r) = Len(c) - k /\ Len(c) \in Nat
      BY <1>1, <1>2, <1>4
    <3>3. k + i \in 1..Len(c) /\ k + i > 1 /\ i \in 1..(Len(c) - k)
      BY <3>1, <3>2
    <3>4. c[k + i] = r[i]
      BY <1>2, <3>3
    <3>5. QED
      BY <1>1, <3>1, <3>3, <3>4
  <2>2. QED
    BY <2>1
<1>8. QED
  BY <1>3, <1>6, <1>7 DEF Clean

\* Parts of a clean text are clean.
LEMMA CleanHalves ==
  ASSUME NEW r \in Text, Clean(r), NEW i \in 0..Len(r)
  PROVE  Clean(SubSeq(r, 1, i)) /\ Clean(SubSeq(r, i + 1, Len(r)))
<1> DEFINE u == SubSeq(r, 1, i)
           v == SubSeq(r, i + 1, Len(r))
<1>1. u \in Text /\ v \in Text /\ u \o v = r
  BY Halves DEF Text
<1> HIDE DEF u, v
<1>2. Clean(u \o v) <=> Clean(u) /\ Clean(v)
  BY <1>1, CleanParts
<1>3. QED
  BY <1>1, <1>2 DEF u, v

\* Texts without registers, one in the other, are a text without registers.
LEMMA ReplacedClean ==
  ASSUME NEW r \in Text, Clean(r), NEW i \in 0..Len(r), NEW j \in i..Len(r),
         NEW s \in Text, Clean(s)
  PROVE  Clean(Replaced(r, i, j, s))
<1> DEFINE u == SubSeq(r, 1, i)
           v == SubSeq(r, j + 1, Len(r))
<1>1. j \in 0..Len(r)
  BY DEF Text
<1>2. u \in Text /\ v \in Text /\ Clean(u) /\ Clean(v)
  BY <1>1, Halves, CleanHalves DEF Text
<1>3. Replaced(r, i, j, s) = u \o s \o v
  BY DEF Replaced
<1> HIDE DEF u, v
<1> DEFINE a == u \o s
<1>4. a \in Text /\ Clean(a)
  BY <1>2, CleanParts, ConcatProperties DEF Text
<1>5. Replaced(r, i, j, s) = a \o v
  BY <1>3
<1> HIDE DEF a
<1>6. QED
  BY <1>2, <1>4, <1>5, CleanParts

\* The name of a register in a text without registers stands for its contents there.
LEMMA ReplacedRegister ==
  ASSUME NEW r \in Text, Clean(r), NEW i \in 0..Len(r), NEW j \in i..Len(r), NEW c \in Char
  PROVE  /\ Paired(Replaced(r, i, j, <<"^R", c>>))
         /\ Expand(Replaced(r, i, j, <<"^R", c>>)) = Replaced(r, i, j, Regs[c])
         /\ ~ Clean(Replaced(r, i, j, <<"^R", c>>))
<1> DEFINE u == SubSeq(r, 1, i)
           v == SubSeq(r, j + 1, Len(r))
           s == <<"^R", c>>
<1>1. j \in 0..Len(r)
  BY DEF Text
<1>2. u \in Text /\ v \in Text /\ Clean(u) /\ Clean(v)
  BY <1>1, Halves, CleanHalves DEF Text
<1>3. Replaced(r, i, j, s) = u \o s \o v /\ Replaced(r, i, j, Regs[c]) = u \o Regs[c] \o v
  BY DEF Replaced
<1>4. s \in Text /\ Paired(s) /\ ~ Clean(s)
  <2>1. s \in Text /\ DOMAIN s = 1..2 /\ s[1] = "^R" /\ s[2] = c /\ c # "^R"
    BY Symbols DEF Text
  <2> HIDE DEF s
  <2>2. QED
    BY <2>1 DEF Paired, Clean
<1> HIDE DEF u, v
<1> DEFINE a == u \o s
           b == u \o Regs[c]
<1>5. Expand(u) = u
  BY <1>2, ExpandClean
<1>6. Expand(a) = b
  BY <1>2, <1>5, ExpandRegister
<1>7. b \in Text /\ Clean(b)
  <2>1. Regs[c] \in Text /\ Clean(Regs[c])
    BY Symbols, Typed
  <2>2. QED
    BY <1>2, <2>1, CleanParts, ConcatProperties DEF Text
<1> HIDE DEF s
<1>8. a \in Text /\ Paired(a) /\ ~ Clean(a)
  <2>1. Paired(u)
    BY <1>2 DEF Paired, Clean
  <2>2. QED
    BY <1>2, <1>4, <2>1, PairedParts, CleanParts, ConcatProperties DEF Text
<1>9. Replaced(r, i, j, s) = a \o v /\ Replaced(r, i, j, Regs[c]) = b \o v
  BY <1>3
<1> HIDE DEF a, b
<1>10. Expand(a \o v) = Expand(a) \o v
  BY <1>2, <1>6, <1>7, <1>8, ExpandBehind
<1>11. Paired(a \o v) /\ ~ Clean(a \o v)
  <2>1. Paired(v)
    BY <1>2 DEF Paired, Clean
  <2>2. QED
    BY <1>2, <1>8, <2>1, PairedParts, CleanParts
<1>12. QED
  BY <1>6, <1>9, <1>10, <1>11 DEF s

\* Three texts, put together from either end.
LEMMA Joined ==
  ASSUME NEW a \in Text, NEW b \in Text, NEW c \in Text
  PROVE  /\ (a \o b) \o c = a \o (b \o c)
         /\ a \o b \in Text /\ Len(a \o b) = Len(a) + Len(b)
         /\ Len(a) \in Nat /\ Len(b) \in Nat
<1>1. (a \o b) \o c = a \o (b \o c)
  BY ConcatAssociative DEF Text
<1>2. a \o b \in Text /\ Len(a \o b) = Len(a) + Len(b)
  BY ConcatProperties DEF Text
<1>3. QED
  BY <1>1, <1>2 DEF Text

\* What is inserted behind what was inserted.
LEMMA ReplacedNext ==
  ASSUME NEW r \in Text, NEW i \in 0..Len(r), NEW j \in i..Len(r), NEW s \in Text, NEW z \in Text
  PROVE  /\ i + Len(s) \in 0..Len(Replaced(r, i, j, s))
         /\ Replaced(Replaced(r, i, j, s), i + Len(s), i + Len(s), z) = Replaced(r, i, j, s \o z)
<1> DEFINE u == SubSeq(r, 1, i)
           v == SubSeq(r, j + 1, Len(r))
           a == u \o s
           b == s \o z
           k == i + Len(s)
<1>1. j \in 0..Len(r) /\ Len(s) \in Nat /\ Len(r) \in Nat
  BY DEF Text
<1>2. u \in Text /\ Len(u) = i /\ v \in Text
  BY <1>1, Halves DEF Text
<1>3. Replaced(r, i, j, s) = a \o v /\ Replaced(r, i, j, b) = u \o b \o v
  BY DEF Replaced
<1> HIDE DEF u, v
<1>4. a \in Text /\ Len(a) = k
  BY <1>2, ConcatProperties DEF Text
<1>5. a \o z = u \o b
  <2>1. u \in Text
    BY <1>2
  <2>2. (u \o s) \o z = u \o (s \o z)
    BY <2>1, Joined
  <2>3. QED
    BY <2>2
<1> HIDE DEF a, b, k
<1>6. SubSeq(a \o v, 1, k) = a /\ SubSeq(a \o v, k + 1, Len(a \o v)) = v
  BY <1>2, <1>4, Apart DEF Text
<1>7. Replaced(a \o v, k, k, z) = (a \o z) \o v
  BY <1>6 DEF Replaced
<1>8. k \in 0..Len(a \o v)
  <2>1. Len(a \o v) = Len(a) + Len(v) /\ Len(a) \in Nat /\ Len(v) \in Nat
    BY <1>2, <1>4, Joined
  <2>2. QED
    BY <1>4, <2>1
<1>9. QED
  BY <1>3, <1>5, <1>7, <1>8 DEF b, k

\* The line is shown, and nothing has parted the two texts.
Good == open /\ astray \cap Parted = {}

\* The command has a prefix, in ex mode and in an input mode that of a command.
Headed ==
  Good => Type(m) \in Kinds /\ (exMode \/ input => Type(m) = "command")

\* What is shown is what the command stands for, or will be that once the posted
\* text of the one register is written.
Agree ==
  Good => /\ Paired(Rest(m))
          /\ posted = <<>> => tc.value = Expand(Rest(m))
          /\ posted # <<>> =>
               Len(posted) = 1 /\ Written(Head(posted)).value = Expand(Rest(m))

\* A register comes with a key, and in a find that is noted.
Registered ==
  Good /\ (HasRegister \/ posted # <<>>) =>
    HasRegister /\ userInput /\ (Type(m) = "find" => "register" \in astray)

Pending == controlR => userInput

\* A find that is being typed has been searched.
Searched ==
  /\ Good /\ Type(m) = "find" /\ userInput
  /\ astray \cap {"unsearched", "register", "refocused"} = {}
  => caret = [place |-> Restored, text |-> tc.value]

\* The saved place is where the caret was when the bar was opened, or where what was
\* selected in visual mode started.
Placed == open /\ astray \cap {"refocused", "stale"} = {} => Restored = origin

IInv ==
  TypeOK /\ Headed /\ Agree /\ Registered /\ Pending /\ Searched /\ Placed

\* What is known of the command and its text.
LEMMA Known ==
  ASSUME TypeOK, Headed, Agree, Good
  PROVE  /\ m \in Text /\ Type(m) \in Kinds /\ Rest(m) \in Text /\ m = Reset(m, Rest(m))
         /\ HasRegister <=> ~ Clean(Rest(m))
         /\ Paired(Rest(m)) /\ Clean(Expand(Rest(m))) /\ Expand(Rest(m)) \in Text
         /\ ~ HasRegister => Expand(Rest(m)) = Rest(m)
         /\ exMode => Type(m) = "command"
<1>1. m \in Text /\ Type(m) \in Kinds /\ (exMode => Type(m) = "command")
  BY DEF TypeOK, Headed
<1>2. Rest(m) \in Text /\ m = Reset(m, Rest(m))
  BY <1>1, Shape
<1>3. HasRegister <=> ~ Clean(Rest(m))
  BY <1>1, RegisterShape DEF HasRegister
<1>4. Paired(Rest(m))
  BY DEF Agree
<1>5. Clean(Expand(Rest(m))) /\ Expand(Rest(m)) \in Text
  BY <1>2, <1>4, CleanExpand, ExpandAppend
<1>6. ~ HasRegister => Expand(Rest(m)) = Rest(m)
  BY <1>2, <1>3, ExpandClean
<1>7. QED
  BY <1>1, <1>2, <1>3, <1>4, <1>5, <1>6

\* A text that is at the end, or behind it.
LEMMA InsertEnd ==
  ASSUME NEW c \in Text, Type(c) \in Kinds, NEW r \in Text, NEW s \in Text, NEW i \in Nat,
         i >= Len(r), Insert(Reset(c, r), i, s) # Thrown
  PROVE  Insert(Reset(c, r), i, s) = Reset(c, r \o s)
<1>1. Len(r) \in Nat
  BY DEF Text
<1>2. CASE i = Len(r)
  <2>1. i \in 0..Len(r)
    BY <1>1, <1>2
  <2>2. Insert(Reset(c, r), i, s) = Reset(c, Replaced(r, i, i, s))
    BY <2>1, InsertShape
  <2>3. Replaced(r, i, i, s) = r \o s
    BY <1>1, <1>2, ReplacedEnd DEF Text
  <2>4. QED
    BY <2>2, <2>3
<1>3. CASE i # Len(r)
  BY <1>1, <1>3, InsertShape
<1>4. QED
  BY <1>2, <1>3

\* The text of the command, with s at the caret: at the end if it has a register.
Put(s) == IF HasRegister THEN Rest(m) \o s ELSE Replaced(Rest(m), tc.ip, tc.ip, s)

\* A character at the caret is in the command where it is in the text.
LEMMA HandleShape ==
  ASSUME TypeOK, Headed, Agree, Good, posted = <<>>, HasRegister => AtEnd,
         NEW s \in Text, Clean(s)
  PROVE  /\ Handle(m, s) = Reset(m, Put(s)) /\ Put(s) \in Text /\ Paired(Put(s))
         /\ Expand(Put(s)) = Replaced(tc.value, tc.ip, tc.ip, s)
         /\ Clean(Rest(m)) => Clean(Put(s))
<1> DEFINE r == Rest(m)
<1>1. /\ m \in Text /\ Type(m) \in Kinds /\ r \in Text /\ m = Reset(m, r)
      /\ (HasRegister <=> ~ Clean(r)) /\ Paired(r) /\ Clean(Expand(r)) /\ Expand(r) \in Text
      /\ ~ HasRegister => Expand(r) = r
  BY Known
<1>2. tc.value = Expand(r)
  BY DEF Agree
<1>3. tc.ip \in 0..Len(tc.value) /\ tc.value \in Text /\ Len(tc.value) \in Nat
  BY ControlType DEF InControl
<1>4. m # Thrown /\ Reset(m, r) \o s = Reset(m, r \o s)
  <2>1. m \in Text /\ Type(m) \in Kinds /\ r \in Text
    BY <1>1
  <2>2. Reset(m, r) # Thrown
    BY <2>1, ResetShape
  <2>3. Reset(m, r) \o s = Reset(m, r \o s)
    BY <2>1, InsertShape
  <2>4. m # Thrown
    <3>1. m = Reset(m, r)
      BY <1>1
    <3>2. QED
      BY <2>2, <3>1
  <2>5. QED
    BY <2>3, <2>4
<1> HIDE DEF r
<1>5. CASE HasRegister
  <2>1. Put(s) = r \o s /\ AtEnd
    BY <1>5 DEF Put, r
  <2>2. Handle(m, s) = m \o s
    BY <1>4, <2>1 DEF Handle
  <2>3. Handle(m, s) = Reset(m, Put(s))
    BY <1>1, <1>4, <2>1, <2>2
  <2>4. Paired(s)
    BY DEF Clean, Paired
  <2>5. Put(s) \in Text /\ Paired(Put(s))
    BY <1>1, <2>1, <2>4, PairedParts, Joined
  <2>6. Expand(r \o s) = Expand(r) \o s
    BY <1>1, ExpandBehind
  <2>7. Replaced(tc.value, tc.ip, tc.ip, s) = tc.value \o s
    <3>1. tc.ip = Len(tc.value)
      BY <2>1 DEF AtEnd
    <3>2. QED
      BY <1>3, <3>1, ReplacedEnd DEF Text
  <2>8. QED
    BY <1>1, <1>2, <1>5, <2>1, <2>3, <2>5, <2>6, <2>7 DEF r
<1>6. CASE ~ HasRegister
  <2>1. Put(s) = Replaced(r, tc.ip, tc.ip, s) /\ Clean(r) /\ tc.value = r
    BY <1>1, <1>2, <1>6 DEF Put, r
  <2>2. tc.ip \in 0..Len(r) /\ tc.ip \in tc.ip..Len(r)
    BY <1>3, <2>1
  <2>3. Put(s) \in Text /\ Clean(Put(s))
    BY <1>1, <2>1, <2>2, ReplacedClean, ReplacedType DEF Text
  <2>4. Expand(Put(s)) = Put(s) /\ Paired(Put(s))
    BY <2>3, ExpandClean DEF Clean, Paired
  <2>5. Handle(m, s) = Reset(m, Put(s))
    <3>1. CASE AtEnd
      <4>1. tc.ip = Len(r)
        BY <2>1, <3>1 DEF AtEnd
      <4>2. Put(s) = r \o s
        BY <1>1, <2>1, <2>2, <4>1, ReplacedEnd DEF Text
      <4>3. Handle(m, s) = m \o s
        BY <1>4, <3>1 DEF Handle
      <4>4. QED
        BY <1>1, <1>4, <4>2, <4>3
    <3>2. CASE ~ AtEnd
      <4>1. Handle(m, s) = Insert(Reset(m, r), tc.ip, s)
        BY <1>1, <3>2 DEF Handle
      <4>2. QED
        BY <1>1, <2>1, <2>2, <4>1, InsertShape
    <3>3. QED
      BY <3>1, <3>2
  <2>6. QED
    BY <2>1, <2>3, <2>4, <2>5
<1>7. QED
  BY <1>5, <1>6

\* The text of the command, with s in the place of the selection.
Over(s) ==
  IF HasRegister THEN Rest(m) \o s ELSE Replaced(Rest(m), WrittenAt, WrittenTo, s)

\* An edit that parts nothing: at the end if there is a register, and not at the end
\* of a selection that text follows.
Fits ==
  /\ HasRegister => AtEnd /\ ~ Selected
  /\ ~ (Selected /\ tc.ip = tc.to /\ ~ AtEnd)

\* An insertion at the caret, or at the end and the caret is not before it.
LEMMA InsertAtCaret ==
  ASSUME NEW c \in Text, Type(c) \in Kinds, NEW q \in Text, NEW pos \in 0..Len(q),
         NEW s \in Text, NEW i \in Nat, i = pos \/ (pos = Len(q) /\ i >= pos),
         Insert(Reset(c, q), i, s) # Thrown
  PROVE  Insert(Reset(c, q), i, s) = Reset(c, Replaced(q, pos, pos, s))
<1>1. CASE i = pos
  BY <1>1, InsertShape
<1>2. CASE pos = Len(q) /\ i >= pos
  <2>1. Insert(Reset(c, q), i, s) = Reset(c, q \o s)
    BY <1>2, InsertEnd
  <2>2. Replaced(q, pos, pos, s) = q \o s
    BY <1>2, ReplacedEnd DEF Text
  <2>3. QED
    BY <2>1, <2>2
<1>3. QED
  BY <1>1, <1>2

\* What is cut, and where an edit takes place then.
LEMMA CutShape ==
  ASSUME TypeOK, Headed, Agree, Good, posted = <<>>, Fits
  PROVE  \E q \in Text : \E pos \in 0..Len(q) :
           /\ Cut(m) = Reset(m, q)
           /\ \A s \in Text : Over(s) = Replaced(q, pos, pos, s)
           /\ AtEnd => pos = Len(q)
           /\ ~ AtEnd => tc.ip = pos
           /\ (HasRegister => tc.ip >= Len(Rest(m))) => tc.ip >= pos
<1> DEFINE r == Rest(m)
<1>1. /\ m \in Text /\ Type(m) \in Kinds /\ r \in Text /\ m = Reset(m, r)
      /\ (HasRegister <=> ~ Clean(r)) /\ (~ HasRegister => Expand(r) = r)
  BY Known
<1>2. tc.value = Expand(r)
  BY DEF Agree
<1>3. /\ tc.ip \in Nat /\ tc.from \in Nat /\ tc.to \in Nat /\ tc.ip \in {tc.from, tc.to}
      /\ tc.from <= tc.to /\ tc.to <= Len(tc.value) /\ Len(tc.value) \in Nat /\ Len(r) \in Nat
      /\ tc.value \in Text
  BY <1>1, ControlType DEF InControl, Text
<1> HIDE DEF r
<1>4. CASE HasRegister
  <2>1. Cut(m) = Reset(m, r) /\ AtEnd
    BY <1>1, <1>4 DEF Fits, Cut
  <2>2. Len(r) \in 0..Len(r)
    BY <1>3
  <2>3. ASSUME NEW s \in Text
        PROVE  Over(s) = Replaced(r, Len(r), Len(r), s)
    <3>1. Replaced(r, Len(r), Len(r), s) = r \o s
      BY <1>1, <2>2, ReplacedEnd DEF Text
    <3>2. QED
      BY <1>4, <3>1 DEF Over, r
  <2>4. (HasRegister => tc.ip >= Len(Rest(m))) => tc.ip >= Len(r)
    BY <1>4 DEF r
  <2>5. QED
    BY <1>1, <1>4, <2>1, <2>2, <2>3, <2>4
<1>5. CASE ~ HasRegister
  <2> DEFINE a == WrittenAt
             b == WrittenTo
             q == Replaced(r, a, b, <<>>)
  <2>1. tc.value = r /\ a \in 0..Len(r) /\ b \in a..Len(r)
    <3>1. tc.value = r
      BY <1>1, <1>2, <1>5
    <3>2. a \in 0..Len(tc.value) /\ b \in a..Len(tc.value)
      BY Keys, WrittenType
    <3>3. QED
      BY <3>1, <3>2
  <2>2. \A s \in Text : Over(s) = Replaced(r, a, b, s)
    BY <1>5 DEF Over, r
  <2>3. Selected => a = tc.from /\ b = tc.to /\ a < b
    BY <1>3 DEF Selected, WrittenAt, WrittenTo
  <2>4. ~ Selected => a = tc.ip /\ b = tc.ip
    BY DEF WrittenAt, WrittenTo
  <2>5. AtEnd <=> tc.ip = Len(r)
    BY <2>1 DEF AtEnd
  <2> HIDE DEF a, b
  <2>6. q \in Text /\ Len(q) = Len(r) - (b - a) /\ Len(q) \in Nat
    <3>1. r \in Seq(Symbol) /\ <<>> \in Seq(Symbol) /\ Len(<<>>) = 0
      BY <1>1, EmptySeq DEF Text
    <3>2. ASSUME NEW e \in Seq(Symbol)
          PROVE  /\ Replaced(r, a, b, e) \in Seq(Symbol)
                 /\ Len(Replaced(r, a, b, e)) = Len(r) - (b - a) + Len(e)
      BY <2>1, <3>1, ReplacedType
    <3>3. q \in Seq(Symbol) /\ Len(q) = Len(r) - (b - a) + Len(<<>>)
      BY <3>1, <3>2, Zenon
    <3> HIDE DEF q
    <3>4. QED
      BY <1>3, <2>1, <3>1, <3>3 DEF Text
  <2>7. ASSUME NEW s \in Text
        PROVE  Over(s) = Replaced(q, a, a, s)
    BY <1>1, <2>1, <2>2, ReplacedTwice DEF Text
  <2>8. Cut(m) = Reset(m, q)
    <3>1. CASE Selected
      <4>1. Cut(m) = Erase(Reset(m, r), a, b - a)
        BY <1>1, <2>3, <3>1 DEF Cut
      <4>2. Erase(Reset(m, r), a, b - a) = Reset(m, q)
        BY <1>1, <2>1, EraseShape
      <4>3. QED
        BY <4>1, <4>2
    <3>2. CASE ~ Selected
      <4>1. Cut(m) = Reset(m, r)
        BY <1>1, <3>2 DEF Cut
      <4>2. a = b
        BY <2>4, <3>2
      <4>3. q = r
        <5> DEFINE u == SubSeq(r, 1, a)
                   v == SubSeq(r, a + 1, Len(r))
        <5>1. u \in Text /\ v \in Text /\ u \o v = r
          BY <1>1, <2>1, Halves DEF Text
        <5>2. u \o <<>> = u
          BY <5>1, ConcatEmptySeq DEF Text
        <5>3. q = (u \o <<>>) \o v
          BY <4>2 DEF Replaced
        <5>4. QED
          BY <5>1, <5>2, <5>3
      <4>4. QED
        BY <4>1, <4>3
    <3>3. QED
      BY <3>1, <3>2
  <2> HIDE DEF q
  <2>9. a \in 0..Len(q)
    BY <1>3, <2>1, <2>6
  <2>10. AtEnd => a = Len(q)
    <3>1. ASSUME AtEnd, Selected
          PROVE  b = Len(r)
      BY <1>3, <2>1, <2>3, <2>5, <3>1
    <3>2. QED
      BY <1>3, <2>1, <2>4, <2>5, <2>6, <3>1
  <2>11. ~ AtEnd => tc.ip = a
    BY <1>3, <2>3, <2>4 DEF Fits
  <2>12. tc.ip >= a
    BY <1>3, <2>1, <2>3, <2>4
  <2>13. QED
    BY <2>6, <2>7, <2>8, <2>9, <2>10, <2>11, <2>12
<1>6. QED
  BY <1>4, <1>5

\* What a handler does with a character, or with a text at the caret, is in the
\* command where the edit takes place.
LEMMA OverShape ==
  ASSUME TypeOK, Headed, Agree, Good, posted = <<>>, Fits
  PROVE  /\ \A s \in Text : Handle(Cut(m), s) = Reset(m, Over(s))
         /\ \A s \in Text :
              /\ HasRegister => tc.ip >= Len(Rest(m))
              /\ Insert(Cut(m), tc.ip, s) # Thrown
              => Insert(Cut(m), tc.ip, s) = Reset(m, Over(s))
         /\ \A s \in Text, z \in Text :
              /\ HasRegister => tc.ip >= Len(Rest(m))
              /\ Len(s) = 1
              /\ Insert(Insert(Cut(m), tc.ip, s), tc.ip + 1, z) # Thrown
              => Insert(Insert(Cut(m), tc.ip, s), tc.ip + 1, z) = Reset(m, Over(s \o z))
<1>1. PICK q \in Text : \E pos \in 0..Len(q) :
           /\ Cut(m) = Reset(m, q)
           /\ \A s \in Text : Over(s) = Replaced(q, pos, pos, s)
           /\ AtEnd => pos = Len(q)
           /\ ~ AtEnd => tc.ip = pos
           /\ (HasRegister => tc.ip >= Len(Rest(m))) => tc.ip >= pos
  BY CutShape
<1>2. PICK pos \in 0..Len(q) :
           /\ Cut(m) = Reset(m, q)
           /\ \A s \in Text : Over(s) = Replaced(q, pos, pos, s)
           /\ AtEnd => pos = Len(q)
           /\ ~ AtEnd => tc.ip = pos
           /\ (HasRegister => tc.ip >= Len(Rest(m))) => tc.ip >= pos
  BY <1>1
<1>3. m \in Text /\ Type(m) \in Kinds /\ tc.ip \in Nat /\ Len(q) \in Nat
  BY Known, ControlType DEF InControl, Text
<1>4. Reset(m, q) # Thrown
  BY <1>3, ResetShape
<1>5. ASSUME NEW s \in Text
      PROVE  Handle(Cut(m), s) = Reset(m, Over(s))
  <2>1. CASE AtEnd
    <3>1. Handle(Cut(m), s) = Reset(m, q) \o s
      BY <1>2, <1>4, <2>1 DEF Handle
    <3>2. Reset(m, q) \o s = Reset(m, q \o s)
      BY <1>3, InsertShape
    <3>3. Replaced(q, pos, pos, s) = q \o s
      BY <1>2, <2>1, ReplacedEnd DEF Text
    <3>4. QED
      BY <1>2, <3>1, <3>2, <3>3
  <2>2. CASE ~ AtEnd
    <3>1. Handle(Cut(m), s) = Insert(Reset(m, q), pos, s)
      BY <1>2, <2>2 DEF Handle
    <3>2. Insert(Reset(m, q), pos, s) = Reset(m, Replaced(q, pos, pos, s))
      BY <1>3, InsertShape
    <3>3. QED
      BY <1>2, <3>1, <3>2
  <2>3. QED
    BY <2>1, <2>2
<1>6. ASSUME HasRegister => tc.ip >= Len(Rest(m))
      PROVE  tc.ip = pos \/ (pos = Len(q) /\ tc.ip >= pos)
  BY <1>2, <1>6
<1>7. ASSUME NEW s \in Text, HasRegister => tc.ip >= Len(Rest(m)),
             Insert(Cut(m), tc.ip, s) # Thrown
      PROVE  Insert(Cut(m), tc.ip, s) = Reset(m, Over(s))
  <2>1. Insert(Reset(m, q), tc.ip, s) # Thrown
    BY <1>2, <1>7
  <2>2. Insert(Reset(m, q), tc.ip, s) = Reset(m, Replaced(q, pos, pos, s))
    BY <1>3, <1>6, <1>7, <2>1, InsertAtCaret
  <2>3. QED
    BY <1>2, <2>2
<1>8. ASSUME NEW s \in Text, NEW z \in Text, HasRegister => tc.ip >= Len(Rest(m)), Len(s) = 1,
             Insert(Insert(Cut(m), tc.ip, s), tc.ip + 1, z) # Thrown
      PROVE  Insert(Insert(Cut(m), tc.ip, s), tc.ip + 1, z) = Reset(m, Over(s \o z))
  <2> DEFINE w == Replaced(q, pos, pos, s)
  <2>1. Insert(Cut(m), tc.ip, s) # Thrown
    BY <1>8 DEF Insert, Beyond
  <2>2. Insert(Cut(m), tc.ip, s) = Reset(m, w)
    <3>1. Insert(Cut(m), tc.ip, s) = Reset(m, Over(s))
      BY <1>7, <1>8, <2>1
    <3>2. QED
      BY <1>2, <3>1
  <2>3. w \in Text /\ Len(w) = Len(q) + 1
    <3>1. pos \in pos..Len(q)
      BY <1>3
    <3>2. w \in Seq(Symbol) /\ Len(w) = Len(q) - (pos - pos) + Len(s)
      BY <3>1, ReplacedType DEF Text
    <3> HIDE DEF w
    <3>3. QED
      BY <1>3, <1>8, <3>2 DEF Text
  <2>4. Replaced(w, pos + 1, pos + 1, z) = Over(s \o z)
    <3>1. pos \in pos..Len(q)
      BY <1>3
    <3>2. Replaced(w, pos + Len(s), pos + Len(s), z) = Replaced(q, pos, pos, s \o z)
      BY <3>1, ReplacedNext
    <3>3. s \o z \in Text
      BY Joined
    <3> HIDE DEF w
    <3>4. QED
      BY <1>2, <1>8, <3>2, <3>3
  <2> HIDE DEF w
  <2>5. pos + 1 \in 0..Len(w)
    BY <1>3, <2>3
  <2>6. tc.ip + 1 \in Nat /\ (tc.ip + 1 = pos + 1 \/ (pos + 1 = Len(w) /\ tc.ip + 1 >= pos + 1))
    BY <1>3, <1>6, <1>8, <2>3
  <2>7. Insert(Reset(m, w), tc.ip + 1, z) # Thrown
    BY <1>8, <2>2
  <2>8. Insert(Reset(m, w), tc.ip + 1, z) = Reset(m, Replaced(w, pos + 1, pos + 1, z))
    BY <1>3, <2>3, <2>5, <2>6, <2>7, InsertAtCaret
  <2>9. QED
    BY <2>2, <2>4, <2>8
<1>9. QED
  BY <1>5, <1>7, <1>8

\* The edit does to what the command stands for, what it does to the text of the
\* control.
LEMMA OverExpand ==
  ASSUME TypeOK, Headed, Agree, Good, posted = <<>>, Fits, NEW s \in Text, Clean(s)
  PROVE  /\ Over(s) \in Text /\ Paired(Over(s))
         /\ Expand(Over(s)) = Written(s).value
         /\ ~ HasRegister => Clean(Over(s))
<1> DEFINE r == Rest(m)
<1>1. /\ r \in Text /\ (HasRegister <=> ~ Clean(r)) /\ Paired(r)
      /\ ~ HasRegister => Expand(r) = r
      /\ Clean(Expand(r)) /\ Expand(r) \in Text
  BY Known
<1>2. tc.value = Expand(r) /\ tc.value \in Text /\ Len(tc.value) \in Nat
  <2>1. tc.value \in Text /\ Len(tc.value) \in Nat
    BY ControlType DEF InControl
  <2>2. QED
    BY <2>1 DEF Agree
<1>3. /\ Written(s).value = Replaced(tc.value, WrittenAt, WrittenTo, s)
      /\ WrittenAt \in 0..Len(tc.value) /\ WrittenTo \in WrittenAt..Len(tc.value)
  BY Keys, WrittenType
<1>4. CASE HasRegister
  <2>1. Over(s) = r \o s
    BY <1>4 DEF Over
  <2> HIDE DEF r
  <2>2. WrittenAt = Len(tc.value) /\ WrittenTo = Len(tc.value)
    BY <1>4 DEF Fits, WrittenAt, WrittenTo, AtEnd
  <2>3. Written(s).value = tc.value \o s
    BY <1>2, <1>3, <2>2, ReplacedEnd DEF Text
  <2>4. Expand(r \o s) = Expand(r) \o s
    BY <1>1, ExpandBehind
  <2>5. Paired(s)
    BY DEF Clean, Paired
  <2>6. r \o s \in Text /\ Paired(r \o s)
    BY <1>1, <2>5, PairedParts, Joined
  <2>7. QED
    BY <1>2, <1>4, <2>1, <2>3, <2>4, <2>6
<1>5. CASE ~ HasRegister
  <2>1. Over(s) = Replaced(r, WrittenAt, WrittenTo, s) /\ tc.value = r /\ Clean(r)
    BY <1>1, <1>2, <1>5 DEF Over
  <2> HIDE DEF r
  <2>2. WrittenAt \in 0..Len(r) /\ WrittenTo \in WrittenAt..Len(r)
    BY <1>3, <2>1
  <2>3. Over(s) \in Text /\ Clean(Over(s))
    BY <1>1, <2>1, <2>2, ReplacedClean, ReplacedType DEF Text
  <2>4. Expand(Over(s)) = Over(s) /\ Paired(Over(s))
    BY <2>3, ExpandClean DEF Clean, Paired
  <2>5. QED
    BY <1>3, <2>1, <2>3, <2>4
<1>6. QED
  BY <1>4, <1>5

\* So does the name of a register, with the contents that the control is sent.
LEMMA OverRegister ==
  ASSUME TypeOK, Headed, Agree, Good, posted = <<>>, Fits, NEW c \in Char
  PROVE  /\ Over(<<"^R", c>>) \in Text /\ Paired(Over(<<"^R", c>>))
         /\ Expand(Over(<<"^R", c>>)) = Written(Regs[c]).value
         /\ ~ Clean(Over(<<"^R", c>>))
<1> DEFINE r == Rest(m)
           s == <<"^R", c>>
<1>1. /\ r \in Text /\ (HasRegister <=> ~ Clean(r)) /\ Paired(r)
      /\ ~ HasRegister => Expand(r) = r
      /\ Clean(Expand(r)) /\ Expand(r) \in Text
  BY Known
<1>2. tc.value = Expand(r) /\ tc.value \in Text /\ Len(tc.value) \in Nat
  <2>1. tc.value \in Text /\ Len(tc.value) \in Nat
    BY ControlType DEF InControl
  <2>2. QED
    BY <2>1 DEF Agree
<1>3. Regs[c] \in Text
  BY Symbols, Typed
<1>4. /\ Written(Regs[c]).value = Replaced(tc.value, WrittenAt, WrittenTo, Regs[c])
      /\ WrittenAt \in 0..Len(tc.value) /\ WrittenTo \in WrittenAt..Len(tc.value)
  BY <1>3, Keys, WrittenType
<1>5. s \in Text /\ Paired(s) /\ ~ Clean(s)
  <2>1. s \in Text /\ DOMAIN s = 1..2 /\ s[1] = "^R" /\ s[2] = c /\ c # "^R"
    BY Symbols DEF Text
  <2> HIDE DEF s
  <2>2. QED
    BY <2>1 DEF Paired, Clean
<1>6. CASE HasRegister
  <2>1. Over(s) = r \o s
    BY <1>6 DEF Over
  <2>2. WrittenAt = Len(tc.value) /\ WrittenTo = Len(tc.value)
    BY <1>6 DEF Fits, WrittenAt, WrittenTo, AtEnd
  <2>3. Written(Regs[c]).value = tc.value \o Regs[c]
    BY <1>2, <1>3, <1>4, <2>2, ReplacedEnd DEF Text
  <2>4. Expand(r \o s) = Expand(r) \o Regs[c]
    <3> HIDE DEF r
    <3>1. QED
      BY <1>1, ExpandRegister
  <2> HIDE DEF r, s
  <2>5. r \o s \in Text /\ Paired(r \o s) /\ ~ Clean(r \o s)
    BY <1>1, <1>5, PairedParts, CleanParts, Joined
  <2>6. QED
    BY <1>2, <2>1, <2>3, <2>4, <2>5 DEF s
<1>7. CASE ~ HasRegister
  <2>1. Over(s) = Replaced(r, WrittenAt, WrittenTo, s) /\ tc.value = r /\ Clean(r)
    BY <1>1, <1>2, <1>7 DEF Over
  <2> HIDE DEF r
  <2>2. WrittenAt \in 0..Len(r) /\ WrittenTo \in WrittenAt..Len(r)
    BY <1>4, <2>1
  <2>3. /\ Paired(Replaced(r, WrittenAt, WrittenTo, s))
        /\ Expand(Replaced(r, WrittenAt, WrittenTo, s)) = Replaced(r, WrittenAt, WrittenTo, Regs[c])
        /\ ~ Clean(Replaced(r, WrittenAt, WrittenTo, s))
    BY <1>1, <2>1, <2>2, ReplacedRegister
  <2> HIDE DEF s
  <2>4. Replaced(r, WrittenAt, WrittenTo, s) \in Text
    BY <1>1, <1>5, <2>2, ReplacedType DEF Text
  <2>5. QED
    BY <1>4, <2>1, <2>3, <2>4 DEF s
<1>8. QED
  BY <1>6, <1>7

-----------------------------------------------------------------------------
(* The steps.                                                              *)

\* What every step but that of opening the bar leaves: a line that is shown was
\* shown before, and what went astray stays so, but for a search.
Onwards ==
  /\ open' => open
  /\ astray \ {"unsearched"} \subseteq astray'
  /\ UNCHANGED <<exMode, origin>>

\* An edit adds causes, and leaves the saved places alone.
LEMMA EditedOnwards ==
  ASSUME NEW c, NEW u, NEW t, NEW causes, Edited(c, u, t, causes)
  PROVE  /\ astray \ {"unsearched"} \subseteq astray' /\ causes \subseteq astray'
         /\ UNCHANGED <<saved, savedSel>>
  BY DEF Edited

\* Each of those steps goes onwards.
LEMMA StepOnwards ==
  ASSUME Next
  PROVE  Open \/ Onwards
<1>1. ASSUME Move \/ ControlR \/ Left \/ Right \/ Select \/ TimerExpires \/ Refocus
      PROVE  Onwards
  BY <1>1 DEF Move, ControlR, Left, Right, Select, TimerExpires, Refocus, Key, Event, Onwards
<1>2. ASSUME Back \/ Paste \/ Register
      PROVE  Onwards
  BY <1>2, EditedOnwards DEF Back, Paste, Register, Key, Event, Onwards
<1>3. ASSUME NEW c \in Char, Char_(c)
      PROVE  Onwards
  BY <1>3, EditedOnwards DEF Char_, Key, Event, Onwards
<1>4. ASSUME NEW k \in {"up", "down", "home", "end"}, Browse(k)
      PROVE  Onwards
  BY <1>4 DEF Browse, Key, Event, Onwards
<1>5. ASSUME EnterLine
      PROVE  Onwards
  <2> DEFINE c == Coerced(Entered)
             causes == Overtakes \cup Splices \cup Overwrites
                         \cup (IF Selected THEN {"entered"} ELSE {})
  <2>1. open /\ UNCHANGED <<exMode, origin>>
    BY <1>5 DEF EnterLine, Key, Event
  <2>2. UNCHANGED astray \/ astray \subseteq astray' \/ Edited(c, userInput, Written(<<"cr">>), causes)
    BY <1>5 DEF EnterLine
  <2> HIDE DEF c, causes
  <2>3. QED
    BY <2>1, <2>2, EditedOnwards DEF Onwards
<1>6. ASSUME Escape \/ EnterNothing \/ EnterFind \/ ExecFind \/ Exec
      PROVE  Onwards
  BY <1>6 DEF Escape, EnterNothing, EnterFind, ExecFind, Exec, Key, Event, Onwards
<1>7. QED
  BY <1>1, <1>2, <1>3, <1>4, <1>5, <1>6, Zenon DEF Next

\* The places that the caret returns to stay but when the bar is opened, and when the
\* focus comes back.
LEMMA PlacesStay ==
  ASSUME Next
  PROVE  Open \/ "refocused" \in astray' \/ UNCHANGED <<saved, savedSel>>
<1>1. ASSUME Move \/ ControlR \/ Left \/ Right \/ Select \/ TimerExpires \/ Refocus
      PROVE  "refocused" \in astray' \/ UNCHANGED <<saved, savedSel>>
  BY <1>1 DEF Move, ControlR, Left, Right, Select, TimerExpires, Refocus, document
<1>2. ASSUME Back \/ Paste \/ Register
      PROVE  UNCHANGED <<saved, savedSel>>
  BY <1>2, EditedOnwards DEF Back, Paste, Register
<1>3. ASSUME NEW c \in Char, Char_(c)
      PROVE  UNCHANGED <<saved, savedSel>>
  BY <1>3, EditedOnwards DEF Char_, document
<1>4. ASSUME NEW k \in {"up", "down", "home", "end"}, Browse(k)
      PROVE  UNCHANGED <<saved, savedSel>>
  BY <1>4 DEF Browse, document
<1>5. ASSUME EnterLine
      PROVE  UNCHANGED <<saved, savedSel>>
  <2> DEFINE c == Coerced(Entered)
             causes == Overtakes \cup Splices \cup Overwrites
                         \cup (IF Selected THEN {"entered"} ELSE {})
  <2>1. UNCHANGED <<saved, savedSel>> \/ Edited(c, userInput, Written(<<"cr">>), causes)
    BY <1>5 DEF EnterLine
  <2> HIDE DEF c, causes
  <2>2. QED
    BY <2>1, EditedOnwards
<1>6. ASSUME Escape \/ EnterNothing \/ EnterFind \/ ExecFind \/ Exec
      PROVE  UNCHANGED <<saved, savedSel>>
  BY <1>6 DEF Escape, EnterNothing, EnterFind, ExecFind, Exec, document
<1>7. QED
  BY <1>1, <1>2, <1>3, <1>4, <1>5, <1>6, Zenon DEF Next

\* The saved place stays where the caret was.
LEMMA PlacedStep ==
  ASSUME TypeOK, Placed, Next
  PROVE  Placed'
<1>1. CASE Open
  <2>1. PICK visual \in BOOLEAN, start \in Places \cup {At(caret)} :
          /\ ~ visual => start = At(caret)
          /\ origin' = start
          /\ savedSel' = IF visual THEN start ELSE savedSel
          /\ savedSel' \in {None, start} \/ "stale" \in astray'
    BY <1>1, Zenon DEF Open
  <2>2. saved' = At(caret)
    BY <1>1 DEF Open
  <2>3. start = None => start = At(caret)
    BY <2>1, ExCommandAssumption DEF None
  <2>4. QED
    BY <2>1, <2>2, <2>3 DEF Placed, Restored
<1>2. CASE Onwards
  <2>1. "refocused" \in astray' \/ UNCHANGED <<saved, savedSel>> \/ Open
    BY PlacesStay
  <2>2. QED
    BY <1>1, <1>2, <2>1 DEF Placed, Restored, Onwards
<1>3. QED
  BY <1>1, <1>2, StepOnwards

\* A name that is asked for, is asked for by a key.
LEMMA PendingStep ==
  ASSUME Pending, Next
  PROVE  Pending'
<1>1. ASSUME Move \/ ControlR \/ Left \/ Right \/ Select \/ TimerExpires \/ Refocus \/ Open
      PROVE  Pending'
  BY <1>1 DEF Move, ControlR, Left, Right, Select, TimerExpires, Refocus, Open, Pending
<1>2. ASSUME Back \/ Paste \/ Register
      PROVE  Pending'
  BY <1>2 DEF Back, Paste, Register, Pending
<1>3. ASSUME NEW c \in Char, Char_(c)
      PROVE  Pending'
  BY <1>3 DEF Char_, Pending
<1>4. ASSUME NEW k \in {"up", "down", "home", "end"}, Browse(k)
      PROVE  Pending'
  BY <1>4 DEF Browse, Pending
<1>5. ASSUME EnterLine \/ Escape \/ EnterNothing \/ EnterFind \/ ExecFind \/ Exec
      PROVE  Pending'
  BY <1>5 DEF EnterLine, Escape, EnterNothing, EnterFind, ExecFind, Exec, Pending
<1>6. QED
  BY <1>1, <1>2, <1>3, <1>4, <1>5, Zenon DEF Next

\* What the proof keeps of the command and what is shown.
Aligned == Headed /\ Agree /\ Registered /\ Searched

\* A step onwards that parts nothing was taken where nothing was parted.
LEMMA StillGood ==
  ASSUME Onwards, Good'
  PROVE  Good
<1>1. "unsearched" \notin Parted
  BY DEF Parted
<1>2. QED
  BY <1>1 DEF Onwards, Good

\* The two texts agree if they stay as they are.
LEMMA Unmoved ==
  ASSUME IInv, Good, Onwards, astray \subseteq astray', UNCHANGED <<m, posted, input>>,
         tc' = tc \/ (tc'.value = tc.value /\ posted = <<>>),
         userInput => userInput', userInput' => userInput \/ "unsearched" \in astray',
         "refocused" \in astray' \/ UNCHANGED <<caret, saved, savedSel>>
  PROVE  Aligned'
<1>1. Headed /\ Agree /\ Registered /\ Searched
  BY DEF IInv
<1>2. Rest(m)' = Rest(m) /\ Type(m)' = Type(m) /\ (HasRegister' <=> HasRegister)
  BY DEF Rest, Type, HasRegister, Prefixed
<1>3. Headed'
  BY <1>1, <1>2 DEF Headed, Onwards
<1>4. Agree'
  <2>1. Paired(Rest(m))' /\ Expand(Rest(m))' = Expand(Rest(m))
    BY <1>1, <1>2 DEF Agree, Paired, Expand, Expansion, Named
  <2>2. tc' = tc => Written(Head(posted))' = Written(Head(posted))
    BY DEF Written, Plain, Selected
  <2>3. QED
    BY <1>1, <2>1, <2>2 DEF Agree
<1>5. Registered'
  BY <1>1, <1>2 DEF Registered, Onwards
<1>6. Searched'
  <2>1. UNCHANGED <<saved, savedSel>> => Restored' = Restored
    BY DEF Restored
  <2>2. tc'.value = tc.value
    OBVIOUS
  <2>3. QED
    BY <1>1, <1>2, <2>1, <2>2 DEF Searched, Onwards
<1>7. QED
  BY <1>3, <1>4, <1>5, <1>6 DEF Aligned

\* They agree when both are given anew.
LEMMA Given ==
  ASSUME TypeOK', NEW c \in Text, Type(c) \in Kinds, NEW text \in Text, Clean(text),
         m' = Reset(c, text), tc'.value = text, posted' = <<>>,
         exMode' \/ input' => Type(c) = "command",
         userInput' /\ Type(c) = "find" => "unsearched" \in astray'
  PROVE  Aligned'
<1>1. m' \in Text /\ Type(m') = Type(c) /\ Rest(m') = text
  BY ResetShape
<1>2. Paired(text) /\ Expand(text) = text
  BY ExpandClean DEF Clean, Paired
<1>3. HasRegister' => FALSE
  <2>1. (\E i \in DOMAIN m' : i > 1 /\ m'[i] = "^R") <=> ~ Clean(text)
    BY <1>1, RegisterShape
  <2>2. QED
    BY <2>1 DEF HasRegister
<1>4. Headed'
  BY <1>1 DEF Headed
<1>5. Agree'
  <2>1. Rest(m)' = text /\ Paired(Rest(m))' /\ Expand(Rest(m))' = text
    BY <1>1, <1>2
  <2>2. QED
    BY <2>1 DEF Agree
<1>6. Registered' /\ Searched'
  BY <1>1, <1>3 DEF Registered, Searched
<1>7. QED
  BY <1>4, <1>5, <1>6 DEF Aligned

\* They agree after an edit that changes the command as it changes what is shown.
LEMMA Changed ==
  ASSUME IInv, TypeOK', Good, Onwards, NEW r \in Text, Paired(r),
         NEW t, t.value = Expand(r), NEW causes,
         Edited(Reset(m, r), userInput', t, causes), posted' = <<>>, input' = input,
         ~ Clean(r) => userInput' /\ (Type(m) = "find" => "register" \in astray'),
         t # tc \/ userInput' = userInput
  PROVE  Aligned'
<1>1. m \in Text /\ Type(m) \in Kinds /\ (exMode \/ input => Type(m) = "command")
  BY Known DEF IInv, Headed
<1> DEFINE d == Reset(m, r)
<1>2. d \in Text /\ Type(d) = Type(m) /\ Rest(d) = r
  BY <1>1, ResetShape
<1>3. Coerced(d) = d /\ (r = <<>> => Reset(d, <<>>) = d)
  BY <1>1, CoercedShape
<1> HIDE DEF d
<1>4. Edited(d, userInput', t, causes)
  BY DEF d
<1>5. m' = d /\ tc' = t /\ UNCHANGED <<saved, savedSel>>
  BY <1>2, <1>3, <1>4 DEF Edited
<1>6. /\ t # tc => caret' = Finds(d, userInput')
      /\ t = tc => caret' = caret /\ astray \subseteq astray'
  BY <1>2, <1>3, <1>4 DEF Edited
<1>7. HasRegister' <=> ~ Clean(r)
  <2>1. (\E i \in DOMAIN d : i > 1 /\ d[i] = "^R") <=> ~ Clean(Rest(d))
    BY <1>1, <1>2, RegisterShape
  <2>2. QED
    BY <1>2, <1>5, <2>1 DEF HasRegister
<1>8. Rest(m') = r /\ Type(m') = Type(m)
  BY <1>2, <1>5
<1>9. Headed'
  BY <1>1, <1>8 DEF Headed, Onwards
<1>10. Agree'
  <2>1. Rest(m)' = r /\ Paired(Rest(m))' /\ Expand(Rest(m))' = Expand(r)
    BY <1>8
  <2>2. QED
    BY <1>5, <2>1 DEF Agree
<1>11. Registered'
  BY <1>7, <1>8 DEF Registered
<1>12. Searched'
  <2> SUFFICES ASSUME Good', Type(m') = "find", userInput',
                      astray' \cap {"unsearched", "register", "refocused"} = {}
               PROVE  caret' = [place |-> Restored', text |-> tc'.value]
    BY DEF Searched
  <2>1. Restored' = Restored
    BY <1>5 DEF Restored
  <2>2. Clean(r) /\ Expand(r) = r
    BY <1>8, ExpandClean
  <2>3. CASE t # tc
    BY <1>2, <1>5, <1>6, <1>8, <2>1, <2>2, <2>3 DEF Finds
  <2>4. CASE t = tc
    <3>1. userInput /\ Type(m) = "find"
          /\ astray \cap {"unsearched", "register", "refocused"} = {}
      BY <1>6, <1>8, <2>4
    <3>2. caret = [place |-> Restored, text |-> tc.value]
      BY <3>1 DEF Searched, IInv
    <3>3. QED
      BY <1>5, <1>6, <2>1, <2>4, <3>2
  <2>5. QED
    BY <2>3, <2>4
<1>13. QED
  BY <1>9, <1>10, <1>11, <1>12 DEF Aligned

\* The keys that leave the command alone, and what is selected by itself.
LEMMA CaretStep ==
  ASSUME IInv, Good, Good', Onwards,
         Move \/ ControlR \/ Left \/ Right \/ Select \/ TimerExpires \/ Refocus
  PROVE  Aligned'
<1>1. ~ Move
  BY DEF Move, Good
<1>2. CASE ControlR
  <2>1. ~ Selected
    BY <1>2 DEF ControlR, Good, Parted
  <2>2. m' = m
    BY <1>2, <2>1 DEF ControlR, Cut
  <2>3. /\ UNCHANGED <<posted, input, tc, caret, saved, savedSel>> /\ userInput'
        /\ userInput \/ "unsearched" \in astray'
        /\ astray \subseteq astray'
    BY <1>2 DEF ControlR, document
  <2>4. QED
    BY <2>2, <2>3, Unmoved
<1>3. CASE Refocus
  <2>1. /\ UNCHANGED <<m, posted, input, tc, userInput>> /\ "refocused" \in astray'
        /\ astray \subseteq astray'
    BY <1>3 DEF Refocus
  <2>2. QED
    BY <2>1, Unmoved
<1>4. CASE Left \/ Right \/ Select \/ TimerExpires
  <2>1. /\ UNCHANGED <<m, posted, input, userInput, caret, saved, savedSel>>
        /\ astray \subseteq astray'
    BY <1>4 DEF Left, Right, Select, TimerExpires, document
  <2>2. Overtakes \subseteq astray'
    BY <1>4 DEF Left, Right, Select, TimerExpires
  <2>3. posted = <<>>
    BY <2>2 DEF Overtakes, Good, Parted
  <2>4. tc'.value = tc.value
    BY <1>4 DEF Left, Right, Select, TimerExpires, Plain, AllOf
  <2>5. QED
    BY <2>1, <2>3, <2>4, Unmoved
<1>5. QED
  BY <1>1, <1>2, <1>3, <1>4

\* Two characters that are put together.
LEMMA Pair ==
  ASSUME NEW x \in Symbol, NEW y \in Symbol
  PROVE  <<x>> \o <<y>> = <<x, y>>
<1>1. <<x>> \in Seq(Symbol)
  OBVIOUS
<1> DEFINE a == Append(<<x>>, y)
<1>2. <<x>> \o <<y>> = a
  BY <1>1, AppendIsConcat
<1>3. a \in Seq(Symbol) /\ Len(a) = 2 /\ a[1] = x /\ a[2] = y
  <2>1. Len(<<x>>) = 1 /\ <<x>>[1] = x
    OBVIOUS
  <2>2. QED
    BY <1>1, <2>1, AppendProperties
<1> HIDE DEF a
<1>4. <<x, y>> \in Seq(Symbol) /\ Len(<<x, y>>) = 2
  OBVIOUS
<1>5. \A i \in 1..2 : a[i] = <<x, y>>[i]
  BY <1>3
<1>6. a = <<x, y>>
  BY <1>3, <1>4, <1>5, SeqEqual
<1>7. QED
  BY <1>2, <1>6

\* The edits at a caret: what a key brings is in the command where it is in the text.
LEMMA CharStep ==
  ASSUME IInv, TypeOK', Good, Good', Onwards, NEW c \in Char, Char_(c)
  PROVE  Aligned'
<1>1. TypeOK /\ Headed /\ Agree /\ Registered /\ Pending
  BY DEF IInv
<1>2. userInput' = TRUE /\ input' = input
  BY DEF Char_
<1>3. ASSUME Overtakes \cup Overwrites \cup Splices \subseteq astray'
      PROVE  posted = <<>> /\ Fits
  BY <1>3 DEF Overtakes, Overwrites, Splices, Fits, Good, Parted
<1>4. CASE controlR /\ Regs[c] # <<>>
  <2>1. /\ m' = Insert(Insert(Cut(m), tc.ip, <<"^R">>), tc.ip + 1, <<c>>) /\ m' # Thrown
        /\ posted' = Append(posted, Regs[c])
        /\ Overtakes \cup Overwrites \cup Splices \cup Lands \subseteq astray'
        /\ Type(m) = "find" => "register" \in astray'
        /\ UNCHANGED <<tc, caret, saved, savedSel>>
    BY <1>4 DEF Char_
  <2>2. posted = <<>> /\ Fits
    BY <1>3, <2>1
  <2>3. HasRegister => tc.ip >= Len(Rest(m))
    <3>1. tc.ip \in Nat /\ Len(Rest(m)) \in Nat
      BY <1>1, Known, ControlType DEF InControl, Text
    <3>2. Lands \subseteq astray' /\ "spliced" \notin astray'
      BY <2>1 DEF Good, Parted
    <3>3. ~ (HasRegister /\ tc.ip < Len(Rest(m)))
      BY <3>2 DEF Lands
    <3>4. QED
      BY <3>1, <3>3
  <2> DEFINE s == <<"^R", c>>
  <2>4. m' = Reset(m, Over(s))
    <3>1. <<"^R">> \in Text /\ <<c>> \in Text /\ Len(<<"^R">>) = 1
      BY Keys
    <3>2. m' = Reset(m, Over(<<"^R">> \o <<c>>))
      BY <1>1, <2>1, <2>2, <2>3, <3>1, OverShape
    <3>3. <<"^R">> \o <<c>> = s
      <4>1. c \in Symbol /\ "^R" \in Symbol
        BY Symbols
      <4>2. QED
        BY <4>1, Pair
    <3>4. QED
      BY <3>2, <3>3
  <2>5. Over(s) \in Text /\ Paired(Over(s)) /\ Expand(Over(s)) = Written(Regs[c]).value
        /\ ~ Clean(Over(s))
    BY <1>1, <2>2, OverRegister
  <2> DEFINE q == Over(s)
  <2> HIDE DEF s
  <2>6. q \in Text /\ m' = Reset(m, q)
    BY <2>4, <2>5
  <2>7. m \in Text /\ Type(m) \in Kinds /\ (exMode \/ input => Type(m) = "command")
    BY <1>1, Known DEF Headed
  <2> HIDE DEF q
  <2>8. m' \in Text /\ Type(m') = Type(m) /\ Rest(m') = q
    BY <2>6, <2>7, ResetShape
  <2>9. HasRegister'
    <3>1. (\E i \in DOMAIN m' : i > 1 /\ m'[i] = "^R") <=> ~ Clean(q)
      BY <2>7, <2>8, RegisterShape
    <3>2. ~ Clean(q)
      BY <2>5 DEF q
    <3>3. QED
      BY <3>1, <3>2 DEF HasRegister
  <2>10. Headed'
    BY <1>2, <2>7, <2>8 DEF Headed, Onwards
  <2>11. Agree'
    <3>1. posted' = <<Regs[c]>>
      BY <2>1, <2>2
    <3>2. posted' # <<>> /\ Len(posted') = 1 /\ Head(posted') = Regs[c]
      BY <3>1
    <3>3. Written(Head(posted))' = Written(Regs[c])
      BY <2>1, <3>2 DEF Written, Plain, Selected
    <3>4. Rest(m)' = q /\ Paired(Rest(m))' /\ Expand(Rest(m))' = Written(Regs[c]).value
      BY <2>5, <2>8 DEF q
    <3>5. QED
      BY <3>2, <3>3, <3>4 DEF Agree
  <2>12. Registered' /\ Searched'
    BY <1>2, <2>1, <2>8, <2>9 DEF Registered, Searched
  <2>13. QED
    BY <2>10, <2>11, <2>12 DEF Aligned
<1>5. CASE controlR /\ Regs[c] = <<>>
  <2>1. ~ Selected
    BY <1>5 DEF Char_, Good, Parted
  <2>2. m' = m
    BY <1>5, <2>1 DEF Char_, Cut
  <2>3. UNCHANGED <<posted, tc, caret, saved, savedSel>> /\ astray \subseteq astray'
    BY <1>5 DEF Char_, document
  <2>4. userInput
    BY <1>1, <1>5 DEF Pending
  <2>5. QED
    BY <1>2, <2>2, <2>3, <2>4, Unmoved
<1>6. CASE ~ controlR
  <2> DEFINE causes == Overtakes \cup Overwrites \cup Splices
             t == Written(<<c>>)
             q == Over(<<c>>)
  <2>1. Edited(Handle(Cut(m), <<c>>), userInput', t, causes) /\ posted' = posted
    BY <1>2, <1>6 DEF Char_
  <2>2. posted = <<>> /\ Fits
    <3> HIDE DEF t, causes
    <3>1. causes \subseteq astray'
      BY <2>1, EditedOnwards
    <3>2. QED
      BY <1>3, <3>1 DEF causes
  <2>3. <<c>> \in Text /\ Clean(<<c>>)
    <3>1. <<c>> \in Seq(Char)
      OBVIOUS
    <3>2. QED
      BY <3>1, Typed
  <2>4. Handle(Cut(m), <<c>>) = Reset(m, q)
    BY <1>1, <2>2, <2>3, OverShape
  <2>5. q \in Text /\ Paired(q) /\ Expand(q) = t.value /\ (~ HasRegister => Clean(q))
    BY <1>1, <2>2, <2>3, OverExpand
  <2>6. t # tc
    <3>1. t = Plain(t.value, WrittenAt + Len(<<c>>)) /\ WrittenAt \in Nat
      <4>1. WrittenAt \in 0..Len(tc.value) /\ Len(tc.value) \in Nat
        BY <1>1, <2>3, WrittenType, ControlType
      <4>2. t = Plain(t.value, WrittenAt + Len(<<c>>))
        BY <1>1, <2>3, WrittenType
      <4>3. QED
        BY <4>1, <4>2
    <3> HIDE DEF t
    <3>2. t.ip = WrittenAt + 1 /\ t.from = t.to
      BY <3>1 DEF Plain
    <3>3. tc.from = tc.to => WrittenAt = tc.ip
      BY DEF WrittenAt, Selected
    <3>4. QED
      BY <3>1, <3>2, <3>3
  <2>7. ~ Clean(q) => userInput' /\ (Type(m) = "find" => "register" \in astray')
    <3> HIDE DEF q, t
    <3>1. HasRegister => (Type(m) = "find" => "register" \in astray)
      BY <1>1 DEF Registered
    <3>2. QED
      BY <1>2, <2>5, <3>1 DEF Onwards
  <2> HIDE DEF causes, t, q
  <2>8. QED
    BY <1>2, <2>1, <2>2, <2>4, <2>5, <2>6, <2>7, Changed
<1>7. QED
  BY <1>4, <1>5, <1>6

\* A posted text is written, or a text is pasted.
LEMMA TextStep ==
  ASSUME IInv, TypeOK', Good, Good', Onwards, Register \/ Paste
  PROVE  Aligned'
<1>1. TypeOK /\ Headed /\ Agree /\ Registered
  BY DEF IInv
<1>2. CASE Register
  <2> DEFINE r == Rest(m)
             t == Written(Head(posted))
  <2>1. Edited(m, userInput, t, {}) /\ posted # <<>> /\ posted' = Tail(posted)
        /\ UNCHANGED <<input, userInput>>
    BY <1>2 DEF Register
  <2>2. r \in Text /\ Paired(r) /\ m = Reset(m, r) /\ (HasRegister <=> ~ Clean(r))
    BY <1>1, Known
  <2>3. Len(posted) = 1 /\ t.value = Expand(r)
    BY <1>1, <2>1 DEF Agree
  <2>4. Tail(posted) = <<>>
    <3>1. posted \in Seq(Seq(Char) \ {<<>>})
      BY <1>1 DEF TypeOK
    <3>2. Tail(posted) \in Seq(Seq(Char) \ {<<>>}) /\ Len(Tail(posted)) = 0
      BY <2>1, <2>3, <3>1, HeadTailProperties
    <3>3. QED
      BY <3>2, EmptySeq
  <2>5. ~ Clean(r) => userInput' /\ (Type(m) = "find" => "register" \in astray')
    <3>1. HasRegister => userInput /\ (Type(m) = "find" => "register" \in astray)
      BY <1>1 DEF Registered
    <3>2. QED
      BY <2>1, <2>2, <3>1 DEF Onwards
  <2>6. Edited(Reset(m, r), userInput', t, {})
    <3> HIDE DEF r, t
    <3>1. QED
      BY <2>1, <2>2
  <2> HIDE DEF r, t
  <2>7. QED
    BY <2>1, <2>2, <2>3, <2>4, <2>5, <2>6, Changed
<1>3. CASE Paste
  <2> DEFINE causes == Overtakes \cup Overwrites \cup Splices \cup Lands
  <2>1. PICK s \in Clips : Edited(Insert(Cut(m), tc.ip, s), userInput, Written(s), causes)
    BY <1>3 DEF Paste
  <2>2. UNCHANGED <<posted, input, userInput>>
    BY <1>3 DEF Paste
  <2> DEFINE t == Written(s)
             q == Over(s)
  <2>3. causes \subseteq astray' /\ Insert(Cut(m), tc.ip, s) # Thrown
    <3> HIDE DEF causes
    <3>1. causes \subseteq astray'
      BY <2>1, EditedOnwards
    <3>2. QED
      BY <2>1, <3>1 DEF Edited
  <2>4. posted = <<>> /\ Fits
    BY <2>3 DEF Overtakes, Overwrites, Splices, Fits, Good, Parted
  <2>5. HasRegister => tc.ip >= Len(Rest(m))
    <3>1. tc.ip \in Nat /\ Len(Rest(m)) \in Nat
      BY <1>1, Known, ControlType DEF InControl, Text
    <3>2. Lands \subseteq astray' /\ "spliced" \notin astray'
      BY <2>3 DEF Good, Parted
    <3>3. ~ (HasRegister /\ tc.ip < Len(Rest(m)))
      BY <3>2 DEF Lands
    <3>4. QED
      BY <3>1, <3>3
  <2>6. s \in Text /\ Clean(s)
    <3>1. s \in Seq(Char)
      BY ExCommandAssumption
    <3>2. QED
      BY <3>1, Typed
  <2>7. Insert(Cut(m), tc.ip, s) = Reset(m, q)
    BY <1>1, <2>3, <2>4, <2>5, <2>6, OverShape
  <2>8. q \in Text /\ Paired(q) /\ Expand(q) = t.value /\ (~ HasRegister => Clean(q))
    BY <1>1, <2>4, <2>6, OverExpand
  <2>9. Edited(Reset(m, q), userInput', t, causes)
    <3> HIDE DEF causes, q
    <3>1. QED
      BY <2>1, <2>2, <2>7
  <2> HIDE DEF causes, t, q
  <2>10. ~ Clean(q) => userInput' /\ (Type(m) = "find" => "register" \in astray')
    <3>1. HasRegister => userInput /\ (Type(m) = "find" => "register" \in astray)
      BY <1>1 DEF Registered
    <3>2. QED
      BY <2>2, <2>8, <3>1 DEF Onwards
  <2>11. QED
    BY <2>2, <2>4, <2>8, <2>9, <2>10, Changed
<1>4. QED
  BY <1>2, <1>3

\* What goes from the command goes from the text, if there is no register.
LEMMA BackShape ==
  ASSUME TypeOK, Headed, Agree, Good, posted = <<>>, ~ Selected, ~ HasRegister, Rest(m) # <<>>
  PROVE  /\ HandleBack(m) = Reset(m, Backed.value)
         /\ Backed.value \in Text /\ Clean(Backed.value)
<1> DEFINE r == Rest(m)
<1>1. /\ m \in Text /\ Type(m) \in Kinds /\ r \in Text /\ m = Reset(m, r)
      /\ Clean(r) /\ Expand(r) = r
  BY Known
<1>2. tc.value = r
  BY <1>1 DEF Agree
<1>3. tc.ip \in 0..Len(r) /\ Len(r) \in Nat /\ tc.value = r
  <2>1. tc.ip \in 0..Len(tc.value) /\ Len(tc.value) \in Nat
    BY ControlType DEF InControl
  <2>2. QED
    BY <1>2, <2>1
<1>4. m # <<>> /\ m # Thrown
  BY <1>1, ResetShape
<1>5. r # <<>>
  OBVIOUS
<1> HIDE DEF r
<1>6. CASE tc.ip = 0
  <2>1. Backed = tc
    BY <1>6 DEF Backed
  <2>2. ~ AtEnd
    BY <1>1, <1>3, <1>5, <1>6, EmptySeq DEF AtEnd, Text
  <2>3. HandleBack(m) = m
    BY <1>4, <1>6, <2>2 DEF HandleBack
  <2>4. QED
    BY <1>1, <1>2, <2>1, <2>3
<1>7. CASE tc.ip # 0
  <2> DEFINE i == tc.ip - 1
             q == Replaced(r, i, tc.ip, <<>>)
  <2>1. i \in 0..Len(r) /\ tc.ip \in i..Len(r)
    BY <1>3, <1>7
  <2>2. Backed.value = q
    BY <1>3, <1>7, BackedType DEF Plain
  <2>3. <<>> \in Text /\ Clean(<<>>)
    <3>1. <<>> \in Seq(Char)
      BY EmptySeq
    <3>2. QED
      BY <3>1, Typed
  <2>4. q \in Text /\ Clean(q)
    BY <1>1, <2>1, <2>3, ReplacedClean, ReplacedType DEF Text
  <2>5. CASE AtEnd
    <3>1. tc.ip = Len(r)
      BY <1>3, <2>5 DEF AtEnd
    <3>2. HandleBack(m) = SubSeq(m, 1, Len(m) - 1)
      BY <1>4, <2>5 DEF HandleBack, Front
    <3>3. Len(m) - 1 = Prefixed(m) + i
      <4>1. Len(m) = Prefixed(m) + Len(r)
        BY <1>1, ResetShape
      <4>2. Prefixed(m) \in Nat
        BY <1>1, Shape DEF Text
      <4>3. QED
        BY <1>3, <3>1, <4>1, <4>2
    <3>4. SubSeq(m, 1, Prefixed(m) + i) = Reset(m, SubSeq(r, 1, i))
      BY <1>1, <2>1, ResetParts
    <3>5. q = SubSeq(r, 1, i)
      <4>1. q = SubSeq(r, 1, i) \o <<>>
        <5>1. r \in Seq(Symbol) /\ <<>> \in Seq(Symbol)
          BY <1>1, <2>3 DEF Text
        <5>2. Replaced(r, i, Len(r), <<>>) = SubSeq(r, 1, i) \o <<>>
          BY <2>1, <5>1, ReplacedEnd
        <5>3. QED
          BY <3>1, <5>2
      <4>2. SubSeq(r, 1, i) \in Seq(Symbol)
        BY <1>1, <2>1, Halves DEF Text
      <4>3. SubSeq(r, 1, i) \o <<>> = SubSeq(r, 1, i)
        BY <4>2, ConcatEmptySeq
      <4>4. QED
        BY <4>1, <4>3
    <3>6. QED
      BY <2>2, <2>4, <3>2, <3>3, <3>4, <3>5
  <2>6. CASE ~ AtEnd
    <3>1. HandleBack(m) = Erase(m, i, 1)
      BY <1>4, <1>7, <2>6 DEF HandleBack
    <3>2. tc.ip - i = 1
      BY <1>3
    <3>3. Erase(Reset(m, r), i, tc.ip - i) = Reset(m, q)
      BY <1>1, <2>1, EraseShape
    <3> HIDE DEF i, q
    <3>4. QED
      BY <1>1, <2>2, <2>4, <3>1, <3>2, <3>3
  <2>7. QED
    BY <2>5, <2>6
<1>8. QED
  BY <1>6, <1>7

\* A backspace.
LEMMA BackStep ==
  ASSUME IInv, TypeOK', Good, Good', Onwards, Back
  PROVE  Aligned'
<1>1. TypeOK /\ Headed /\ Agree /\ Registered
  BY DEF IInv
<1> DEFINE causes == Overtakes \cup (IF Selected THEN {"erased"} ELSE {})
              \cup (IF Rest(m) = <<>> THEN {"popped"} ELSE {})
              \cup (IF HasRegister THEN {"spliced"} ELSE {})
           t == Backed
           q == t.value
<1>2. Edited(HandleBack(m), userInput', t, causes) /\ UNCHANGED <<posted, input, userInput>>
  BY DEF Back
<1>3. causes \subseteq astray'
  <2> HIDE DEF causes, t
  <2>1. QED
    BY <1>2, EditedOnwards
<1>4. posted = <<>> /\ ~ Selected /\ ~ HasRegister /\ Rest(m) # <<>>
  BY <1>3 DEF Overtakes, Good, Parted
<1>5. HandleBack(m) = Reset(m, q) /\ q \in Text /\ Clean(q)
  BY <1>1, <1>4, BackShape
<1>6. Paired(q) /\ Expand(q) = q
  BY <1>5, ExpandClean DEF Clean, Paired
<1>7. t.value = q
  OBVIOUS
<1> HIDE DEF causes, t, q
<1>8. QED
  BY <1>2, <1>4, <1>5, <1>6, <1>7, Changed

\* A newline is a text without registers.
LEMMA Newline == <<"cr">> \in Text /\ Clean(<<"cr">>)
<1>1. <<"cr">> \in Text
  BY Keys
<1> DEFINE s == <<"cr">>
<1>2. DOMAIN s = 1..1 /\ s[1] = "cr"
  OBVIOUS
<1> HIDE DEF s
<1>3. Clean(s)
  BY <1>2 DEF Clean
<1>4. QED
  BY <1>1, <1>3 DEF s

\* The line that Return gives in an input mode has at least the newline.
LEMMA EnteredShape ==
  ASSUME TypeOK, Headed, Agree, Good, input, Entered # Thrown
  PROVE  \E q \in Text : q # <<>> /\ Entered = Reset(m, q) /\ Coerced(Entered) = Entered
                         /\ Rest(Entered) = q
<1> DEFINE r == Rest(m)
           s == <<"cr">>
<1>1. m \in Text /\ Type(m) \in Kinds /\ r \in Text /\ m = Reset(m, r)
  BY Known
<1>2. exMode => Type(m) = "command"
  BY DEF Headed
<1>3. s \in Text /\ Len(s) = 1 /\ tc.ip \in Nat /\ Len(r) \in Nat
  <2>1. s \in Text
    BY Keys
  <2>2. Len(s) = 1
    OBVIOUS
  <2> HIDE DEF r, s
  <2>3. tc.ip \in Nat /\ Len(r) \in Nat
    BY <1>1, ControlType DEF InControl, Text
  <2>4. QED
    BY <2>1, <2>2, <2>3
<1> HIDE DEF r, s
<1>4. ASSUME NEW q \in Text, q # <<>>, Entered = Reset(m, q)
      PROVE  \E p \in Text : p # <<>> /\ Entered = Reset(m, p) /\ Coerced(Entered) = Entered
                             /\ Rest(Entered) = p
  <2>1. Coerced(Entered) = Entered
    BY <1>1, <1>2, <1>4, CoercedShape
  <2>2. Rest(Entered) = q
    BY <1>1, <1>4, ResetShape
  <2>3. QED
    BY <1>4, <2>1, <2>2
<1>5. r \o s \in Text /\ r \o s # <<>>
  <2>1. r \o s \in Text /\ Len(r \o s) = Len(r) + 1
    BY <1>1, <1>3, Joined
  <2>2. Len(r \o s) # 0
    BY <1>3, <2>1
  <2>3. QED
    BY <2>1, <2>2, EmptySeq DEF Text
<1>6. Reset(m, r) \o s = Reset(m, r \o s) /\ m # Thrown
  <2>1. Reset(m, r) # Thrown
    BY <1>1, ResetShape
  <2>2. Reset(m, r) \o s = Reset(m, r \o s)
    BY <1>1, <1>3, InsertShape
  <2>3. QED
    BY <1>1, <2>1, <2>2
<1>7. CASE AtEnd
  <2>1. Entered = Reset(m, r) \o s
    BY <1>1, <1>6, <1>7 DEF Entered, Handle, s
  <2>2. QED
    BY <1>4, <1>5, <1>6, <2>1
<1>8. CASE ~ AtEnd
  <2>1. Entered = Insert(Reset(m, r), tc.ip, s)
    BY <1>1, <1>8 DEF Entered, Handle, s
  <2>2. CASE tc.ip > Len(r)
    <3>1. Entered = Reset(m, r \o s)
      BY <1>1, <1>3, <2>1, <2>2, InsertShape
    <3>2. QED
      BY <1>4, <1>5, <3>1
  <2>3. CASE tc.ip <= Len(r)
    <3> DEFINE q == Replaced(r, tc.ip, tc.ip, s)
    <3>1. tc.ip \in 0..Len(r) /\ tc.ip \in tc.ip..Len(r)
      BY <1>3, <2>3
    <3>2. Entered = Reset(m, q)
      BY <1>1, <1>3, <2>1, <3>1, InsertShape
    <3>3. q \in Seq(Symbol) /\ Len(q) = Len(r) - (tc.ip - tc.ip) + Len(s)
      BY <1>1, <1>3, <3>1, ReplacedType DEF Text
    <3> HIDE DEF q
    <3>4. Len(q) # 0
      BY <1>3, <3>3
    <3>5. q \in Text /\ q # <<>>
      BY <3>3, <3>4, EmptySeq DEF Text
    <3>6. QED
      BY <1>4, <3>2, <3>5
  <2>4. QED
    BY <1>3, <2>2, <2>3
<1>9. QED
  BY <1>7, <1>8

\* A newline in the lines of an input mode.
LEMMA LineStep ==
  ASSUME IInv, TypeOK', Good, Good', Onwards, EnterLine
  PROVE  Aligned'
<1>1. TypeOK /\ Headed /\ Agree /\ Registered
  BY DEF IInv
<1> DEFINE causes == Overtakes \cup Splices \cup Overwrites
                       \cup (IF Selected THEN {"entered"} ELSE {})
           s == <<"cr">>
           t == Written(s)
           c == Coerced(Entered)
<1>2. input /\ Entered # Thrown /\ UNCHANGED <<input, userInput, posted>>
  BY DEF EnterLine
<1>3. PICK q \in Text : q # <<>> /\ Entered = Reset(m, q) /\ c = Entered /\ Rest(Entered) = q
  BY <1>1, <1>2, EnteredShape
<1>4. Edited(c, userInput, t, causes)
  <2>1. open' /\ "kept" \notin astray'
    BY DEF Good, Parted
  <2>2. Rest(c) # <<>>
    BY <1>3
  <2> HIDE DEF causes, t
  <2>3. QED
    BY <2>1, <2>2 DEF EnterLine, causes, t
<1>5. causes \subseteq astray'
  <2> HIDE DEF causes, t, c
  <2>1. QED
    BY <1>4, EditedOnwards
<1>6. posted = <<>> /\ ~ Selected /\ (HasRegister => AtEnd)
  BY <1>5 DEF Overtakes, Splices, Good, Parted
<1>7. s \in Text /\ Clean(s)
  BY Newline
<1> DEFINE p == Put(s)
<1>8. /\ Handle(m, s) = Reset(m, p) /\ p \in Text /\ Paired(p)
      /\ Expand(p) = Replaced(tc.value, tc.ip, tc.ip, s)
      /\ Clean(Rest(m)) => Clean(p)
  BY <1>1, <1>6, <1>7, HandleShape
<1>9. t.value = Replaced(tc.value, tc.ip, tc.ip, s)
  <2>1. t.value = Replaced(tc.value, WrittenAt, WrittenTo, s)
    BY <1>1, <1>7, WrittenType
  <2>2. WrittenAt = tc.ip /\ WrittenTo = tc.ip
    BY <1>6 DEF WrittenAt, WrittenTo
  <2>3. QED
    BY <2>1, <2>2
<1>10. Edited(Reset(m, p), userInput', t, causes)
  <2>1. c = Reset(m, p)
    BY <1>3, <1>8 DEF Entered
  <2> HIDE DEF c, p, t, causes
  <2>2. QED
    BY <1>2, <1>4, <2>1
<1> HIDE DEF p, t, causes
<1>11. ~ Clean(p) => userInput' /\ (Type(m) = "find" => "register" \in astray')
  <2>1. HasRegister => userInput /\ (Type(m) = "find" => "register" \in astray)
    BY <1>1 DEF Registered
  <2>2. HasRegister <=> ~ Clean(Rest(m))
    BY <1>1, Known
  <2>3. QED
    BY <1>2, <1>8, <2>1, <2>2 DEF Onwards
<1>12. QED
  BY <1>2, <1>6, <1>8, <1>9, <1>10, <1>11, Changed

\* A text that has no register in it is given literally.
LEMMA LiteralClean ==
  ASSUME NEW text
  PROVE  Literal(text) \cap Parted = {} => Clean(text)
  BY DEF Literal, Clean, Parted

\* What was given before.
LEMMA BrowseStep ==
  ASSUME IInv, TypeOK', Good, Good', Onwards, NEW k \in {"up", "down", "home", "end"}, Browse(k)
  PROVE  Aligned'
<1>1. TypeOK /\ Headed
  BY DEF IInv
<1> DEFINE t == IF Type(m) = "find" THEN "find" ELSE ListOf(m)
           h == Browsed(history[t], k)
<1>2. t \in Kinds /\ history[t] \in Entry /\ m \in Text /\ Type(m) \in Kinds
      /\ (exMode \/ input => Type(m) = "command")
  BY <1>1, Known DEF TypeOK, Entry, ListOf, Kinds, IInv, Headed
<1>3. /\ UNCHANGED <<input, userInput, posted, caret, saved, savedSel>>
      /\ Overtakes \subseteq astray' /\ "unsearched" \in astray' /\ Literal(tc'.value) \subseteq astray'
      /\ astray \subseteq astray'
  BY DEF Browse, document
<1>4. posted = <<>>
  BY <1>3 DEF Overtakes, Good, Parted
<1>5. Clean(tc'.value)
  BY <1>3, LiteralClean DEF Good
<1>6. \/ (\E i \in 0..Len(tc.value) : tc' = Plain(tc.value, i)) /\ m' = m
      \/ TextSet(m, Get(history[t]))
      \/ history[t].values # <<>> /\ TextSet(m, Get(h))
      \/ UNCHANGED <<m, tc>>
  BY Zenon DEF Browse
<1> HIDE DEF t
<1>7. ASSUME NEW text \in Text, TextSet(m, text)
      PROVE  Aligned'
  <2>1. m' = Reset(m, text) /\ SelectsAll(text)
    BY <1>7 DEF TextSet
  <2>2. tc'.value = text
    BY <1>1, <2>1, SelectsType
  <2>3. Clean(text)
    BY <1>5, <2>2
  <2>4. posted' = <<>> /\ (exMode' \/ input' => Type(m) = "command")
    BY <1>2, <1>3, <1>4 DEF Onwards
  <2>5. QED
    BY <1>2, <1>3, <2>1, <2>2, <2>3, <2>4, Given
<1>8. CASE (\E i \in 0..Len(tc.value) : tc' = Plain(tc.value, i)) /\ m' = m
  <2>1. tc'.value = tc.value
    BY <1>8 DEF Plain
  <2>2. QED
    BY <1>3, <1>4, <1>8, <2>1, Unmoved
<1>9. CASE TextSet(m, Get(history[t]))
  BY <1>2, <1>7, <1>9, HistoryType
<1>10. CASE history[t].values # <<>> /\ TextSet(m, Get(h))
  <2>1. h \in Entry
    BY <1>2, <1>10, HistoryType
  <2> HIDE DEF h
  <2>2. Get(h) \in Text
    BY <2>1, HistoryType
  <2>3. QED
    BY <1>7, <1>10, <2>2
<1>11. CASE UNCHANGED <<m, tc>>
  BY <1>3, <1>11, Unmoved
<1>12. QED
  BY <1>6, <1>8, <1>9, <1>10, <1>11

\* The prefixes that the line is opened with.
LEMMA Openings ==
  /\ \A c \in Opens : c \in Text /\ Type(c) \in Kinds /\ (c[1] = ":" => Type(c) = "command")
  /\ <<":">> \in Text /\ Type(<<":">>) = "command" /\ Reset(<<":">>, <<>>) = <<":">>
  /\ <<>> \in Text /\ Clean(<<>>)
<1>1. \A c \in Opens :
        c \in Text /\ c \in {<<":">>, <<":", "!">>, <<"/">>, <<"!">>, <<"^R", "=">>}
  BY Keys, ExCommandAssumption
<1>2. ASSUME NEW x \in {":", "/", "!"}
      PROVE  Type(<<x>>) = (IF x = ":" THEN "command" ELSE IF x = "/" THEN "find" ELSE "escape")
  <2> DEFINE c == <<x>>
  <2>1. c # <<>> /\ c[1] = x
    OBVIOUS
  <2> HIDE DEF c
  <2>2. Type(c) = (IF x = ":" THEN "command" ELSE IF x = "/" THEN "find" ELSE "escape")
    BY <2>1 DEF Type
  <2>3. QED
    BY <2>2 DEF c
<1>3. Type(<<"^R", "=">>) = "calc"
  <2> DEFINE c == <<"^R", "=">>
  <2>1. c # <<>> /\ c[1] = "^R" /\ Len(c) > 1 /\ c[2] = "="
    OBVIOUS
  <2> HIDE DEF c
  <2>2. Type(c) = "calc"
    BY <2>1 DEF Type
  <2>3. QED
    BY <2>2 DEF c
<1>4. Type(<<":">>) = "command" /\ Type(<<"/">>) = "find" /\ Type(<<"!">>) = "escape"
  BY <1>2
<1>5. \A c \in Opens : Type(c) \in Kinds /\ (c[1] = ":" => Type(c) = "command")
  <2> SUFFICES ASSUME NEW c \in Opens
               PROVE  Type(c) \in Kinds /\ (c[1] = ":" => Type(c) = "command")
    OBVIOUS
  <2>1. CASE c = <<":", "!">>
    <3>1. c # <<>> /\ c[1] = ":"
      BY <2>1
    <3>2. Type(c) = "command"
      BY <3>1 DEF Type
    <3>3. QED
      BY <3>2 DEF Kinds
  <2>2. CASE c = <<"^R", "=">>
    BY <1>3, <2>2 DEF Kinds
  <2>3. CASE c \in {<<":">>, <<"/">>, <<"!">>}
    BY <1>4, <2>3 DEF Kinds
  <2>4. QED
    BY <1>1, <2>1, <2>2, <2>3
<1>6. <<>> \in Text /\ Clean(<<>>)
  <2>1. <<>> \in Seq(Char)
    BY EmptySeq
  <2>2. QED
    BY <2>1, Typed
<1>7. Reset(<<":">>, <<>>) = <<":">>
  <2> DEFINE c == <<":">>
  <2>1. c \in Text /\ Type(c) = "command" /\ Len(c) = 1
    BY <1>4, Keys
  <2> HIDE DEF c
  <2>2. Prefixed(c) = 1
    BY <2>1 DEF Prefixed, None
  <2>3. SubSeq(c, 1, Len(c)) = c /\ c \o <<>> = c
    BY <2>1, Halves, ConcatEmptySeq DEF Text
  <2>4. Reset(c, <<>>) = c
    BY <2>1, <2>2, <2>3 DEF Reset
  <2>5. QED
    BY <2>4 DEF c
<1>8. QED
  BY <1>1, <1>4, <1>5, <1>6, <1>7, Keys

\* The line that becomes empty, for lines or for the next command of ex mode.
LEMMA EmptiedStep ==
  ASSUME TypeOK', NEW c \in Text, Type(c) = "command", m' = Reset(c, <<>>),
         tc' = Plain(<<>>, 0), posted' = <<>>
  PROVE  Aligned'
<1>1. <<>> \in Text /\ Clean(<<>>)
  BY Openings
<1>2. tc'.value = <<>> /\ Type(c) \in Kinds
  BY DEF Plain, Kinds
<1>3. QED
  BY <1>1, <1>2, Given

\* Escape, and Return: what goes on is ex mode, with an empty line.
LEMMA AwayStep ==
  ASSUME IInv, TypeOK', Good, Good', Onwards, Escape \/ EnterNothing
  PROVE  Aligned'
<1>1. TypeOK /\ Headed
  BY DEF IInv
<1>2. open' /\ Overtakes \subseteq astray' /\ UNCHANGED <<input, posted>> /\ astray \subseteq astray'
  BY DEF Escape, EnterNothing, Good
<1>3. posted = <<>>
  BY <1>2 DEF Overtakes, Good, Parted
<1>4. CASE Escape
  <2>1. m' = <<":">> /\ tc' = Plain(<<>>, 0)
    BY <1>2, <1>4 DEF Escape, Emptied, Away
  <2>2. QED
    BY <1>2, <1>3, <2>1, Openings, EmptiedStep
<1>5. CASE EnterNothing
  <2>1. /\ Rest(Coerced(m)) = <<>> /\ exMode /\ m' = Reset(Coerced(m), <<>>) /\ tc' = tc
        /\ UNCHANGED <<userInput, caret, saved, savedSel>>
    BY <1>2, <1>5 DEF EnterNothing, Away, document
  <2>2. m \in Text /\ Type(m) \in Kinds /\ Rest(m) \in Text /\ m = Reset(m, Rest(m))
        /\ Type(m) = "command"
    BY <1>1, <2>1, Known DEF IInv
  <2>3. Coerced(m) = m /\ (Rest(m) = <<>> => Reset(m, <<>>) = m)
    <3> DEFINE d == Reset(m, Rest(m))
    <3>1. Coerced(d) = d /\ (Rest(m) = <<>> => Reset(d, <<>>) = d)
      BY <2>2, CoercedShape
    <3> HIDE DEF d
    <3>2. d = m
      BY <2>2 DEF d
    <3>3. QED
      BY <3>1, <3>2
  <2>4. m' = m
    BY <2>1, <2>3
  <2>5. QED
    BY <1>2, <1>3, <2>1, <2>4, Unmoved
<1>6. QED
  BY <1>4, <1>5

\* Return with a text: what goes on is a command that failed, an input mode or ex mode.
LEMMA EnterStep ==
  ASSUME IInv, TypeOK', Good, Good', Onwards, EnterFind \/ ExecFind \/ Exec
  PROVE  Aligned'
<1>1. TypeOK /\ Headed
  BY DEF IInv
<1>2. /\ open' /\ Overtakes \subseteq astray' /\ UNCHANGED <<posted, userInput, saved, savedSel>>
      /\ astray \subseteq astray'
  BY DEF EnterFind, ExecFind, Exec, Good, document
<1>3. posted = <<>>
  BY <1>2 DEF Overtakes, Good, Parted
<1>4. ~ EnterFind
  BY <1>2 DEF EnterFind
<1>5. CASE ExecFind
  <2>1. UNCHANGED <<m, tc, input, caret>>
    BY <1>2, <1>5 DEF ExecFind
  <2>2. QED
    BY <1>2, <1>3, <2>1, Unmoved
<1>6. CASE Exec
  <2>1. UNCHANGED caret
    BY <1>6 DEF Exec, document
  <2>2. \/ Type(m) = "command" /\ m' = Reset(m, <<>>) /\ tc' = Plain(<<>>, 0)
        \/ m' = <<":">> /\ tc' = Plain(<<>>, 0)
        \/ UNCHANGED <<m, tc, input>>
    BY <1>2, <1>6 DEF Exec, Emptied, Stays
  <2>3. m \in Text
    BY <1>1 DEF TypeOK
  <2>4. CASE Type(m) = "command" /\ m' = Reset(m, <<>>) /\ tc' = Plain(<<>>, 0)
    BY <1>2, <1>3, <2>3, <2>4, EmptiedStep
  <2>5. CASE m' = <<":">> /\ tc' = Plain(<<>>, 0)
    BY <1>2, <1>3, <2>5, Openings, EmptiedStep
  <2>6. CASE UNCHANGED <<m, tc, input>>
    BY <1>2, <1>3, <2>1, <2>6, Unmoved
  <2>7. QED
    BY <2>2, <2>4, <2>5, <2>6
<1>7. QED
  BY <1>4, <1>5, <1>6

\* The line is opened with what was given before.
LEMMA OpenStep ==
  ASSUME TypeOK, TypeOK', Good', Open
  PROVE  Aligned'
<1>1. PICK c \in {o \in Opens : exMode => o[1] = ":"}, visual \in BOOLEAN :
        /\ OpenedWith(c, OpenText(c, visual))
        /\ Overtakes \cup Literal(OpenText(c, visual)) \subseteq astray'
  <2>1. PICK c \in {o \in Opens : exMode => o[1] = ":"}, visual \in BOOLEAN,
             start \in Places \cup {At(caret)} :
          /\ OpenedWith(c, OpenText(c, visual))
          /\ astray' = Overtakes \cup Literal(OpenText(c, visual))
                         \cup (IF savedSel' \in {None, start} THEN {} ELSE {"stale"})
    BY Zenon DEF Open
  <2>2. QED
    BY <2>1
<1> DEFINE text == OpenText(c, visual)
<1>2. c \in Text /\ Type(c) \in Kinds /\ (exMode => Type(c) = "command")
  BY Openings
<1>5. text \in Text
  BY OpenTextType
<1>6. OpenedWith(c, text) /\ Overtakes \subseteq astray' /\ Literal(text) \subseteq astray'
  BY <1>1
<1> HIDE DEF text
<1>7. posted' = <<>> /\ ~ userInput' /\ ~ input' /\ exMode' = exMode
  <2>1. posted = <<>>
    BY <1>6 DEF Overtakes, Good, Parted
  <2>2. QED
    BY <2>1 DEF Open, Event
<1>8. Clean(text)
  BY <1>6, LiteralClean DEF Good
<1>9. m' = Reset(c, text) /\ tc'.value = text
  BY <1>2, <1>5, <1>6, OpenedType
<1>10. QED
  BY <1>2, <1>5, <1>7, <1>8, <1>9, Given

\* No step parts the command and what is shown unless it is known to.
LEMMA AlignedStep ==
  ASSUME IInv, TypeOK', Next
  PROVE  Aligned'
<1>1. CASE ~ Good'
  BY <1>1 DEF Aligned, Headed, Agree, Registered, Searched
<1>2. CASE Good' /\ Open
  BY <1>2, OpenStep DEF IInv
<1>3. CASE Good' /\ ~ Open
  <2>1. Onwards
    BY <1>3, StepOnwards
  <2>2. Good
    BY <1>3, <2>1, StillGood
  <2>3. (\E c \in Char : Char_(c)) => Aligned'
    BY <1>3, <2>1, <2>2, CharStep
  <2>4. (\E k \in {"up", "down", "home", "end"} : Browse(k)) => Aligned'
    BY <1>3, <2>1, <2>2, BrowseStep
  <2>5. Move \/ ControlR \/ Left \/ Right \/ Select \/ TimerExpires \/ Refocus => Aligned'
    BY <1>3, <2>1, <2>2, CaretStep
  <2>6. Register \/ Paste => Aligned'
    BY <1>3, <2>1, <2>2, TextStep
  <2>7. Back => Aligned'
    BY <1>3, <2>1, <2>2, BackStep
  <2>8. EnterLine => Aligned'
    BY <1>3, <2>1, <2>2, LineStep
  <2>9. Escape \/ EnterNothing => Aligned'
    BY <1>3, <2>1, <2>2, AwayStep
  <2>10. EnterFind \/ ExecFind \/ Exec => Aligned'
    BY <1>3, <2>1, <2>2, EnterStep
  <2>11. QED
    BY <1>3, <2>3, <2>4, <2>5, <2>6, <2>7, <2>8, <2>9, <2>10, Zenon DEF Next
<1>4. QED
  BY <1>1, <1>2, <1>3

-----------------------------------------------------------------------------
(* What a Return or an Escape leaves.                                      *)

\* The lines that are inserted are those that the command stands for, without the
\* "." and the newline at their end.
LEMMA LinesShape ==
  ASSUME NEW c \in Text, Type(c) = "command", Paired(Rest(c)),
         Len(c) >= 2, c[Len(c)] = "cr", c[Len(c) - 1] = ".", Misreads(c) \cap Parted = {}
  PROVE  Expand(Lines(c)) = SubSeq(Expand(Rest(c)), 1, Len(Expand(Rest(c))) - 2)
<1> DEFINE q == Rest(c)
<1>1. Prefixed(c) = 1 /\ q \in Text
  <2>1. Type(c) \in Kinds
    BY DEF Kinds
  <2>2. QED
    BY <2>1, Shape
<1>2. c[1] = ":" /\ Len(c) \in Nat /\ DOMAIN c = 1..Len(c)
  <2>1. c[1] = ":"
    BY DEF Type, None
  <2>2. QED
    BY <2>1 DEF Text
<1>3. Len(c) > 2
  BY <1>2
<1>4. q = SubSeq(c, 2, Len(c)) /\ Len(q) = Len(c) - 1 /\ Len(q) \in Nat
      /\ \A i \in 1..Len(q) : q[i] = c[i + 1]
  <2>1. q = SubSeq(c, 1 + 1, Len(c)) /\ 1 \in 0..Len(c)
    BY <1>1, <1>2 DEF Rest
  <2>2. Len(SubSeq(c, 1 + 1, Len(c))) = Len(c) - 1
        /\ \A i \in 1..(Len(c) - 1) : SubSeq(c, 1 + 1, Len(c))[i] = c[1 + i]
    BY <2>1, Halves DEF Text
  <2> HIDE DEF q
  <2>3. QED
    BY <1>2, <2>1, <2>2
<1>5. c[Len(c) - 2] # "^R"
  BY <1>3 DEF Misreads, Parted
<1> DEFINE k == Len(q) - 2
           u == SubSeq(q, 1, k)
           v == SubSeq(q, k + 1, Len(q))
<1> HIDE DEF q
<1>6. /\ k \in Nat /\ k \in 0..Len(q) /\ Len(q) = k + 2
      /\ k > 0 => q[k] # "^R"
  <2>1. k \in Nat /\ k \in 0..Len(q) /\ k + 1 = Len(c) - 2 /\ Len(q) = k + 2
    BY <1>2, <1>3, <1>4
  <2>2. k > 0 => k \in 1..Len(q)
    BY <2>1
  <2> HIDE DEF k
  <2>3. QED
    BY <1>4, <1>5, <2>1, <2>2
<1>7. q[k + 1] = "." /\ q[k + 2] = "cr"
  <2>1. k + 1 \in 1..Len(q) /\ k + 2 \in 1..Len(q) /\ (k + 1) + 1 = Len(c) - 1
        /\ (k + 2) + 1 = Len(c)
    BY <1>2, <1>3, <1>4
  <2> HIDE DEF k
  <2>2. q[k + 1] = c[(k + 1) + 1] /\ q[k + 2] = c[(k + 2) + 1]
    BY <1>4, <2>1
  <2>3. QED
    BY <2>1, <2>2
<1>8. Lines(c) = u
  BY <1>2, <1>3, <1>4 DEF Lines
<1>9. /\ u \in Text /\ v \in Text /\ Len(u) = k /\ Len(v) = 2 /\ u \o v = q
      /\ \A i \in 1..k : u[i] = q[i]
      /\ v[1] = q[k + 1] /\ v[2] = q[k + 2]
  <2> HIDE DEF k
  <2>1. /\ u \in Text /\ v \in Text /\ Len(u) = k /\ Len(v) = Len(q) - k /\ u \o v = q
        /\ \A i \in 1..k : u[i] = q[i]
        /\ \A i \in 1..(Len(q) - k) : v[i] = q[k + i]
    BY <1>1, <1>6, Halves DEF Text
  <2> HIDE DEF u, v
  <2>2. Len(q) - k = 2 /\ 1 \in 1..(Len(q) - k) /\ 2 \in 1..(Len(q) - k)
    BY <1>6
  <2>3. QED
    BY <2>1, <2>2
<1> HIDE DEF k, u, v
<1>10. Clean(v)
  <2>1. DOMAIN v = 1..2
    BY <1>9 DEF Text
  <2>2. v[1] = "." /\ v[2] = "cr"
    BY <1>7, <1>9
  <2>3. QED
    BY <2>1, <2>2 DEF Clean
<1>11. Paired(u)
  <2> SUFFICES ASSUME NEW i \in DOMAIN u, u[i] = "^R"
               PROVE  i + 1 \in DOMAIN u /\ u[i + 1] \in Char
    BY DEF Paired
  <2>1. DOMAIN u = 1..k /\ DOMAIN q = 1..Len(q)
    BY <1>1, <1>9 DEF Text
  <2>2. i \in 1..k /\ i \in 1..Len(q) /\ q[i] = "^R"
    BY <1>6, <1>9, <2>1
  <2>3. i + 1 \in 1..Len(q) /\ q[i + 1] \in Char
    BY <2>1, <2>2 DEF Paired, q
  <2>4. i # k
    BY <1>6, <2>2
  <2>5. i + 1 \in 1..k
    BY <1>6, <2>2, <2>4
  <2>6. QED
    BY <1>9, <2>1, <2>3, <2>5
<1> DEFINE e == Expand(u)
<1>12. e \in Text /\ Clean(e)
  BY <1>9, <1>11, CleanExpand, ExpandAppend
<1>13. Expand(q) = e \o v
  BY <1>9, <1>10, <1>12, ExpandBehind
<1> HIDE DEF e
<1>14. SubSeq(e \o v, 1, Len(e)) = e /\ Len(e \o v) - 2 = Len(e)
  <2>1. Len(e \o v) = Len(e) + Len(v) /\ Len(e) \in Nat
    BY <1>9, <1>12, Joined
  <2>2. SubSeq(e \o v, 1, Len(e)) = e
    BY <1>9, <1>12, Apart DEF Text
  <2>3. Len(e \o v) - 2 = Len(e)
    BY <1>9, <2>1
  <2>4. QED
    BY <2>2, <2>3
<1>15. QED
  BY <1>8, <1>13, <1>14 DEF e, q

\* What a Return leaves as the result is what was shown.
LEMMA GivenStep ==
  ASSUME IInv, Next
  PROVE  GivenIsShown'
<1>1. TypeOK /\ Headed /\ Agree /\ Registered
  BY DEF IInv
<1> DEFINE Right_ == /\ done'.what = "exec" => done'.given = done'.shown
                     /\ done'.what = "input" =>
                          LET lines == SubSeq(done'.shown, 1, Len(done'.shown) - 2)
                          IN  \/ done'.given = <<>> /\ lines = <<>>
                              \/ done'.given = Append(lines, "cr")
<1> SUFFICES ASSUME astray' \cap Parted = {}
             PROVE  Right_
  BY DEF GivenIsShown
<1>2. ASSUME NotDone
      PROVE  Right_
  BY <1>2 DEF NotDone, None
<1>3. ASSUME Open \/ Move \/ ControlR \/ Back \/ Paste \/ Left \/ Right \/ Select
             \/ Register \/ TimerExpires \/ Refocus
      PROVE  Right_
  <2>1. NotDone
    BY <1>3 DEF Open, Move, ControlR, Back, Paste, Left, Right, Select, Register, TimerExpires,
                Refocus
  <2>2. QED
    BY <1>2, <2>1
<1>4. ASSUME NEW c \in Char, Char_(c)
      PROVE  Right_
  <2>1. NotDone
    BY <1>4 DEF Char_
  <2>2. QED
    BY <1>2, <2>1
<1>5. ASSUME NEW k \in {"up", "down", "home", "end"}, Browse(k)
      PROVE  Right_
  <2>1. NotDone
    BY <1>5 DEF Browse
  <2>2. QED
    BY <1>2, <2>1
<1>6. ASSUME Escape \/ EnterNothing \/ EnterFind
      PROVE  Right_
  <2>1. done'.what \in {"escape", "nothing", "find"}
    BY <1>6 DEF Escape, EnterNothing, EnterFind, Ended
  <2>2. QED
    BY <2>1
<1>7. ASSUME open, astray \subseteq astray', Overtakes \subseteq astray'
      PROVE  Good /\ posted = <<>>
  BY <1>7 DEF Good, Overtakes, Parted
<1>8. CASE ExecFind
  <2>1. open /\ astray \subseteq astray' /\ Overtakes \subseteq astray' /\ ~ userInput /\ Rest(m) # <<>>
    BY <1>8 DEF ExecFind, Key
  <2>2. Good /\ posted = <<>>
    BY <1>7, <2>1
  <2>3. ~ HasRegister
    BY <1>1, <2>1, <2>2 DEF Registered
  <2>4. Rest(m) \in Text /\ Clean(Rest(m)) /\ tc.value = Rest(m)
    BY <1>1, <2>2, <2>3, Known DEF Agree
  <2>5. Found = Rest(m)
    <3> DEFINE r == Rest(m)
    <3>1. r \in Text /\ r # <<>> /\ Clean(r)
      BY <2>1, <2>4
    <3> HIDE DEF r
    <3>2. 1 \in DOMAIN r
      <4>1. Len(r) \in Nat /\ Len(r) # 0 /\ DOMAIN r = 1..Len(r)
        BY <3>1, EmptySeq DEF Text
      <4>2. QED
        BY <4>1
    <3>3. r[1] # "^R"
      BY <3>1, <3>2 DEF Clean
    <3>4. QED
      BY <3>3 DEF Found, r
  <2>6. CASE NotDone
    BY <1>2, <2>6
  <2>7. CASE Ended("exec", Found)
    BY <2>4, <2>5, <2>7 DEF Ended
  <2>8. QED
    BY <1>8, <2>6, <2>7 DEF ExecFind
<1>9. CASE Exec
  <2>1. open /\ astray \subseteq astray' /\ Overtakes \subseteq astray'
    BY <1>9 DEF Exec, Key
  <2>2. Good /\ posted = <<>>
    BY <1>7, <2>1
  <2>3. tc.value = Expand(Rest(m))
    BY <1>1, <2>2 DEF Agree
  <2>4. CASE NotDone
    BY <1>2, <2>4
  <2>5. CASE Ended("exec", Expand(Rest(m)))
    BY <2>3, <2>5 DEF Ended
  <2>6. QED
    BY <1>9, <2>4, <2>5 DEF Exec
<1>10. CASE EnterLine
  <2> DEFINE c == Coerced(Entered)
             finished == Len(c) >= 2 /\ c[Len(c)] = "cr" /\ c[Len(c) - 1] = "."
             s == <<"cr">>
             q == Put(s)
  <2>1. open /\ input /\ Entered # Thrown
    BY <1>10 DEF EnterLine, Key
  <2>2. \/ done'.what = "nothing"
        \/ /\ finished
           /\ done' = [what |-> "input", given |-> Inserted(c), shown |-> Newlined]
           /\ astray \cup Overtakes \cup Shifts \cup Misreads(c) \subseteq astray'
        \/ NotDone
    BY <1>10 DEF EnterLine, Ended
  <2>3. CASE done'.what = "nothing"
    BY <2>3
  <2>4. CASE NotDone
    BY <1>2, <2>4
  <2>5. CASE /\ finished
             /\ done' = [what |-> "input", given |-> Inserted(c), shown |-> Newlined]
             /\ astray \cup Overtakes \cup Shifts \cup Misreads(c) \subseteq astray'
    <3>1. Good /\ posted = <<>> /\ (HasRegister => AtEnd) /\ Misreads(c) \cap Parted = {}
      <4> HIDE DEF c
      <4>1. QED
        BY <1>7, <2>1, <2>5 DEF Shifts, Parted
    <3>2. s \in Text /\ Clean(s)
      BY Newline
    <3>3. /\ Handle(m, s) = Reset(m, q) /\ q \in Text /\ Paired(q)
          /\ Expand(q) = Replaced(tc.value, tc.ip, tc.ip, s)
      BY <1>1, <3>1, <3>2, HandleShape
    <3>4. PICK p \in Text : p # <<>> /\ Entered = Reset(m, p) /\ c = Entered /\ Rest(Entered) = p
      BY <1>1, <2>1, <3>1, EnteredShape
    <3>5. m \in Text /\ Type(m) = "command" /\ Type(m) \in Kinds
      BY <1>1, <2>1, <3>1, Known DEF Headed
    <3>6. c = Reset(m, q)
      BY <3>3, <3>4 DEF Entered
    <3>7. c \in Text /\ Type(c) = "command" /\ Rest(c) = q
      <4> HIDE DEF c, q
      <4>1. QED
        BY <3>3, <3>5, <3>6, ResetShape
    <3>8. Newlined = Expand(q)
      <4>1. tc.ip \in Nat
        BY <1>1, ControlType DEF InControl
      <4>2. Newlined = SubSeq(tc.value, 1, (tc.ip + 1) - 1) \o s
                         \o SubSeq(tc.value, tc.ip + 1, Len(tc.value))
        BY DEF Newlined, InsertAt
      <4>3. (tc.ip + 1) - 1 = tc.ip
        BY <4>1
      <4> HIDE DEF q, s
      <4>4. QED
        BY <3>3, <4>2, <4>3 DEF Replaced
    <3> HIDE DEF c, q
    <3>9. Expand(Lines(c)) = SubSeq(Expand(q), 1, Len(Expand(q)) - 2)
      BY <2>5, <3>1, <3>3, <3>7, LinesShape
    <3> DEFINE lines == SubSeq(Newlined, 1, Len(Newlined) - 2)
    <3>10. Inserted(c) = IF Lines(c) = <<>> THEN <<>> ELSE Append(lines, "cr")
      BY <3>8, <3>9 DEF Inserted
    <3>11. CASE Lines(c) = <<>>
      <4>1. lines = <<>>
        BY <3>8, <3>9, <3>11, ExpandAppend
      <4>2. Inserted(c) = <<>>
        BY <3>11 DEF Inserted
      <4> HIDE DEF lines
      <4>3. QED
        BY <2>5, <4>1, <4>2 DEF lines
    <3>12. CASE Lines(c) # <<>>
      <4>1. Inserted(c) = Append(lines, "cr")
        BY <3>10, <3>12
      <4> HIDE DEF lines
      <4>2. QED
        BY <2>5, <4>1 DEF lines
    <3>13. QED
      BY <3>11, <3>12
  <2>6. QED
    BY <2>2, <2>3, <2>4, <2>5
<1> HIDE DEF Right_
<1>11. QED
  BY <1>3, <1>4, <1>5, <1>6, <1>8, <1>9, <1>10, Zenon DEF Next

\* A find that is accepted, and an Escape, leave the caret where they should.
LEMMA PlaceStep ==
  ASSUME IInv, Next
  PROVE  FindIsSearched' /\ EscapeReturns'
<1>1. TypeOK /\ Headed /\ Agree /\ Registered /\ Searched /\ Placed
  BY DEF IInv
<1>2. ASSUME done'.what \notin {"find", "escape"}
      PROVE  FindIsSearched' /\ EscapeReturns'
  BY <1>2 DEF FindIsSearched, EscapeReturns
<1>3. ASSUME NotDone
      PROVE  FindIsSearched' /\ EscapeReturns'
  BY <1>2, <1>3 DEF NotDone, None
<1>4. ASSUME Open \/ Move \/ ControlR \/ Back \/ Paste \/ Left \/ Right \/ Select
             \/ Register \/ TimerExpires \/ Refocus
      PROVE  FindIsSearched' /\ EscapeReturns'
  <2>1. NotDone
    BY <1>4 DEF Open, Move, ControlR, Back, Paste, Left, Right, Select, Register, TimerExpires,
                Refocus
  <2>2. QED
    BY <1>3, <2>1
<1>5. ASSUME NEW c \in Char, Char_(c)
      PROVE  FindIsSearched' /\ EscapeReturns'
  <2>1. NotDone
    BY <1>5 DEF Char_
  <2>2. QED
    BY <1>3, <2>1
<1>6. ASSUME NEW k \in {"up", "down", "home", "end"}, Browse(k)
      PROVE  FindIsSearched' /\ EscapeReturns'
  <2>1. NotDone
    BY <1>6 DEF Browse
  <2>2. QED
    BY <1>3, <2>1
<1>7. ASSUME EnterNothing \/ EnterLine \/ ExecFind \/ Exec
      PROVE  FindIsSearched' /\ EscapeReturns'
  <2>1. NotDone \/ done'.what \in {"nothing", "input", "exec"}
    BY <1>7 DEF EnterNothing, EnterLine, ExecFind, Exec, Ended
  <2>2. QED
    BY <1>2, <1>3, <2>1
<1>8. ASSUME Escape
      PROVE  FindIsSearched' /\ EscapeReturns'
  <2>1. done'.what = "escape" /\ open /\ astray \subseteq astray' /\ UNCHANGED <<exMode, origin>>
    BY <1>8 DEF Escape, Ended, Key, Event
  <2>2. ~ exMode => caret' = [place |-> Restored, text |-> <<>>]
    BY <1>8 DEF Escape, EscapedTo
  <2>3. astray' \cap {"refocused", "stale"} = {} => Restored = origin
    BY <1>1, <2>1 DEF Placed
  <2>4. QED
    BY <2>1, <2>2, <2>3 DEF FindIsSearched, EscapeReturns
<1>9. ASSUME EnterFind
      PROVE  FindIsSearched' /\ EscapeReturns'
  <2>1. /\ done' = [what |-> "find", given |-> Rest(m), shown |-> tc.value]
        /\ findString' = Rest(m) /\ caret' = caret /\ origin' = origin
        /\ open /\ Type(m) = "find" /\ userInput
        /\ astray \subseteq astray' /\ Overtakes \subseteq astray'
    BY <1>9 DEF EnterFind, Ended, Key, Event
  <2>2. EscapeReturns'
    BY <2>1 DEF EscapeReturns
  <2>3. ASSUME astray' \cap (Parted \cup {"unsearched", "register", "refocused", "stale"}) = {}
        PROVE  caret = [place |-> origin, text |-> tc.value] /\ Rest(m) = tc.value
    <3>1. Good /\ posted = <<>>
      BY <2>1, <2>3 DEF Good, Overtakes, Parted
    <3>2. astray \cap {"unsearched", "register", "refocused"} = {}
          /\ astray \cap {"refocused", "stale"} = {}
      BY <2>1, <2>3
    <3>3. caret = [place |-> Restored, text |-> tc.value]
      BY <1>1, <2>1, <3>1, <3>2 DEF Searched
    <3>4. Restored = origin
      BY <1>1, <2>1, <3>2 DEF Placed
    <3>5. ~ HasRegister
      BY <1>1, <2>1, <3>1, <3>2 DEF Registered
    <3>6. Rest(m) = tc.value
      BY <1>1, <3>1, <3>5, Known DEF Agree
    <3>7. QED
      BY <3>3, <3>4, <3>6
  <2>4. FindIsSearched'
    BY <2>1, <2>3 DEF FindIsSearched
  <2>5. QED
    BY <2>2, <2>4
<1>10. QED
  BY <1>4, <1>5, <1>6, <1>7, <1>8, <1>9, Zenon DEF Next

-----------------------------------------------------------------------------
\* Initially nothing is shown.
LEMMA InitInv ==
  ASSUME Init
  PROVE  IInv /\ GivenIsShown /\ FindIsSearched /\ EscapeReturns
<1>1. TypeOK
  BY InitType
<1>2. open = FALSE /\ controlR = FALSE /\ done = [what |-> None, given |-> <<>>, shown |-> <<>>]
  BY DEF Init
<1>3. Headed /\ Agree /\ Registered /\ Pending /\ Searched /\ Placed
  BY <1>2 DEF Headed, Agree, Registered, Pending, Searched, Placed, Good
<1>4. done.what = "none"
  BY <1>2 DEF None
<1>5. QED
  BY <1>1, <1>3, <1>4 DEF IInv, GivenIsShown, FindIsSearched, EscapeReturns

\* What holds between two events stays when nothing happens.
LEMMA StutterInv ==
  ASSUME UNCHANGED vars
  PROVE  /\ IInv => IInv'
         /\ GivenIsShown => GivenIsShown'
         /\ FindIsSearched => FindIsSearched'
         /\ EscapeReturns => EscapeReturns'
<1>1. UNCHANGED <<exMode, open, m, tc, input, userInput, controlR, allSelected, timer, posted>>
      /\ UNCHANGED <<caret, saved, savedSel, findString, history, done, origin, astray, n>>
  BY DEF vars, document
<1>2. TypeOK => TypeOK'
  BY NextType
<1>3. (Headed => Headed') /\ (Pending => Pending')
  BY <1>1 DEF Headed, Pending, Good, Type
<1>4. Agree => Agree'
  <2>1. Rest(m)' = Rest(m)
    BY <1>1 DEF Rest, Prefixed, Type
  <2>2. Paired(Rest(m))' = Paired(Rest(m)) /\ Expand(Rest(m))' = Expand(Rest(m))
    BY <2>1 DEF Paired, Expand, Expansion, Named
  <2>3. Written(Head(posted))' = Written(Head(posted))
    BY <1>1 DEF Written, Plain, Selected
  <2>4. QED
    BY <1>1, <2>2, <2>3 DEF Agree, Good
<1>5. (Registered => Registered') /\ (Searched => Searched') /\ (Placed => Placed')
  BY <1>1 DEF Registered, Searched, Placed, Good, HasRegister, Restored, Type
<1>6. /\ GivenIsShown => GivenIsShown'
      /\ FindIsSearched => FindIsSearched'
      /\ EscapeReturns => EscapeReturns'
  BY <1>1 DEF GivenIsShown, FindIsSearched, EscapeReturns
<1>7. QED
  BY <1>2, <1>3, <1>4, <1>5, <1>6 DEF IInv

\* The invariant is kept by each event.
LEMMA NextInv ==
  ASSUME IInv, Next
  PROVE  IInv'
<1>1. TypeOK'
  BY NextType DEF IInv
<1>2. Aligned'
  BY <1>1, AlignedStep
<1>3. Pending' /\ Placed'
  BY PendingStep, PlacedStep DEF IInv
<1>4. QED
  BY <1>1, <1>2, <1>3 DEF IInv, Aligned

\* While nothing is known to have parted them, the command is behind its prefix what
\* the control shows, but for the names of registers; a name is followed by its
\* contents, a find that is typed has been searched, and the saved place is the one
\* where the caret was, or the start of what was selected in visual mode.
THEOREM InductiveInvariant == Spec => []IInv
<1>1. Init => IInv
  BY InitInv
<1>2. IInv /\ [Next]_vars => IInv'
  BY NextInv, StutterInv
<1>3. QED
  BY <1>1, <1>2, PTL DEF Spec

\* What the line shows is the command that Return gives: the keys of handle and the
\* control's own edits change the two in the same way.
THEOREM ShownIsCommandAlways == Spec => []ShownIsCommand
<1>1. IInv => ShownIsCommand
  BY DEF IInv, Agree, Good, ShownIsCommand
<1>2. QED
  BY <1>1, InductiveInvariant, PTL

\* What is executed, searched or inserted is what the line showed when Return was given;
\* what is inserted has one end of line more.
THEOREM GivenIsShownAlways == Spec => []GivenIsShown
<1>1. Init => GivenIsShown
  BY InitInv
<1>2. IInv /\ GivenIsShown /\ [Next]_vars => GivenIsShown'
  BY GivenStep, StutterInv
<1>3. QED
  BY <1>1, <1>2, InductiveInvariant, PTL DEF Spec

\* A find that is accepted has put the caret at the text that was shown, searched from
\* where the bar was opened, or from the start of what was selected in visual mode.
THEOREM FindIsSearchedAlways == Spec => []FindIsSearched
<1>1. Init => FindIsSearched
  BY InitInv
<1>2. IInv /\ FindIsSearched /\ [Next]_vars => FindIsSearched'
  BY PlaceStep, StutterInv
<1>3. QED
  BY <1>1, <1>2, InductiveInvariant, PTL DEF Spec

\* Escape brings the caret back to where it was when the bar was opened, or to the start
\* of what was selected in visual mode.
THEOREM EscapeReturnsAlways == Spec => []EscapeReturns
<1>1. Init => EscapeReturns
  BY InitInv
<1>2. IInv /\ EscapeReturns /\ [Next]_vars => EscapeReturns'
  BY PlaceStep, StutterInv
<1>3. QED
  BY <1>1, <1>2, InductiveInvariant, PTL DEF Spec

================================================================================
