---------------------------- MODULE CodecsProofs ----------------------------
(***************************************************************************)
(* Lemmas about the operators of Codecs: what their results are made of,   *)
(* which of them can be computed piece by piece, and which undo which.     *)
(***************************************************************************)
EXTENDS Codecs, Inductions

\* A number that is one of two, and the least of two.
LEMMA LeastOfTwo ==
    ASSUME NEW m \in Nat, NEW n \in Nat
    PROVE  /\ Min({m, n}) \in {m, n}
           /\ Min({m, n}) <= m /\ Min({m, n}) <= n
  <1> DEFINE S == {m, n}
  <1>1. \E x \in S : \A y \in S : x <= y
    <2>1. S \subseteq Nat /\ S # {}
      OBVIOUS
    <2> HIDE DEF S
    <2> QED
      BY <2>1, LeastNatural
  <1>2. Min(S) \in S /\ \A y \in S : Min(S) <= y
    <2> HIDE DEF S
    <2> QED
      BY <1>1 DEF Min
  <1> QED
    BY <1>2

\* A set of numbers up to a bound has a greatest one.
LEMMA Greatest ==
    ASSUME NEW n \in Nat, NEW S, S \subseteq 0 .. n, S # {}
    PROVE  Max(S) \in S /\ \A y \in S : y <= Max(S)
  <1> DEFINE T == {n - x : x \in S}
  <1>1. T \subseteq Nat /\ T # {}
    <2>1. ASSUME NEW x \in S PROVE n - x \in Nat
      OBVIOUS
    <2> QED
      BY <2>1
  <1>2. PICK t \in T : \A y \in T : t <= y
    <2> HIDE DEF T
    <2> QED
      BY <1>1, LeastNatural
  <1>3. PICK x \in S : t = n - x
    BY <1>2
  <1>4. ASSUME NEW y \in S PROVE x >= y
    <2>1. n - y \in T
      OBVIOUS
    <2>2. t <= n - y
      BY <1>2, <2>1
    <2> QED
      BY <1>3, <2>2
  <1> QED
    BY <1>4 DEF Max
-----------------------------------------------------------------------------
\* What two sequences put together have where.
LEMMA ConcatElements ==
    ASSUME NEW S, NEW s \in Seq(S), NEW t \in Seq(S)
    PROVE  /\ s \o t \in Seq(S) /\ Len(s \o t) = Len(s) + Len(t)
           /\ \A i \in 1 .. Len(s) : (s \o t)[i] = s[i]
           /\ \A j \in 1 .. Len(t) : (s \o t)[Len(s) + j] = t[j]
  <1> DEFINE d == s \o t
  <1>1. /\ d \in Seq(S) /\ Len(d) = Len(s) + Len(t) /\ Len(s) \in Nat /\ Len(t) \in Nat
        /\ \A i \in 1 .. Len(s) + Len(t) : d[i] = IF i <= Len(s) THEN s[i] ELSE t[i - Len(s)]
    BY ConcatProperties, LenProperties
  <1> HIDE DEF d
  <1>2. ASSUME NEW j \in 1 .. Len(t) PROVE d[Len(s) + j] = t[j]
    <2>1. /\ Len(s) + j \in 1 .. Len(s) + Len(t) /\ ~(Len(s) + j <= Len(s))
          /\ (Len(s) + j) - Len(s) = j
      BY <1>1
    <2>2. d[Len(s) + j] = t[(Len(s) + j) - Len(s)]
      BY <1>1, <2>1
    <2> QED
      BY <2>1, <2>2
  <1>3. ASSUME NEW i \in 1 .. Len(s) PROVE d[i] = s[i]
    BY <1>1
  <1> QED
    BY <1>1, <1>2, <1>3 DEF d

\* Sequences of numbers can be put together in any order.
LEMMA Associative == \A s, t, u \in Seq(Nat) : (s \o t) \o u = s \o (t \o u)
  BY ConcatAssociative, SMTT(30)

LEMMA Regrouped ==
    \A s, t, u, v \in Seq(Nat) : s \o ((t \o u) \o v) = (s \o t) \o (u \o v)
  <1> SUFFICES ASSUME NEW s \in Seq(Nat), NEW t \in Seq(Nat), NEW u \in Seq(Nat), NEW v \in Seq(Nat)
               PROVE  s \o ((t \o u) \o v) = (s \o t) \o (u \o v)
    OBVIOUS
  <1>1. (t \o u) \o v = t \o (u \o v)
    BY Associative, ZenonT(60)
  <1>2. u \o v \in Seq(Nat)
    BY ConcatProperties
  <1>3. \A w \in Seq(Nat) : (s \o t) \o w = s \o (t \o w)
    BY Associative, Zenon
  <1> QED
    BY <1>1, <1>2, <1>3, Zenon

\* What gives nothing together are two empty sequences.
LEMMA ConcatIsEmpty ==
    ASSUME NEW S, NEW s \in Seq(S), NEW t \in Seq(S), s \o t = <<>>
    PROVE  s = <<>> /\ t = <<>>
  <1>1. Len(s \o t) = Len(s) + Len(t) /\ Len(s) \in Nat /\ Len(t) \in Nat
    BY ConcatProperties, LenProperties
  <1>2. Len(s \o t) = 0
    BY EmptySeq, Zenon
  <1>3. Len(s) = 0 /\ Len(t) = 0
    BY <1>1, <1>2
  <1> QED
    BY <1>3, EmptySeq
-----------------------------------------------------------------------------
SumStep(h, b) == (3 * h + b) % 4001

LEMMA SumStepType ==
    ASSUME NEW h \in Nat, NEW b \in Nat
    PROVE  SumStep(h, b) \in Nat
  BY DEF SumStep

\* A sum is a number, and neither a header nor a unit.
LEMMA SumFacts ==
    ASSUME NEW s \in Seq(Nat)
    PROVE  Sum(s) \in Nat /\ Sum(s) > Header /\ ~IsUnit(Sum(s))
  <1> DEFINE D == [a \in Nat \X Nat |-> SumStep(a[1], a[2])]
             Def(g) == [i \in 0 .. Len(s) |-> IF i = 0 THEN 1
                                              ELSE (3 * g[i - 1] + s[i]) % 4001]
             h == CHOOSE g : g = Def(g)
  <1>0. Len(s) \in Nat
    OBVIOUS
  <1>1. D \in Steps(Nat, Nat)
    <2>1. ASSUME NEW a \in Nat \X Nat PROVE SumStep(a[1], a[2]) \in Nat
      BY SumStepType
    <2> QED
      BY <2>1 DEF Steps
  <1>2. PICK f : f \in Runs(Nat, D, 1, s)
    <2> HIDE DEF D
    <2> QED
      BY <1>1, Iteration
  <1>3. /\ f \in [0 .. Len(s) -> Nat] /\ f[0] = 1
        /\ \A i \in 1 .. Len(s) : f[i] = D[<<f[i - 1], s[i]>>]
    <2> HIDE DEF D
    <2> QED
      BY <1>2 DEF Runs
  <1>4. ASSUME NEW i \in 1 .. Len(s) PROVE f[i] = (3 * f[i - 1] + s[i]) % 4001
    <2>1. i - 1 \in 0 .. Len(s) /\ f[i - 1] \in Nat /\ s[i] \in Nat
      BY <1>3, ElementOfSeq, SMTT(30)
    <2>2. D[<<f[i - 1], s[i]>>] = SumStep(f[i - 1], s[i])
      BY <2>1
    <2>3. SumStep(f[i - 1], s[i]) = (3 * f[i - 1] + s[i]) % 4001
      BY DEF SumStep
    <2> HIDE DEF D
    <2> QED
      BY <1>3, <2>2, <2>3
  <1>5. f = Def(f)
    BY <1>0, <1>3, <1>4
  <1>6. h = Def(h)
    <2> HIDE DEF Def
    <2> QED
      BY <1>5
  <1>7. \A i \in 0 .. Len(s) : h[i] \in Nat
    <2> DEFINE S == {i \in 0 .. Len(s) : h[i] \in Nat}
    <2>1. 0 \in S
      <3> HIDE DEF h
      <3> QED
        BY <1>0, <1>6
    <2>2. ASSUME NEW n \in 0 .. Len(s) - 1, n \in S PROVE n + 1 \in S
      <3>1. h[n + 1] = (3 * h[n] + s[n + 1]) % 4001
        <4> HIDE DEF h
        <4> QED
          BY <1>6
      <3>2. h[n] \in Nat /\ s[n + 1] \in Nat
        BY <2>2, ElementOfSeq
      <3>3. h[n + 1] \in Nat
        <4>1. SumStep(h[n], s[n + 1]) \in Nat
          <5> HIDE DEF h
          <5> QED
            BY <3>2, SumStepType
        <4>2. SumStep(h[n], s[n + 1]) = h[n + 1]
          <5> HIDE DEF h
          <5> QED
            BY <3>1 DEF SumStep
        <4> HIDE DEF h
        <4> QED
          BY <4>1, <4>2
      <3> QED
        BY <3>3
    <2>3. \A i \in 0 .. Len(s) : i \in S
      <3> HIDE DEF S
      <3> QED
        BY <1>0, <2>1, <2>2, InductionUpTo
    <2> QED
      BY <2>3
  <1>8. Sum(s) = Header + 1 + h[Len(s)]
    BY DEF Sum
  <1>9. h[Len(s)] \in Nat
    BY <1>0, <1>7
  <1> HIDE DEF h
  <1> QED
    BY <1>8, <1>9 DEF Header, IsUnit
-----------------------------------------------------------------------------
(* What is in a stream *)

\* A unit stands for numbers.
LEMMA ExpandedType ==
    ASSUME NEW u \in Nat
    PROVE  /\ Times(u) \in Nat /\ ByteOf(u) \in Bytes
           /\ Expanded(u) \in Seq(Nat) /\ Len(Expanded(u)) = Times(u)
  BY DEF Expanded, Times, ByteOf, Bytes

ContentRuns(s) ==
    {f \in [0 .. Len(s) -> Seq(Nat)] :
        f[0] = <<>> /\ \A i \in 1 .. Len(s) : f[i] = f[i - 1] \o Expanded(s[i])}

\* The content is what the definition says, one unit after the other.
LEMMA ContentIs ==
    ASSUME NEW s \in Seq(Nat), NEW f \in ContentRuns(s)
    PROVE  Content(s) = f[Len(s)]
  <1> DEFINE Def(g) == [i \in 0 .. Len(s) |-> IF i = 0 THEN <<>>
                                              ELSE g[i - 1] \o Expanded(s[i])]
             c == CHOOSE g : g = Def(g)
  <1>0. Len(s) \in Nat
    OBVIOUS
  <1>01. /\ f \in [0 .. Len(s) -> Seq(Nat)] /\ f[0] = <<>>
         /\ \A i \in 1 .. Len(s) : f[i] = f[i - 1] \o Expanded(s[i])
    BY DEF ContentRuns
  <1>1. f = Def(f)
    <2>1. ASSUME NEW i \in 0 .. Len(s) PROVE f[i] = Def(f)[i]
      <3>1. CASE i = 0
        BY <1>01, <3>1
      <3>2. CASE i # 0
        <4>1. i \in 1 .. Len(s)
          BY <1>0, <3>2
        <4>2. f[i] = f[i - 1] \o Expanded(s[i])
          BY <1>01, <4>1
        <4>3. Def(f)[i] = f[i - 1] \o Expanded(s[i])
          BY <3>2
        <4> QED
          BY <4>2, <4>3
      <3> QED
        BY <3>1, <3>2
    <2> HIDE DEF Def
    <2>2. DOMAIN Def(f) = 0 .. Len(s) /\ Def(f) = [i \in 0 .. Len(s) |-> Def(f)[i]]
      BY DEF Def
    <2> QED
      BY <1>01, <2>1, <2>2
  <1>2. c = Def(c)
    <2> HIDE DEF Def
    <2> QED
      BY <1>1
  <1>3. \A i \in 0 .. Len(s) : c[i] = f[i]
    <2> DEFINE S == {i \in 0 .. Len(s) : c[i] = f[i]}
    <2>1. 0 \in S
      <3> HIDE DEF c
      <3> QED
        BY <1>0, <1>01, <1>2
    <2>2. ASSUME NEW n \in 0 .. Len(s) - 1, n \in S PROVE n + 1 \in S
      <3>1. c[n + 1] = c[n] \o Expanded(s[n + 1])
        <4> HIDE DEF c
        <4> QED
          BY <1>2
      <3>2. f[n + 1] = f[n] \o Expanded(s[n + 1])
        <4>1. n + 1 \in 1 .. Len(s) /\ (n + 1) - 1 = n
          BY <1>0
        <4> HIDE DEF c
        <4> QED
          BY <1>01, <4>1
      <3>3. c[n] = f[n]
        BY <2>2
      <3>4. n + 1 \in 0 .. Len(s) /\ c[n + 1] = f[n + 1]
        <4> HIDE DEF c
        <4> QED
          BY <1>0, <3>1, <3>2, <3>3
      <3> QED
        BY <3>4
    <2>3. \A i \in 0 .. Len(s) : i \in S
      <3> HIDE DEF S
      <3> QED
        BY <1>0, <2>1, <2>2, InductionUpTo
    <2> QED
      BY <2>3
  <1>4. Content(s) = c[Len(s)]
    BY DEF Content
  <1> HIDE DEF c
  <1> QED
    BY <1>0, <1>3, <1>4

\* There is a content.
LEMMA ContentIterates ==
    ASSUME NEW s \in Seq(Nat)
    PROVE  ContentRuns(s) # {}
  <1> DEFINE A == Seq(Nat)
             D == [a \in A \X Nat |-> a[1] \o Expanded(a[2])]
  <1>1. D \in Steps(A, Nat)
    <2>1. ASSUME NEW a \in A \X Nat PROVE a[1] \o Expanded(a[2]) \in A
      BY ExpandedType, ConcatProperties
    <2> HIDE DEF A
    <2> QED
      BY <2>1 DEF Steps
  <1>2. <<>> \in A
    OBVIOUS
  <1>3. PICK f : f \in Runs(A, D, <<>>, s)
    <2> HIDE DEF A, D
    <2> QED
      BY <1>1, <1>2, Iteration
  <1>4. /\ f \in [0 .. Len(s) -> A] /\ f[0] = <<>>
        /\ \A i \in 1 .. Len(s) : f[i] = D[<<f[i - 1], s[i]>>]
    <2> HIDE DEF A, D
    <2> QED
      BY <1>3 DEF Runs
  <1>5. ASSUME NEW i \in 1 .. Len(s) PROVE f[i] = f[i - 1] \o Expanded(s[i])
    <2>1. i - 1 \in 0 .. Len(s) /\ f[i - 1] \in A /\ s[i] \in Nat
      <3> HIDE DEF A
      <3> QED
        BY <1>4, ElementOfSeq, SMTT(30)
    <2> HIDE DEF A
    <2> QED
      BY <1>4, <2>1
  <1> QED
    BY <1>4, <1>5 DEF ContentRuns

\* Nothing is in no units, and each unit adds what it stands for.
LEMMA ContentSteps ==
    ASSUME NEW s \in Seq(Nat), NEW u \in Nat
    PROVE  /\ Content(<<>>) = <<>>
           /\ Content(s) \in Seq(Nat)
           /\ Content(Append(s, u)) = Content(s) \o Expanded(u)
  <1> DEFINE q == Append(s, u)
             e == <<>>
  <1>0. e \in Seq(Nat) /\ Len(e) = 0
    OBVIOUS
  <1>1. /\ q \in Seq(Nat) /\ Len(q) = Len(s) + 1 /\ Len(s) \in Nat
        /\ \A i \in 1 .. Len(s) : q[i] = s[i]
        /\ q[Len(q)] = u
    BY AppendProperties, LenProperties
  <1> HIDE DEF q, e
  <1>2. Content(e) = <<>>
    <2>1. PICK f : f \in ContentRuns(e)
      BY <1>0, ContentIterates
    <2> QED
      BY <1>0, <2>1, ContentIs DEF ContentRuns
  <1>3. PICK f : f \in ContentRuns(q)
    BY <1>1, ContentIterates
  <1>4. Content(q) = f[Len(q)]
    BY <1>1, <1>3, ContentIs
  <1>5. /\ f \in [0 .. Len(q) -> Seq(Nat)] /\ f[0] = <<>>
        /\ \A i \in 1 .. Len(q) : f[i] = f[i - 1] \o Expanded(q[i])
    BY <1>3 DEF ContentRuns
  <1> DEFINE g == [i \in 0 .. Len(s) |-> f[i]]
  <1>6. g \in ContentRuns(s)
    <2>1. g \in [0 .. Len(s) -> Seq(Nat)] /\ g[0] = <<>>
      BY <1>1, <1>5
    <2>2. ASSUME NEW i \in 1 .. Len(s) PROVE g[i] = g[i - 1] \o Expanded(s[i])
      <3>1. q[i] = s[i] /\ i \in 1 .. Len(q) /\ g[i] = f[i] /\ g[i - 1] = f[i - 1]
        BY <1>1
      <3> QED
        BY <1>5, <3>1
    <2> HIDE DEF g
    <2> QED
      BY <2>1, <2>2 DEF ContentRuns
  <1>7. Content(s) = g[Len(s)]
    <2> HIDE DEF g
    <2> QED
      BY <1>6, ContentIs
  <1>8. g[Len(s)] = f[Len(s)] /\ f[Len(s)] \in Seq(Nat) /\ Len(q) \in 1 .. Len(q)
    BY <1>1, <1>5
  <1>9. f[Len(q)] = f[Len(s)] \o Expanded(u)
    <2>1. f[Len(q)] = f[Len(q) - 1] \o Expanded(q[Len(q)]) /\ Len(q) - 1 = Len(s)
      <3>1. Len(q) - 1 = Len(s)
        BY <1>1
      <3> QED
        BY <1>5, <1>8, <3>1
    <2> QED
      BY <1>1, <2>1
  <1> HIDE DEF g
  <1> QED
    BY <1>2, <1>4, <1>7, <1>8, <1>9 DEF q, e
-----------------------------------------------------------------------------
(* base16 *)

\* Two digits for a byte.
LEMMA Base16EncodeFacts ==
    ASSUME NEW s \in Seq(Nat)
    PROVE  /\ Base16Encode(s) \in Seq(Nat) /\ Len(Base16Encode(s)) = 2 * Len(s)
           /\ \A i \in 1 .. 2 * Len(s) :
                  /\ (i + 1) \div 2 \in 1 .. Len(s)
                  /\ Base16Encode(s)[i] = IF i % 2 = 1 THEN s[(i + 1) \div 2] \div 16
                                          ELSE s[(i + 1) \div 2] % 16
  <1>1. Len(s) \in Nat
    OBVIOUS
  <1>2. ASSUME NEW i \in 1 .. 2 * Len(s) PROVE (i + 1) \div 2 \in 1 .. Len(s)
    BY <1>1
  <1>3. ASSUME NEW b \in Nat PROVE b \div 16 \in Nat /\ b % 16 \in Nat
    OBVIOUS
  <1>4. ASSUME NEW i \in 1 .. 2 * Len(s)
        PROVE  (IF i % 2 = 1 THEN s[(i + 1) \div 2] \div 16 ELSE s[(i + 1) \div 2] % 16) \in Nat
    <2>1. PICK b \in Nat : b = s[(i + 1) \div 2]
      BY <1>2
    <2> QED
      BY <1>3, <2>1
  <1>5. Base16Encode(s) =
          [i \in 1 .. 2 * Len(s) |-> IF i % 2 = 1 THEN s[(i + 1) \div 2] \div 16
                                     ELSE s[(i + 1) \div 2] % 16]
    BY DEF Base16Encode
  <1>6. 2 * Len(s) \in Nat
    BY <1>1
  <1>7. Base16Encode(s) \in Seq(Nat) /\ Len(Base16Encode(s)) = 2 * Len(s)
    BY <1>4, <1>5, <1>6
  <1> QED
    BY <1>2, <1>5, <1>7

\* It can be done piece by piece.
LEMMA Base16EncodeConcat ==
    ASSUME NEW s \in Seq(Nat), NEW t \in Seq(Nat)
    PROVE  Base16Encode(s \o t) = Base16Encode(s) \o Base16Encode(t)
  <1> DEFINE u == s \o t
             a == Base16Encode(s)
             b == Base16Encode(t)
             c == Base16Encode(u)
  <1>1. PICK m \in Nat, n \in Nat : m = Len(s) /\ n = Len(t)
    OBVIOUS
  <1>2. /\ u \in Seq(Nat) /\ Len(u) = m + n
        /\ \A i \in 1 .. m : u[i] = s[i]
        /\ \A j \in 1 .. n : u[m + j] = t[j]
    BY <1>1, ConcatElements
  <1> HIDE DEF u
  <1>3. /\ a \in Seq(Nat) /\ Len(a) = 2 * m
        /\ \A i \in 1 .. 2 * m :
              /\ (i + 1) \div 2 \in 1 .. m
              /\ a[i] = IF i % 2 = 1 THEN s[(i + 1) \div 2] \div 16 ELSE s[(i + 1) \div 2] % 16
    BY <1>1, Base16EncodeFacts
  <1>4. /\ b \in Seq(Nat) /\ Len(b) = 2 * n
        /\ \A j \in 1 .. 2 * n :
              /\ (j + 1) \div 2 \in 1 .. n
              /\ b[j] = IF j % 2 = 1 THEN t[(j + 1) \div 2] \div 16 ELSE t[(j + 1) \div 2] % 16
    BY <1>1, Base16EncodeFacts
  <1>5. /\ c \in Seq(Nat) /\ Len(c) = 2 * (m + n)
        /\ \A i \in 1 .. 2 * (m + n) :
              c[i] = IF i % 2 = 1 THEN u[(i + 1) \div 2] \div 16 ELSE u[(i + 1) \div 2] % 16
    BY <1>2, Base16EncodeFacts
  <1> HIDE DEF a, b, c
  <1>6. ASSUME NEW i \in 1 .. 2 * m PROVE c[i] = a[i]
    <2>1. i \in 1 .. 2 * (m + n)
      OBVIOUS
    <2>2. (i + 1) \div 2 \in 1 .. m
      BY <1>3
    <2>3. u[(i + 1) \div 2] = s[(i + 1) \div 2]
      BY <1>2, <2>2
    <2> QED
      BY <1>3, <1>5, <2>1, <2>3
  <1>7. ASSUME NEW j \in 1 .. 2 * n PROVE c[2 * m + j] = b[j]
    <2>1. /\ 2 * m + j \in 1 .. 2 * (m + n)
          /\ (2 * m + j) % 2 = j % 2
          /\ (2 * m + j + 1) \div 2 = m + ((j + 1) \div 2)
      OBVIOUS
    <2>2. (j + 1) \div 2 \in 1 .. n
      BY <1>4
    <2>3. u[(2 * m + j + 1) \div 2] = t[(j + 1) \div 2]
      <3>1. u[m + ((j + 1) \div 2)] = t[(j + 1) \div 2]
        BY <1>2, <2>2
      <3> QED
        BY <2>1, <3>1, Zenon
    <2>4. c[2 * m + j] = IF (2 * m + j) % 2 = 1 THEN u[(2 * m + j + 1) \div 2] \div 16
                         ELSE u[(2 * m + j + 1) \div 2] % 16
      BY <1>5, <2>1
    <2> QED
      BY <1>4, <2>1, <2>3, <2>4
  <1>8. c = a \o b
    <2>1. Len(c) = Len(a) + Len(b)
      BY <1>3, <1>4, <1>5
    <2>2. \A i \in 1 .. Len(a) : c[i] = a[i]
      BY <1>3, <1>6
    <2>3. \A j \in 1 .. Len(b) : c[Len(a) + j] = b[j]
      BY <1>3, <1>4, <1>7
    <2>4. a \in Seq(Nat) /\ b \in Seq(Nat) /\ c \in Seq(Nat)
      BY <1>3, <1>4, <1>5
    <2> QED
      BY <2>1, <2>2, <2>3, <2>4, ConcatIs
  <1> QED
    BY <1>8 DEF a, b, c, u
-----------------------------------------------------------------------------
(* base64 *)

\* A character is a number up to that of =.
LEMMA SextetType ==
    ASSUME NEW s \in Seq(Nat), NEW g \in Nat, NEW k \in 0 .. 3
    PROVE  Sextet(s, g, k) \in 0 .. Pad
  <1>1. \A i \in Nat \ {0} : ByteAt(s, i) \in Nat
    BY DEF ByteAt
  <1>2. PICK x \in Nat, y \in Nat, z \in Nat :
            x = ByteAt(s, g + 1) /\ y = ByteAt(s, g + 2) /\ z = ByteAt(s, g + 3)
    <2>1. g + 1 \in Nat \ {0} /\ g + 2 \in Nat \ {0} /\ g + 3 \in Nat \ {0}
      OBVIOUS
    <2>2. ByteAt(s, g + 1) \in Nat /\ ByteAt(s, g + 2) \in Nat /\ ByteAt(s, g + 3) \in Nat
      BY <1>1, <2>1
    <2> QED
      BY <2>2
  <1>3. x * 65536 + y * 256 + z \in Nat
    OBVIOUS
  <1>4. PICK n \in Nat : n = Triple(s, g)
    BY <1>2, <1>3 DEF Triple
  <1>5. PICK d \in Nat \ {0} : d = <<262144, 4096, 64, 1>>[k + 1]
    OBVIOUS
  <1>6. (n \div d) % 64 \in 0 .. Pad
    <2>1. n \div d \in Nat
      OBVIOUS
    <2> QED
      BY <2>1 DEF Pad
  <1> QED
    BY <1>4, <1>5, <1>6 DEF Sextet, Pad

\* Four characters for each three bytes or less.
LEMMA Base64EncodeFacts ==
    ASSUME NEW s \in Seq(Nat)
    PROVE  LET n == (Len(s) + 2) \div 3 IN
           /\ n \in Nat
           /\ Base64Encode(s) \in Seq(0 .. Pad) /\ Base64Encode(s) \in Seq(Nat)
           /\ Len(Base64Encode(s)) = 4 * n
           /\ \A q \in 0 .. n - 1, k \in 0 .. 3 :
                  Base64Encode(s)[4 * q + k + 1] = Sextet(s, 3 * q, k)
  <1>1. PICK n \in Nat : n = (Len(s) + 2) \div 3
    OBVIOUS
  <1>2. Base64Encode(s) = [i \in 1 .. 4 * n |-> Sextet(s, 3 * ((i - 1) \div 4), (i - 1) % 4)]
    BY <1>1 DEF Base64Encode
  <1>3. ASSUME NEW i \in 1 .. 4 * n
        PROVE  Sextet(s, 3 * ((i - 1) \div 4), (i - 1) % 4) \in 0 .. Pad
    <2>1. 3 * ((i - 1) \div 4) \in Nat /\ (i - 1) % 4 \in 0 .. 3
      OBVIOUS
    <2> QED
      BY <2>1, SextetType
  <1>4. Base64Encode(s) \in Seq(0 .. Pad) /\ Len(Base64Encode(s)) = 4 * n
    BY <1>2, <1>3
  <1>5. Base64Encode(s) \in Seq(Nat)
    <2>1. 0 .. Pad \subseteq Nat
      OBVIOUS
    <2> QED
      BY <1>4, <2>1, SeqMonotonic
  <1>6. ASSUME NEW q \in 0 .. n - 1, NEW k \in 0 .. 3
        PROVE  Base64Encode(s)[4 * q + k + 1] = Sextet(s, 3 * q, k)
    <2>1. PICK i \in 1 .. 4 * n : i = 4 * q + k + 1
      OBVIOUS
    <2>2. (i - 1) \div 4 = q /\ (i - 1) % 4 = k
      BY <2>1
    <2>3. Base64Encode(s)[i] = Sextet(s, 3 * ((i - 1) \div 4), (i - 1) % 4)
      BY <1>2
    <2> QED
      BY <2>1, <2>2, <2>3
  <1> QED
    BY <1>1, <1>4, <1>5, <1>6

\* It can be done piece by piece when the first piece is made of threes.
LEMMA Base64EncodeConcat ==
    ASSUME NEW s \in Seq(Nat), NEW t \in Seq(Nat), Len(s) % 3 = 0
    PROVE  Base64Encode(s \o t) = Base64Encode(s) \o Base64Encode(t)
  <1> DEFINE u == s \o t
             a == Base64Encode(s)
             b == Base64Encode(t)
             c == Base64Encode(u)
  <1>1. PICK m \in Nat, l \in Nat : Len(s) = 3 * m /\ l = Len(t)
    <2>1. Len(s) = 3 * (Len(s) \div 3) /\ Len(s) \div 3 \in Nat
      OBVIOUS
    <2> QED
      BY <2>1
  <1>2. PICK n \in Nat : n = (l + 2) \div 3
    OBVIOUS
  <1>3. /\ u \in Seq(Nat) /\ Len(u) = 3 * m + l
        /\ \A i \in 1 .. 3 * m : u[i] = s[i]
        /\ \A j \in 1 .. l : u[3 * m + j] = t[j]
    <2>1. /\ u \in Seq(Nat) /\ Len(u) = Len(s) + Len(t)
          /\ \A i \in 1 .. Len(s) : u[i] = s[i]
          /\ \A j \in 1 .. Len(t) : u[Len(s) + j] = t[j]
      BY ConcatElements
    <2> HIDE DEF u
    <2> QED
      BY <1>1, <2>1
  <1> HIDE DEF u
  <1>4. /\ a \in Seq(Nat) /\ Len(a) = 4 * m
        /\ \A q \in 0 .. m - 1, k \in 0 .. 3 : a[4 * q + k + 1] = Sextet(s, 3 * q, k)
    <2>1. (Len(s) + 2) \div 3 = m
      BY <1>1
    <2> HIDE DEF a
    <2> QED
      BY <2>1, Base64EncodeFacts DEF a
  <1>5. /\ b \in Seq(Nat) /\ Len(b) = 4 * n
        /\ \A q \in 0 .. n - 1, k \in 0 .. 3 : b[4 * q + k + 1] = Sextet(t, 3 * q, k)
    BY <1>1, <1>2, Base64EncodeFacts
  <1>6. /\ c \in Seq(Nat) /\ Len(c) = 4 * (m + n)
        /\ \A q \in 0 .. (m + n) - 1, k \in 0 .. 3 : c[4 * q + k + 1] = Sextet(u, 3 * q, k)
    <2>1. (Len(u) + 2) \div 3 = m + n
      <3>1. PICK x \in Nat : x = Len(u)
        BY <1>3
      <3>2. x = 3 * m + l
        BY <1>3, <3>1
      <3>3. (x + 2) \div 3 = m + n
        BY <1>2, <3>2
      <3> QED
        BY <3>1, <3>3
    <2>2. u \in Seq(Nat)
      BY <1>3
    <2> QED
      BY <2>1, <2>2, Base64EncodeFacts
  <1> HIDE DEF a, b, c
  <1>7. ASSUME NEW q \in 0 .. m - 1, NEW k \in 0 .. 3
        PROVE  Sextet(u, 3 * q, k) = Sextet(s, 3 * q, k)
    <2>1. \A i \in 1 .. 3 : ByteAt(u, 3 * q + i) = ByteAt(s, 3 * q + i)
      BY <1>1, <1>3 DEF ByteAt
    <2>2. Triple(u, 3 * q) = Triple(s, 3 * q)
      BY <2>1 DEF Triple
    <2>3. ~(k > Len(u) - 3 * q) /\ ~(k > Len(s) - 3 * q)
      BY <1>1, <1>3, SMTT(30)
    <2> QED
      BY <2>2, <2>3 DEF Sextet
  <1>8. ASSUME NEW q \in 0 .. n - 1, NEW k \in 0 .. 3
        PROVE  Sextet(u, 3 * (m + q), k) = Sextet(t, 3 * q, k)
    <2>1. ASSUME NEW i \in 1 .. 3 PROVE ByteAt(u, 3 * (m + q) + i) = ByteAt(t, 3 * q + i)
      <3>1. PICK j \in Nat \ {0} : j = 3 * q + i
        OBVIOUS
      <3>2. 3 * (m + q) + i = 3 * m + j
        BY <3>1
      <3>3. ByteAt(u, 3 * m + j) = ByteAt(t, j)
        BY <1>1, <1>3 DEF ByteAt
      <3> QED
        BY <3>1, <3>2, <3>3
    <2>2. Triple(u, 3 * (m + q)) = Triple(t, 3 * q)
      BY <2>1 DEF Triple
    <2>3. (k > Len(u) - 3 * (m + q)) <=> (k > Len(t) - 3 * q)
      BY <1>1, <1>3
    <2> QED
      BY <2>2, <2>3 DEF Sextet
  <1>9. \A i \in 1 .. Len(a) : c[i] = a[i]
    <2>1. ASSUME NEW i \in 1 .. 4 * m PROVE c[i] = a[i]
      <3>1. PICK q \in 0 .. m - 1, k \in 0 .. 3 : i = 4 * q + k + 1
        <4>1. (i - 1) \div 4 \in 0 .. m - 1 /\ (i - 1) % 4 \in 0 .. 3
              /\ i = 4 * ((i - 1) \div 4) + ((i - 1) % 4) + 1
          OBVIOUS
        <4> QED
          BY <4>1
      <3>2. q \in 0 .. (m + n) - 1
        OBVIOUS
      <3>3. c[4 * q + k + 1] = Sextet(u, 3 * q, k)
        BY <1>6, <3>2
      <3>4. a[4 * q + k + 1] = Sextet(s, 3 * q, k)
        BY <1>4
      <3> QED
        BY <1>7, <3>1, <3>3, <3>4
    <2> QED
      BY <1>4, <2>1
  <1>10. \A j \in 1 .. Len(b) : c[Len(a) + j] = b[j]
    <2>1. ASSUME NEW j \in 1 .. 4 * n PROVE c[4 * m + j] = b[j]
      <3>1. PICK q \in 0 .. n - 1, k \in 0 .. 3 : j = 4 * q + k + 1
        <4>1. (j - 1) \div 4 \in 0 .. n - 1 /\ (j - 1) % 4 \in 0 .. 3
              /\ j = 4 * ((j - 1) \div 4) + ((j - 1) % 4) + 1
          OBVIOUS
        <4> QED
          BY <4>1
      <3>2. PICK p \in 0 .. (m + n) - 1 : p = m + q
        OBVIOUS
      <3>3. c[4 * p + k + 1] = Sextet(u, 3 * p, k)
        BY <1>6
      <3>4. b[4 * q + k + 1] = Sextet(t, 3 * q, k)
        BY <1>5
      <3>5. Sextet(u, 3 * p, k) = Sextet(t, 3 * q, k)
        BY <1>8, <3>2
      <3>6. 4 * m + j = 4 * p + k + 1
        BY <3>1, <3>2
      <3> QED
        BY <3>1, <3>3, <3>4, <3>5, <3>6
    <2> QED
      BY <1>4, <1>5, <2>1
  <1>11. c = a \o b
    <2>1. Len(c) = Len(a) + Len(b)
      BY <1>4, <1>5, <1>6
    <2>2. a \in Seq(Nat) /\ b \in Seq(Nat) /\ c \in Seq(Nat)
      BY <1>4, <1>5, <1>6
    <2> QED
      BY <1>9, <1>10, <2>1, <2>2, ConcatIs
  <1> QED
    BY <1>11 DEF a, b, c, u
-----------------------------------------------------------------------------
(* Decoding *)

\* What is decoded are numbers, one for two digits.
LEMMA Base16DecodeType ==
    ASSUME NEW t \in Seq(Nat), NEW signed \in BOOLEAN, NEW s \in Base16Decode(t, signed)
    PROVE  s \in Seq(Nat)
  <1>1. PICK n \in Nat : n = Len(t) \div 2
    OBVIOUS
  <1>2. Len(t) % 2 = 0 /\ s = [i \in 1 .. n |-> 16 * Hex(t[2 * i - 1]) + Hex(t[2 * i])]
    BY <1>1 DEF Base16Decode
  <1>3. ASSUME NEW i \in 1 .. n PROVE 16 * Hex(t[2 * i - 1]) + Hex(t[2 * i]) \in Nat
    <2>1. 2 * i - 1 \in 1 .. Len(t) /\ 2 * i \in 1 .. Len(t)
      BY <1>1, <1>2
    <2>2. t[2 * i - 1] \in Nat /\ t[2 * i] \in Nat
      BY <2>1, ElementOfSeq
    <2>3. Hex(t[2 * i - 1]) \in Nat /\ Hex(t[2 * i]) \in Nat
      BY <2>2 DEF Hex
    <2> QED
      BY <2>3
  <1> QED
    BY <1>2, <1>3

\* Decoding undoes encoding, unless a high digit does not fit.
LEMMA Base16Inverse ==
    ASSUME NEW s \in Seq(Bytes), NEW signed \in BOOLEAN
    PROVE  Base16Decode(Base16Encode(s), signed) =
               IF signed /\ \E i \in DOMAIN s : s[i] > 127 THEN {} ELSE {s}
  <1> DEFINE t == Base16Encode(s)
  <1>1. PICK n \in Nat : n = Len(s)
    OBVIOUS
  <1>2. s \in Seq(Nat)
    <2>1. Bytes \subseteq Nat
      BY DEF Bytes
    <2> QED
      BY <2>1, SeqMonotonic
  <1>3. /\ t \in Seq(Nat) /\ Len(t) = 2 * n
        /\ \A i \in 1 .. 2 * n :
               t[i] = IF i % 2 = 1 THEN s[(i + 1) \div 2] \div 16 ELSE s[(i + 1) \div 2] % 16
    BY <1>1, <1>2, Base16EncodeFacts DEF Base16Encode
  <1> HIDE DEF t
  <1>4. \A i \in 1 .. n : s[i] \in 0 .. 255
    BY <1>1, ElementOfSeq DEF Bytes
  <1>5. ASSUME NEW i \in 1 .. n
        PROVE  /\ Hex(t[2 * i - 1]) = s[i] \div 16 /\ Hex(t[2 * i]) = s[i] % 16
               /\ 16 * Hex(t[2 * i - 1]) + Hex(t[2 * i]) = s[i]
               /\ (16 * Hex(t[2 * i - 1]) > 127) <=> (s[i] > 127)
    <2>1. PICK b \in 0 .. 255 : b = s[i]
      BY <1>4
    <2>2. /\ 2 * i - 1 \in 1 .. 2 * n /\ (2 * i - 1) % 2 = 1 /\ ((2 * i - 1) + 1) \div 2 = i
          /\ 2 * i \in 1 .. 2 * n /\ (2 * i) % 2 # 1 /\ (2 * i + 1) \div 2 = i
      OBVIOUS
    <2>3. t[2 * i - 1] = b \div 16 /\ t[2 * i] = b % 16
      BY <1>3, <2>1, <2>2
    <2>4. b \div 16 \in 0 .. 15 /\ b % 16 \in 0 .. 15 /\ 16 * (b \div 16) + (b % 16) = b
          /\ ((16 * (b \div 16) > 127) <=> (b > 127))
      OBVIOUS
    <2>5. Hex(t[2 * i - 1]) = b \div 16 /\ Hex(t[2 * i]) = b % 16
      BY <2>3, <2>4 DEF Hex, NoDigit
    <2> QED
      BY <2>1, <2>4, <2>5
  <1>6. (\E i \in DOMAIN t : i % 2 = 1 /\ 16 * Hex(t[i]) > 127)
            <=> (\E i \in DOMAIN s : s[i] > 127)
    <2>0. DOMAIN t = 1 .. 2 * n /\ DOMAIN s = 1 .. n
      BY <1>1, <1>2, <1>3, LenProperties
    <2>1. ASSUME NEW i \in 1 .. 2 * n, i % 2 = 1, 16 * Hex(t[i]) > 127
          PROVE  \E j \in 1 .. n : s[j] > 127
      <3>1. PICK j \in 1 .. n : i = 2 * j - 1
        <4>1. (i + 1) \div 2 \in 1 .. n /\ i = 2 * ((i + 1) \div 2) - 1
          BY <2>1
        <4> QED
          BY <4>1
      <3> QED
        BY <1>5, <2>1, <3>1
    <2>2. ASSUME NEW j \in 1 .. n, s[j] > 127
          PROVE  \E i \in 1 .. 2 * n : i % 2 = 1 /\ 16 * Hex(t[i]) > 127
      <3>1. 2 * j - 1 \in 1 .. 2 * n /\ (2 * j - 1) % 2 = 1
        OBVIOUS
      <3>2. 16 * Hex(t[2 * j - 1]) > 127
        BY <1>5, <2>2
      <3> QED
        BY <3>1, <3>2
    <2> QED
      BY <2>0, <2>1, <2>2
  <1>7. Len(t) % 2 # 1 /\ Len(t) \div 2 = n
    <2>1. (2 * n) % 2 # 1 /\ (2 * n) \div 2 = n
      OBVIOUS
    <2> QED
      BY <1>3, <2>1
  <1>8. [i \in 1 .. Len(t) \div 2 |-> 16 * Hex(t[2 * i - 1]) + Hex(t[2 * i])] = s
    <2>1. s = [i \in 1 .. n |-> s[i]]
      BY <1>1, <1>2
    <2> QED
      BY <1>5, <1>7, <2>1
  <1>9. Base16Decode(t, signed) = IF signed /\ \E i \in DOMAIN s : s[i] > 127 THEN {} ELSE {s}
    <2>1. CASE signed /\ \E i \in DOMAIN s : s[i] > 127
      BY <1>6, <2>1 DEF Base16Decode
    <2>2. CASE ~(signed /\ \E i \in DOMAIN s : s[i] > 127)
      <3>1. ~(signed /\ \E i \in DOMAIN t : i % 2 = 1 /\ 16 * Hex(t[i]) > 127)
        BY <1>6, <2>2
      <3>2. Base16Decode(t, signed) = {s}
        BY <1>7, <1>8, <3>1 DEF Base16Decode
      <3> QED
        BY <2>2, <3>2
    <2> QED
      BY <2>1, <2>2
  <1> QED
    BY <1>9 DEF t

\* A part of a sequence of numbers, from one place to another.
LEMMA PartType ==
    ASSUME NEW S, NEW s \in Seq(S), NEW m \in Nat \ {0}, NEW n \in 0 .. Len(s)
    PROVE  /\ SubSeq(s, m, n) \in Seq(S)
           /\ Len(SubSeq(s, m, n)) = IF m <= n THEN n - m + 1 ELSE 0
           /\ \A i \in 1 .. n - m + 1 : SubSeq(s, m, n)[i] = s[m + i - 1]
  <1>1. \A i \in m .. n : s[i] \in S
    BY ElementOfSeq
  <1>2. m \in Int /\ n \in Int
    OBVIOUS
  <1> QED
    BY <1>1, <1>2, SubSeqProperties

\* What is cut into two is those two put together.
LEMMA Cut ==
    ASSUME NEW S, NEW s \in Seq(S), NEW n \in 0 .. Len(s)
    PROVE  /\ SubSeq(s, 1, n) \in Seq(S) /\ Len(SubSeq(s, 1, n)) = n
           /\ SubSeq(s, n + 1, Len(s)) \in Seq(S)
           /\ Len(SubSeq(s, n + 1, Len(s))) = Len(s) - n
           /\ s = SubSeq(s, 1, n) \o SubSeq(s, n + 1, Len(s))
  <1>1. Len(s) \in Nat /\ n \in Nat /\ n <= Len(s) /\ n + 1 \in Nat \ {0} /\ 1 \in Nat \ {0}
    OBVIOUS
  <1>2. SubSeq(s, 1, n) \in Seq(S) /\ Len(SubSeq(s, 1, n)) = n
    <2>1. /\ SubSeq(s, 1, n) \in Seq(S)
          /\ Len(SubSeq(s, 1, n)) = IF 1 <= n THEN n - 1 + 1 ELSE 0
      BY <1>1, PartType
    <2> QED
      BY <1>1, <2>1
  <1>3. SubSeq(s, n + 1, Len(s)) \in Seq(S) /\ Len(SubSeq(s, n + 1, Len(s))) = Len(s) - n
    <2>1. Len(s) \in 0 .. Len(s)
      BY <1>1
    <2>2. /\ SubSeq(s, n + 1, Len(s)) \in Seq(S)
          /\ Len(SubSeq(s, n + 1, Len(s))) =
                IF n + 1 <= Len(s) THEN Len(s) - (n + 1) + 1 ELSE 0
      BY <1>1, <2>1, PartType
    <2> QED
      BY <1>1, <2>2
  <1>4. SubSeq(s, 1, n) \o SubSeq(s, n + 1, Len(s)) = s
    <2>1. 1 \in 1 .. Len(s) + 1 /\ n \in 1 - 1 .. Len(s) /\ Len(s) \in n .. Len(s)
      BY <1>1
    <2>2. SubSeq(s, 1, n) \o SubSeq(s, n + 1, Len(s)) = SubSeq(s, 1, Len(s))
      BY <2>1, ConcatAdjacentSubSeq
    <2> QED
      BY <2>2, SubSeqFull
  <1> QED
    BY <1>2, <1>3, <1>4

Untrimmed(t) == {m \in 0 .. Len(t) : \A i \in 1 .. m : t[i] = Blank}
Inked(u) ==
    {IF Len(u) < 3 THEN Len(u) ELSE 3} \cup {i \in DOMAIN u : u[i] \notin {Blank, Newline}}

\* How much is taken off.
LEMMA TrimmedIs ==
    ASSUME NEW t \in Seq(Nat)
    PROVE  \E m \in 0 .. Len(t) : \E n \in 0 .. Len(t) - m :
               LET u == SubSeq(t, 1 + m, Len(t)) IN
               /\ m = Max(Untrimmed(t)) /\ m \in Untrimmed(t) /\ \A y \in Untrimmed(t) : y <= m
               /\ u \in Seq(Nat) /\ Len(u) = Len(t) - m
               /\ n = Max(Inked(u)) /\ n \in Inked(u) /\ \A y \in Inked(u) : y <= n
               /\ Trimmed(t) = SubSeq(u, 1, n)
               /\ Trimmed(t) \in Seq(Nat) /\ Len(Trimmed(t)) = n
  <1>1. PICK m \in 0 .. Len(t) :
            m = Max(Untrimmed(t)) /\ m \in Untrimmed(t) /\ \A y \in Untrimmed(t) : y <= m
    <2>1. 0 \in Untrimmed(t) /\ Untrimmed(t) \subseteq 0 .. Len(t) /\ Len(t) \in Nat
      BY DEF Untrimmed
    <2> QED
      BY <2>1, Greatest
  <1> DEFINE u == SubSeq(t, 1 + m, Len(t))
  <1>2. u \in Seq(Nat) /\ Len(u) = Len(t) - m
    <2>1. 1 + m \in Nat \ {0} /\ Len(t) \in 0 .. Len(t)
      OBVIOUS
    <2>2. u \in Seq(Nat) /\ Len(u) = IF 1 + m <= Len(t) THEN Len(t) - (1 + m) + 1 ELSE 0
      BY <2>1, PartType
    <2> HIDE DEF u
    <2> QED
      BY <2>2
  <1> HIDE DEF u
  <1>3. PICK n \in 0 .. Len(u) : n = Max(Inked(u)) /\ n \in Inked(u) /\ \A y \in Inked(u) : y <= n
    <2>1. Inked(u) \subseteq 0 .. Len(u) /\ Inked(u) # {} /\ Len(u) \in Nat
      <3>1. Len(u) \in Nat /\ DOMAIN u = 1 .. Len(u)
        BY <1>2, LenProperties
      <3>2. (IF Len(u) < 3 THEN Len(u) ELSE 3) \in 0 .. Len(u)
        BY <3>1
      <3> QED
        BY <3>1, <3>2 DEF Inked
    <2> QED
      BY <2>1, Greatest
  <1>4. Trimmed(t) = SubSeq(u, 1, n)
    BY <1>1, <1>3 DEF Trimmed, Untrimmed, Inked, u
  <1>5. Trimmed(t) \in Seq(Nat) /\ Len(Trimmed(t)) = n
    <2>1. /\ SubSeq(u, 1, n) \in Seq(Nat)
          /\ Len(SubSeq(u, 1, n)) = IF 1 <= n THEN n - 1 + 1 ELSE 0
      BY <1>2, PartType, SMTT(30)
    <2> QED
      BY <1>4, <2>1
  <1> QED
    BY <1>1, <1>2, <1>3, <1>4, <1>5 DEF u

\* Three bytes for four characters.
LEMMA OctetsFacts ==
    ASSUME NEW t \in Seq(Nat), Len(t) % 4 = 0
    PROVE  LET n == Len(t) \div 4 IN
           /\ n \in Nat /\ Len(t) = 4 * n
           /\ Octets(t) \in Seq(Nat) /\ Len(Octets(t)) = 3 * n
           /\ \A q \in 0 .. n - 1, k \in 0 .. 2 : Octets(t)[3 * q + k + 1] = Octet(t, 4 * q, k)
  <1>1. PICK n \in Nat : n = Len(t) \div 4 /\ Len(t) = 4 * n
    <2>1. Len(t) \div 4 \in Nat /\ Len(t) = 4 * (Len(t) \div 4)
      OBVIOUS
    <2> QED
      BY <2>1
  <1>2. Octets(t) = [i \in 1 .. 3 * n |-> Octet(t, 4 * ((i - 1) \div 3), (i - 1) % 3)]
    BY <1>1 DEF Octets
  <1>3. ASSUME NEW q \in 0 .. n - 1, NEW k \in 0 .. 2 PROVE Octet(t, 4 * q, k) \in Nat
    <2>1. 4 * q + 1 \in 1 .. Len(t) /\ 4 * q + 2 \in 1 .. Len(t)
          /\ 4 * q + 3 \in 1 .. Len(t) /\ 4 * q + 4 \in 1 .. Len(t)
      BY <1>1
    <2>2. PICK w \in Nat, x \in Nat, y \in Nat, z \in Nat :
              w = t[4 * q + 1] /\ x = t[4 * q + 2] /\ y = t[4 * q + 3] /\ z = t[4 * q + 4]
      BY <2>1, ElementOfSeq
    <2>3. (w % 64) * 262144 + (x % 64) * 4096 + (y % 64) * 64 + (z % 64) \in Nat
      OBVIOUS
    <2>4. PICK c \in Nat : c = Quad(t, 4 * q)
      BY <2>2, <2>3 DEF Quad
    <2>5. PICK d \in Nat \ {0} : d = <<65536, 256, 1>>[k + 1]
      OBVIOUS
    <2>6. c \div d \in Nat
      OBVIOUS
    <2>7. (c \div d) % 256 \in Nat
      BY <2>6
    <2> QED
      BY <2>4, <2>5, <2>7 DEF Octet
  <1>4. ASSUME NEW i \in 1 .. 3 * n PROVE Octet(t, 4 * ((i - 1) \div 3), (i - 1) % 3) \in Nat
    <2>1. (i - 1) \div 3 \in 0 .. n - 1 /\ (i - 1) % 3 \in 0 .. 2
      OBVIOUS
    <2> QED
      BY <1>3, <2>1
  <1>5. Octets(t) \in Seq(Nat) /\ Len(Octets(t)) = 3 * n
    BY <1>2, <1>4
  <1>6. ASSUME NEW q \in 0 .. n - 1, NEW k \in 0 .. 2
        PROVE  Octets(t)[3 * q + k + 1] = Octet(t, 4 * q, k)
    <2>1. PICK i \in 1 .. 3 * n : i = 3 * q + k + 1
      OBVIOUS
    <2>2. (i - 1) \div 3 = q /\ (i - 1) % 3 = k
      BY <2>1
    <2>3. Octets(t)[i] = Octet(t, 4 * ((i - 1) \div 3), (i - 1) % 3)
      BY <1>2
    <2> QED
      BY <2>1, <2>2, <2>3
  <1> QED
    BY <1>1, <1>5, <1>6

\* What is decoded are numbers.
LEMMA Base64DecodeType ==
    ASSUME NEW t \in Seq(Nat), NEW s \in Base64Decode(t)
    PROVE  s \in Seq(Nat)
  <1>1. Trimmed(t) \in Seq(Nat)
    BY TrimmedIs
  <1>2. Len(Trimmed(t)) % 4 = 0 /\ s = Octets(Trimmed(t))
    BY DEF Base64Decode
  <1> QED
    BY <1>1, <1>2, OctetsFacts
-----------------------------------------------------------------------------
(* Streams *)

\* Sequences of one length with the same elements are the same.
LEMMA SameElements ==
    ASSUME NEW S, NEW s \in Seq(S), NEW t \in Seq(S), Len(s) = Len(t),
           \A i \in 1 .. Len(s) : s[i] = t[i]
    PROVE  s = t
  OBVIOUS

\* Without the header nothing is in a stream.
LEMMA InflatedNeedsHeader ==
    ASSUME NEW t \in Seq(Nat), t = <<>> \/ t[1] # Header
    PROVE  Inflated(t) = {}
  <1>1. CASE t = <<>>
    <2>1. Len(t) = 0
      BY <1>1, EmptySeq, Zenon
    <2>2. 2 .. Len(t) = {}
      BY <2>1
    <2> QED
      BY <2>2 DEF Inflated
  <1>2. CASE t[1] # Header
    BY <1>2 DEF Inflated
  <1> QED
    BY <1>1, <1>2

\* After a header and units it is the first number that is no unit that decides.
LEMMA InflatedIs ==
    ASSUME NEW u \in Seq(Nat), \A i \in 1 .. Len(u) : IsUnit(u[i]), NEW v \in Seq(Nat)
    PROVE  LET t == (<<Header>> \o u) \o v IN
           /\ t \in Seq(Nat)
           /\ v = <<>> => Inflated(t) = {}
           /\ v # <<>> /\ ~IsUnit(v[1]) =>
                  Inflated(t) = IF v[1] = Sum(Content(u)) THEN {Content(u)} ELSE {}
  <1> DEFINE h == <<Header>>
             d == h \o u
             t == d \o v
  <1>1. PICK n \in Nat, l \in Nat : n = Len(u) /\ l = Len(v)
    OBVIOUS
  <1>2. h \in Seq(Nat) /\ Len(h) = 1 /\ h[1] = Header
    BY DEF Header
  <1> HIDE DEF h
  <1>3. /\ d \in Seq(Nat) /\ Len(d) = 1 + n /\ d[1] = Header
        /\ \A i \in 1 .. n : d[1 + i] = u[i]
    <2>1. /\ d \in Seq(Nat) /\ Len(d) = Len(h) + Len(u)
          /\ \A i \in 1 .. Len(h) : d[i] = h[i]
          /\ \A j \in 1 .. Len(u) : d[Len(h) + j] = u[j]
      <3>1. h \in Seq(Nat)
        BY <1>2
      <3> QED
        BY <3>1, ConcatElements
    <2> HIDE DEF d
    <2> QED
      BY <1>1, <1>2, <2>1
  <1> HIDE DEF d
  <1>4. /\ t \in Seq(Nat) /\ Len(t) = 1 + n + l /\ t[1] = Header
        /\ \A i \in 1 .. n : t[1 + i] = u[i]
        /\ \A j \in 1 .. l : t[1 + n + j] = v[j]
    <2>1. /\ t \in Seq(Nat) /\ Len(t) = Len(d) + Len(v)
          /\ \A i \in 1 .. Len(d) : t[i] = d[i]
          /\ \A j \in 1 .. Len(v) : t[Len(d) + j] = v[j]
      <3>1. d \in Seq(Nat)
        BY <1>3
      <3> QED
        BY <3>1, ConcatElements
    <2> HIDE DEF t
    <2>2. t[1] = Header
      BY <1>3, <2>1
    <2>3. ASSUME NEW i \in 1 .. n PROVE t[1 + i] = u[i]
      <3>1. 1 + i \in 1 .. Len(d)
        BY <1>3
      <3> QED
        BY <1>3, <2>1, <3>1
    <2> QED
      BY <1>1, <1>3, <2>1, <2>2, <2>3
  <1> HIDE DEF t
  <1> DEFINE Part(m) == SubSeq(t, 2, m - 1)
             Ends(m) == /\ t[1] = Header
                        /\ \A i \in 2 .. m - 1 : IsUnit(t[i])
                        /\ t[m] = Sum(Content(Part(m)))
             M == {m \in 2 .. Len(t) : Ends(m)}
  <1>5. Inflated(t) = {Content(Part(m)) : m \in M}
    BY DEF Inflated
  <1>6. ASSUME NEW m \in 2 .. Len(t)
        PROVE  ~IsUnit(Sum(Content(Part(m))))
    <2>1. Part(m) \in Seq(Nat)
      <3>1. m - 1 \in 0 .. Len(t) /\ 2 \in Nat \ {0}
        BY <1>4
      <3> QED
        BY <1>4, <3>1, PartType
    <2>2. Content(Part(m)) \in Seq(Nat)
      <3> HIDE DEF Part
      <3>1. 0 \in Nat
        OBVIOUS
      <3> QED
        BY <2>1, <3>1, ContentSteps
    <2> HIDE DEF Part
    <2> QED
      BY <2>2, SumFacts
  <1>7. ASSUME NEW m \in 2 .. n + 1 PROVE IsUnit(t[m])
    <2>1. PICK i \in 1 .. n : m = 1 + i
      <3>1. m - 1 \in 1 .. n /\ m = 1 + (m - 1)
        OBVIOUS
      <3> QED
        BY <3>1
    <2> QED
      BY <1>1, <1>4, <2>1
  <1>8. ASSUME NEW m \in 2 .. Len(t), Ends(m) PROVE m > n + 1
    <2>1. ~IsUnit(t[m])
      BY <1>6, <1>8
    <2> QED
      BY <1>4, <1>7, <2>1
  <1> HIDE DEF Part
  <1>9. v = <<>> => Inflated(t) = {}
    <2>1. v = <<>> => l = 0
      BY <1>1, EmptySeq
    <2>2. v = <<>> => M = {}
      BY <1>4, <1>8, <2>1
    <2> HIDE DEF M
    <2> QED
      BY <1>5, <2>2
  <1>10. v # <<>> /\ ~IsUnit(v[1]) =>
             Inflated(t) = IF v[1] = Sum(Content(u)) THEN {Content(u)} ELSE {}
    <2> SUFFICES ASSUME v # <<>>, ~IsUnit(v[1])
                 PROVE  Inflated(t) = IF v[1] = Sum(Content(u)) THEN {Content(u)} ELSE {}
      OBVIOUS
    <2>1. l > 0
      BY <1>1, EmptySeq
    <2>2. PICK p \in 2 .. Len(t) : p = n + 2
      BY <1>4, <2>1
    <2>3. t[p] = v[1]
      <3>1. t[1 + n + 1] = v[1]
        BY <1>4, <2>1
      <3> QED
        BY <2>2, <3>1
    <2>4. Part(p) = u
      <3> DEFINE w == Part(p)
      <3>1. p - 1 = n + 1 /\ p - 1 \in 0 .. Len(t) /\ 2 \in Nat \ {0} /\ (p - 1) - 2 + 1 = n
        BY <1>4, <2>2
      <3>2. /\ w \in Seq(Nat)
            /\ Len(w) = IF 2 <= p - 1 THEN (p - 1) - 2 + 1 ELSE 0
            /\ \A i \in 1 .. (p - 1) - 2 + 1 : w[i] = t[2 + i - 1]
        BY <1>4, <3>1, PartType, SMTT(30) DEF Part
      <3> HIDE DEF w
      <3>3. Len(w) = n
        BY <3>1, <3>2
      <3>4. ASSUME NEW i \in 1 .. n PROVE w[i] = u[i]
        <4>1. w[i] = t[2 + i - 1] /\ 2 + i - 1 = 1 + i
          BY <3>1, <3>2
        <4> QED
          BY <1>4, <4>1
      <3>5. w = u
        BY <1>1, <3>2, <3>3, <3>4, SameElements
      <3> QED
        BY <3>5 DEF w
    <2>5. Ends(p) <=> v[1] = Sum(Content(u))
      <3>1. \A i \in 2 .. p - 1 : IsUnit(t[i])
        BY <1>7, <2>2
      <3> QED
        BY <1>4, <2>3, <2>4, <3>1
    <2>6. ASSUME NEW m \in 2 .. Len(t), Ends(m) PROVE m = p
      <3>1. ~(m > p)
        <4>1. m > p => p \in 2 .. m - 1
          BY <1>4, <2>2
        <4> QED
          BY <2>3, <2>6, <4>1
      <3> QED
        BY <1>4, <1>8, <2>2, <2>6, <3>1
    <2>7. M = IF v[1] = Sum(Content(u)) THEN {p} ELSE {}
      <3> HIDE DEF Ends
      <3> QED
        BY <2>5, <2>6
    <2> HIDE DEF M
    <2> QED
      BY <1>5, <2>4, <2>7
  <1> QED
    BY <1>4, <1>9, <1>10 DEF t, d, h

\* What stands for each byte once stands for all of them.
LEMMA ContentOfSingles ==
    ASSUME NEW s \in Seq(Bytes)
    PROVE  /\ [i \in DOMAIN s |-> Unit(s[i], 1)] \in Seq(Nat)
           /\ \A i \in 1 .. Len(s) : IsUnit(Unit(s[i], 1))
           /\ Content([i \in DOMAIN s |-> Unit(s[i], 1)]) = s
  <1> DEFINE Singles(q) == [i \in DOMAIN q |-> Unit(q[i], 1)]
             Q == {q \in Seq(Bytes) : Content(Singles(q)) = q}
  <1>0. \A b \in Bytes : Unit(b, 1) \in Nat /\ IsUnit(Unit(b, 1)) /\ Expanded(Unit(b, 1)) = <<b>>
    <2> SUFFICES ASSUME NEW b \in Bytes
                 PROVE  Unit(b, 1) \in Nat /\ IsUnit(Unit(b, 1)) /\ Expanded(Unit(b, 1)) = <<b>>
      OBVIOUS
    <2>1. PICK c \in 0 .. 255 : c = b
      BY DEF Bytes
    <2>2. Unit(c, 1) = 256 + c
      BY DEF Unit
    <2>3. (256 + c) \div 256 = 1 /\ (256 + c) % 256 = c
      OBVIOUS
    <2>4. Times(Unit(c, 1)) = 1 /\ ByteOf(Unit(c, 1)) = c
      BY <2>2, <2>3 DEF Times, ByteOf
    <2>5. Expanded(Unit(c, 1)) = <<c>>
      BY <2>4 DEF Expanded
    <2>6. Unit(c, 1) \in Nat /\ IsUnit(Unit(c, 1))
      BY <2>2 DEF IsUnit, Header
    <2> QED
      BY <2>1, <2>5, <2>6
  <1>1. ASSUME NEW q \in Seq(Bytes)
        PROVE  /\ Singles(q) \in Seq(Nat) /\ Len(Singles(q)) = Len(q)
               /\ \A i \in 1 .. Len(q) : Singles(q)[i] = Unit(q[i], 1)
    <2>1. DOMAIN q = 1 .. Len(q) /\ Len(q) \in Nat
      OBVIOUS
    <2>2. \A i \in 1 .. Len(q) : Unit(q[i], 1) \in Nat
      BY <1>0, ElementOfSeq
    <2> QED
      BY <2>1, <2>2
  <1>2. <<>> \in Q
    <2> DEFINE e == <<>>
    <2>1. e \in Seq(Bytes) /\ Len(e) = 0
      OBVIOUS
    <2> HIDE DEF e
    <2>2. Singles(e) \in Seq(Nat) /\ Len(Singles(e)) = 0
      BY <1>1, <2>1
    <2>3. Singles(e) = <<>> /\ e = <<>>
      <3> HIDE DEF Singles
      <3> QED
        BY <2>1, <2>2, EmptySeq
    <2>4. Content(<<>>) = <<>>
      <3>1. 0 \in Nat
        OBVIOUS
      <3> QED
        BY <2>2, <2>3, <3>1, ContentSteps
    <2> HIDE DEF Singles
    <2> QED
      BY <2>1, <2>3, <2>4
  <1>3. ASSUME NEW q \in Seq(Bytes), NEW b \in Bytes, q \in Q PROVE Append(q, b) \in Q
    <2> DEFINE r == Append(q, b)
    <2>1. /\ r \in Seq(Bytes) /\ Len(r) = Len(q) + 1 /\ Len(q) \in Nat
          /\ \A i \in 1 .. Len(q) : r[i] = q[i]
          /\ r[Len(q) + 1] = b
      BY AppendProperties, LenProperties
    <2> HIDE DEF r
    <2>2. /\ Singles(r) \in Seq(Nat) /\ Len(Singles(r)) = Len(q) + 1
          /\ \A i \in 1 .. Len(q) : Singles(r)[i] = Unit(q[i], 1)
          /\ Singles(r)[Len(q) + 1] = Unit(b, 1)
      <3>1. /\ Singles(r) \in Seq(Nat) /\ Len(Singles(r)) = Len(r)
            /\ \A i \in 1 .. Len(r) : Singles(r)[i] = Unit(r[i], 1)
        BY <1>1, <2>1
      <3> HIDE DEF Singles
      <3> QED
        BY <2>1, <3>1
    <2>3. /\ Singles(q) \in Seq(Nat) /\ Len(Singles(q)) = Len(q)
          /\ \A i \in 1 .. Len(q) : Singles(q)[i] = Unit(q[i], 1)
      BY <1>1
    <2> HIDE DEF Singles
    <2>4. Singles(r) = Append(Singles(q), Unit(b, 1))
      <3> DEFINE a == Append(Singles(q), Unit(b, 1))
      <3>1. /\ a \in Seq(Nat) /\ Len(a) = Len(q) + 1
            /\ \A i \in 1 .. Len(q) : a[i] = Unit(q[i], 1)
            /\ a[Len(q) + 1] = Unit(b, 1)
        <4>1. Unit(b, 1) \in Nat
          BY <1>0
        <4>2. /\ a \in Seq(Nat) /\ Len(a) = Len(Singles(q)) + 1
              /\ \A i \in 1 .. Len(Singles(q)) : a[i] = Singles(q)[i]
              /\ a[Len(Singles(q)) + 1] = Unit(b, 1)
          BY <2>3, <4>1, AppendProperties, SMTT(30)
        <4> HIDE DEF a
        <4> QED
          BY <2>3, <4>2
      <3> HIDE DEF a
      <3>2. ASSUME NEW i \in 1 .. Len(q) + 1 PROVE a[i] = Singles(r)[i]
        <4>1. i \in 1 .. Len(q) \/ i = Len(q) + 1
          BY <2>1
        <4> QED
          BY <2>2, <3>1, <4>1
      <3>3. a = Singles(r)
        BY <2>2, <3>1, <3>2, SameElements
      <3> QED
        BY <3>3 DEF a
    <2>5. Content(Singles(r)) = Content(Singles(q)) \o <<b>>
      <3>1. Unit(b, 1) \in Nat /\ Expanded(Unit(b, 1)) = <<b>>
        BY <1>0
      <3>2. Content(Append(Singles(q), Unit(b, 1))) = Content(Singles(q)) \o Expanded(Unit(b, 1))
        BY <2>3, <3>1, ContentSteps
      <3> QED
        BY <2>4, <3>1, <3>2, Zenon
    <2>6. Content(Singles(q)) = q
      BY <1>3
    <2>7. q \o <<b>> = r
      BY AppendIsConcat DEF r
    <2>8. Content(Singles(r)) = r
      BY <2>5, <2>6, <2>7, Zenon
    <2> QED
      BY <2>1, <2>8 DEF r
  <1>4. \A q \in Seq(Bytes) : q \in Q
    <2> HIDE DEF Q
    <2> QED
      BY <1>2, <1>3, SequenceInduction
  <1>5. Content(Singles(s)) = s
    BY <1>4
  <1>6. Singles(s) \in Seq(Nat)
    BY <1>1
  <1>7. \A i \in 1 .. Len(s) : IsUnit(Unit(s[i], 1))
    BY <1>0, ElementOfSeq
  <1> QED
    BY <1>5, <1>6, <1>7

\* Inflating undoes deflating.
LEMMA DeflatedInflates ==
    ASSUME NEW s \in Seq(Bytes)
    PROVE  Inflated(Deflated(s)) = {s}
  <1> DEFINE u == [i \in DOMAIN s |-> Unit(s[i], 1)]
             v == <<Sum(s)>>
  <1>1. /\ u \in Seq(Nat) /\ Content(u) = s
        /\ \A i \in 1 .. Len(s) : IsUnit(u[i])
        /\ Len(u) = Len(s)
    <2>1. DOMAIN s = 1 .. Len(s) /\ Len(s) \in Nat
      OBVIOUS
    <2>2. u \in Seq(Nat) /\ Content(u) = s /\ \A i \in 1 .. Len(s) : IsUnit(Unit(s[i], 1))
      BY ContentOfSingles
    <2>3. Len(u) = Len(s) /\ \A i \in 1 .. Len(s) : u[i] = Unit(s[i], 1)
      BY <2>1
    <2> HIDE DEF u
    <2> QED
      BY <2>2, <2>3
  <1>2. v \in Seq(Nat) /\ v # <<>> /\ v[1] = Sum(s) /\ ~IsUnit(v[1])
    <2>1. s \in Seq(Nat)
      <3>1. Bytes \subseteq Nat
        BY DEF Bytes
      <3> QED
        BY <3>1, SeqMonotonic
    <2>2. Sum(s) \in Nat /\ ~IsUnit(Sum(s))
      BY <2>1, SumFacts
    <2> QED
      BY <2>2
  <1>3. Deflated(s) = (<<Header>> \o u) \o v
    BY DEF Deflated
  <1> HIDE DEF u, v
  <1>4. Inflated((<<Header>> \o u) \o v) =
            IF v[1] = Sum(Content(u)) THEN {Content(u)} ELSE {}
    BY <1>1, <1>2, InflatedIs
  <1>5. v[1] = Sum(Content(u)) /\ Content(u) = s
    BY <1>1, <1>2
  <1> QED
    BY <1>3, <1>4, <1>5, Zenon

\* A number at the end of one sequence is one at the beginning of the next.
LEMMA AppendMoves ==
    \A s, t \in Seq(Nat), b \in Nat :
        /\ Append(s, b) \o t = s \o (<<b>> \o t)
        /\ s \o Append(t, b) = Append(s \o t, b)
        /\ (<<b>> \o s) \o t = <<b>> \o (s \o t)
  <1> SUFFICES ASSUME NEW s \in Seq(Nat), NEW t \in Seq(Nat), NEW b \in Nat
               PROVE  /\ Append(s, b) \o t = s \o (<<b>> \o t)
                      /\ s \o Append(t, b) = Append(s \o t, b)
                      /\ (<<b>> \o s) \o t = <<b>> \o (s \o t)
    OBVIOUS
  <1>1. Append(s, b) \in Seq(Nat) /\ <<b>> \in Seq(Nat) /\ s \o t \in Seq(Nat)
    BY ConcatProperties
  <1>2. Append(s, b) = s \o <<b>> /\ Append(t, b) = t \o <<b>> /\ Append(s \o t, b) = (s \o t) \o <<b>>
    BY <1>1, AppendIsConcat
  <1>3. (s \o <<b>>) \o t = s \o (<<b>> \o t)
    BY <1>1, Associative, ZenonT(60)
  <1>4. (s \o t) \o <<b>> = s \o (t \o <<b>>)
    BY <1>1, Associative, SMTT(30)
  <1>5. (<<b>> \o s) \o t = <<b>> \o (s \o t)
    BY <1>1, Associative, SMTT(30)
  <1> QED
    BY <1>2, <1>3, <1>4, <1>5, Zenon

\* What is not empty is its first number and the others.
LEMMA FirstAndOthers ==
    ASSUME NEW s \in Seq(Nat), s # <<>>
    PROVE  Head(s) \in Nat /\ Tail(s) \in Seq(Nat) /\ s = <<Head(s)>> \o Tail(s)
  <1> DEFINE a == <<Head(s)>>
             b == Tail(s)
  <1>1. Len(s) \in Nat \ {0} /\ Head(s) = s[1] /\ s[1] \in Nat
    <2>1. Len(s) \in Nat /\ Len(s) # 0
      BY EmptySeq, LenProperties
    <2>2. 1 \in 1 .. Len(s)
      BY <2>1
    <2> QED
      BY <2>1, <2>2, ElementOfSeq
  <1>2. a \in Seq(Nat) /\ Len(a) = 1 /\ a[1] = s[1]
    BY <1>1
  <1>3. b \in Seq(Nat) /\ Len(b) = Len(s) - 1 /\ \A i \in 1 .. Len(s) - 1 : b[i] = s[i + 1]
    BY HeadTailProperties
  <1> HIDE DEF a, b
  <1>4. s = a \o b
    <2>1. a \in Seq(Nat) /\ b \in Seq(Nat) /\ Len(s) = Len(a) + Len(b)
      BY <1>1, <1>2, <1>3
    <2>2. \A i \in 1 .. Len(a) : s[i] = a[i]
      BY <1>2
    <2>3. ASSUME NEW j \in 1 .. Len(b) PROVE s[Len(a) + j] = b[j]
      <3>1. Len(a) + j = j + 1 /\ j \in 1 .. Len(s) - 1
        BY <1>2, <1>3
      <3> QED
        BY <1>3, <3>1
    <2> QED
      BY <2>1, <2>2, <2>3, ConcatIs
  <1> QED
    BY <1>1, <1>3, <1>4 DEF a, b

\* A unit is its byte and what it is when one has been taken off it.
LEMMA ExpandedGoesOn ==
    ASSUME NEW c \in Nat, Times(c) > 0,
           NEW d \in Nat, d = IF Times(c) = 1 THEN 0 ELSE c - Unit(0, 1)
    PROVE  Expanded(c) = <<ByteOf(c)>> \o Expanded(d)
  <1>1. PICK n \in Nat, b \in Nat : n = Times(c) /\ b = ByteOf(c) /\ c = 256 * n + b /\ b < 256
    BY DEF Times, ByteOf
  <1>2. Times(d) = n - 1 /\ (n > 1 => ByteOf(d) = b)
    <2>1. CASE n = 1
      <3>1. d = 0
        BY <1>1, <2>1
      <3> QED
        BY <2>1, <3>1 DEF Times
    <2>2. CASE n # 1
      <3>1. d = 256 * (n - 1) + b
        BY <1>1, <2>2 DEF Unit
      <3>2. PICK m \in Nat : m = n - 1
        BY <1>1, <2>2
      <3>3. (256 * m + b) \div 256 = m /\ (256 * m + b) % 256 = b
        BY <1>1
      <3> QED
        BY <3>1, <3>2, <3>3 DEF Times, ByteOf
    <2> QED
      BY <2>1, <2>2
  <1> DEFINE x == <<b>>
             y == Expanded(d)
             z == Expanded(c)
  <1>3. x \in Seq(Nat) /\ Len(x) = 1 /\ x[1] = b
    OBVIOUS
  <1>4. y \in Seq(Nat) /\ Len(y) = n - 1 /\ \A j \in 1 .. n - 1 : y[j] = b
    <2>1. y \in Seq(Nat) /\ Len(y) = n - 1
      BY <1>2, ExpandedType
    <2>2. y = [j \in 1 .. n - 1 |-> ByteOf(d)]
      BY <1>2 DEF Expanded
    <2>3. ASSUME NEW j \in 1 .. n - 1 PROVE y[j] = b
      <3>1. n > 1
        OBVIOUS
      <3> HIDE DEF y
      <3> QED
        BY <1>2, <2>2, <3>1
    <2> QED
      BY <2>1, <2>3
  <1>5. z \in Seq(Nat) /\ Len(z) = n /\ \A j \in 1 .. n : z[j] = b
    <2>1. z \in Seq(Nat) /\ Len(z) = n
      BY <1>1, ExpandedType
    <2>2. z = [j \in 1 .. n |-> b]
      BY <1>1 DEF Expanded
    <2> QED
      BY <2>1, <2>2
  <1> HIDE DEF x, y, z
  <1>6. z = x \o y
    <2>1. x \in Seq(Nat) /\ y \in Seq(Nat) /\ z \in Seq(Nat) /\ Len(z) = Len(x) + Len(y)
      BY <1>3, <1>4, <1>5
    <2>2. \A i \in 1 .. Len(x) : z[i] = x[i]
      BY <1>1, <1>3, <1>5
    <2>3. ASSUME NEW j \in 1 .. Len(y) PROVE z[Len(x) + j] = y[j]
      <3>1. j \in 1 .. n - 1 /\ Len(x) + j \in 1 .. n
        BY <1>3, <1>4
      <3> QED
        BY <1>4, <1>5, <3>1
    <2> QED
      BY <2>1, <2>2, <2>3, ConcatIs
  <1> QED
    BY <1>1, <1>6 DEF x, y, z

\* Nothing is left of a unit that is used up.
LEMMA NothingExpanded == Expanded(0) = <<>>
  BY DEF Expanded, Times
-----------------------------------------------------------------------------
(* Decoding base64 *)

Sextets(n) ==
    ((n \div 262144) % 64) * 262144 + ((n \div 4096) % 64) * 4096 + ((n \div 64) % 64) * 64
    + (n % 64)

Joined(x, y, z) == x * 65536 + y * 256 + z

IsTriple(n, x, y, z) ==
    /\ n < 256 * 65536
    /\ (n \div 65536) % 256 = x /\ (n \div 256) % 256 = y /\ (n \div 1) % 256 = z
    /\ z = 0 => n % 64 = 0
    /\ y = 0 /\ z = 0 => (n \div 64) % 64 = 0

\* Characters that stand for the sextets, or for none when the rest is zeros.
Spell(t, h, n) ==
    /\ t[h + 1] = (n \div 262144) % 64
    /\ t[h + 2] = (n \div 4096) % 64
    /\ t[h + 3] = (n \div 64) % 64 \/ (t[h + 3] = Pad /\ (n \div 64) % 64 = 0)
    /\ t[h + 4] = n % 64 \/ (t[h + 4] = Pad /\ n % 64 = 0)

\* A number below 2^24 is its four sextets,
LEMMA SextetsOf ==
    ASSUME NEW n \in Nat, n < 256 * 65536
    PROVE  Sextets(n) = n
  <1>1. n \div 262144 \in 0 .. 63
    BY SMT
  <1>2. PICK a \in Nat, b \in Nat, c \in Nat :
            a = n \div 262144 /\ b = n \div 4096 /\ c = n \div 64
    BY SMT
  <1>3. PICK p \in Nat, q \in Nat, r \in Nat : p = b % 64 /\ q = c % 64 /\ r = n % 64
    BY SMT
  <1>4. b = 64 * a + p /\ c = 64 * b + q /\ n = 64 * c + r
    <2>1. /\ n \div 4096 = 64 * (n \div 262144) + ((n \div 4096) % 64)
          /\ n \div 64 = 64 * (n \div 4096) + ((n \div 64) % 64)
          /\ n = 64 * (n \div 64) + (n % 64)
      BY SMT
    <2> QED
      BY <1>2, <1>3, <2>1, SMT
  <1>5. a % 64 = a
    BY <1>1, <1>2, SMT
  <1>6. a * 262144 + p * 4096 + q * 64 + r = n
    BY <1>4, SMT
  <1> QED
    BY <1>2, <1>3, <1>5, <1>6, SMT DEF Sextets

\* and its three bytes, of which the last ones may be zeros.
LEMMA BytesOf ==
    ASSUME NEW x \in 0 .. 255, NEW y \in 0 .. 255, NEW z \in 0 .. 255
    PROVE  Joined(x, y, z) \in Nat /\ IsTriple(Joined(x, y, z), x, y, z)
  <1>0. PICK n \in Nat : n = Joined(x, y, z) /\ n = x * 65536 + y * 256 + z
    BY SMT DEF Joined
  <1>1. n < 256 * 65536
    BY <1>0, SMT
  <1>2. n \div 65536 = x
    BY <1>0, SMT
  <1>3. n \div 256 = 256 * x + y
    BY <1>0, SMT
  <1>4. n % 256 = z /\ n \div 1 = n
    BY <1>0, SMT
  <1>5. (256 * x + y) % 256 = y /\ x % 256 = x
    BY SMT
  <1>6. z = 0 => n % 64 = 0
    BY <1>0, SMT
  <1>7. y = 0 /\ z = 0 => n \div 64 = 1024 * x
    BY <1>0, SMT
  <1>8. (1024 * x) % 64 = 0
    BY SMT
  <1> QED
    BY <1>0, <1>1, <1>2, <1>3, <1>4, <1>5, <1>6, <1>7, <1>8, SMT DEF IsTriple

\* What the characters spell they make again.
LEMMA QuadIs ==
    ASSUME NEW t \in Seq(Nat), NEW h \in Nat, NEW n \in Nat, n < 256 * 65536, Spell(t, h, n)
    PROVE  Quad(t, h) = n
  <1>1. \A m \in Nat : (m % 64) % 64 = m % 64
    BY SMT
  <1>2. /\ n \div 262144 \in Nat /\ n \div 4096 \in Nat /\ n \div 64 \in Nat
        /\ Pad % 64 = 0
    BY SMT DEF Pad
  <1>3. t[h + 1] % 64 = (n \div 262144) % 64 /\ t[h + 2] % 64 = (n \div 4096) % 64
    BY <1>1, <1>2, SMT DEF Spell
  <1>4. t[h + 3] % 64 = (n \div 64) % 64 /\ t[h + 4] % 64 = n % 64
    BY <1>1, <1>2, SMTT(30) DEF Spell
  <1>5. Sextets(n) = n
    BY SextetsOf, SMT
  <1> QED
    <2>1. PICK a \in Nat, b \in Nat, c \in Nat, d \in Nat :
              /\ a = (n \div 262144) % 64 /\ b = (n \div 4096) % 64
              /\ c = (n \div 64) % 64 /\ d = n % 64
      BY <1>2, SMT
    <2>2. Quad(t, h) = a * 262144 + b * 4096 + c * 64 + d
      BY <1>3, <1>4, <2>1, SMTT(30) DEF Quad
    <2>3. Sextets(n) = a * 262144 + b * 4096 + c * 64 + d
      BY <2>1, SMT DEF Sextets
    <2> QED
      BY <1>5, <2>2, <2>3, SMT

\* The four characters of three bytes make those bytes again, with zeros beyond the end.
LEMMA QuadOfTriple ==
    ASSUME NEW s \in Seq(Bytes), NEW t \in Seq(Nat), NEW g \in Nat, NEW h \in Nat, g < Len(s),
           \A k \in 0 .. 3 : t[h + k + 1] = Sextet(s, g, k)
    PROVE  \A k \in 0 .. 2 : Octet(t, h, k) = ByteAt(s, g + k + 1)
  <1>1. \A i \in Nat \ {0} : ByteAt(s, i) \in 0 .. 255
    <2> SUFFICES ASSUME NEW i \in Nat \ {0} PROVE ByteAt(s, i) \in Bytes
      BY DEF Bytes
    <2>1. 0 \in Bytes
      BY DEF Bytes
    <2>2. i <= Len(s) => s[i] \in Bytes
      BY ElementOfSeq
    <2> QED
      BY <2>1, <2>2 DEF ByteAt
  <1>2. PICK x \in 0 .. 255, y \in 0 .. 255, z \in 0 .. 255 :
            x = ByteAt(s, g + 1) /\ y = ByteAt(s, g + 2) /\ z = ByteAt(s, g + 3)
    <2>1. g + 1 \in Nat \ {0} /\ g + 2 \in Nat \ {0} /\ g + 3 \in Nat \ {0}
      BY SMTT(30)
    <2> QED
      BY <1>1, <2>1
  <1>3. PICK n \in Nat : n = Joined(x, y, z) /\ IsTriple(n, x, y, z)
    <2>1. Joined(x, y, z) \in Nat /\ IsTriple(Joined(x, y, z), x, y, z)
      BY BytesOf, Zenon
    <2> QED
      BY <2>1, Zenon
  <1>4. Triple(s, g) = n
    BY <1>2, <1>3, SMT DEF Triple, Joined
  <1>5. PICK l \in Nat : l = Len(s) /\ g < l
    OBVIOUS
  <1>6. (2 > l - g => y = 0 /\ z = 0) /\ (3 > l - g => z = 0)
    BY <1>2, <1>5 DEF ByteAt
  <1>7. /\ t[h + 1] = Sextet(s, g, 0) /\ t[h + 2] = Sextet(s, g, 1)
        /\ t[h + 3] = Sextet(s, g, 2) /\ t[h + 4] = Sextet(s, g, 3)
    <2>1. /\ t[h + 0 + 1] = Sextet(s, g, 0) /\ t[h + 1 + 1] = Sextet(s, g, 1)
          /\ t[h + 2 + 1] = Sextet(s, g, 2) /\ t[h + 3 + 1] = Sextet(s, g, 3)
      OBVIOUS
    <2>2. h + 0 + 1 = h + 1 /\ h + 1 + 1 = h + 2 /\ h + 2 + 1 = h + 3 /\ h + 3 + 1 = h + 4
      OBVIOUS
    <2> QED
      BY <2>1, <2>2
  <1>8. /\ Sextet(s, g, 0) = (n \div 262144) % 64
        /\ Sextet(s, g, 1) = (n \div 4096) % 64
        /\ Sextet(s, g, 2) = (IF 2 > l - g THEN Pad ELSE (n \div 64) % 64)
        /\ Sextet(s, g, 3) = (IF 3 > l - g THEN Pad ELSE n % 64)
    <2>1. ~(0 > l - g) /\ ~(1 > l - g) /\ n \div 1 = n
      BY <1>5, SMTT(30)
    <2> QED
      BY <1>4, <1>5, <2>1, SMT DEF Sextet
  <1>9. Quad(t, h) = n
    <2>1. t[h + 3] = (n \div 64) % 64 \/ (t[h + 3] = Pad /\ (n \div 64) % 64 = 0)
      BY <1>6, <1>3, <1>7, <1>8, SMT DEF IsTriple
    <2>2. t[h + 4] = n % 64 \/ (t[h + 4] = Pad /\ n % 64 = 0)
      BY <1>6, <1>3, <1>7, <1>8, SMT DEF IsTriple
    <2>3. t[h + 1] = (n \div 262144) % 64 /\ t[h + 2] = (n \div 4096) % 64
      BY <1>7, <1>8, SMT
    <2>4. Spell(t, h, n)
      BY <2>1, <2>2, <2>3, SMT DEF Spell
    <2>5. n < 256 * 65536
      BY <1>3, SMT DEF IsTriple
    <2> QED
      BY <2>4, <2>5, QuadIs, SMT
  <1>10. Octet(t, h, 0) = x /\ Octet(t, h, 1) = y /\ Octet(t, h, 2) = z
    BY <1>3, <1>9, SMT DEF Octet, IsTriple
  <1>11. g + 0 + 1 = g + 1 /\ g + 1 + 1 = g + 2 /\ g + 2 + 1 = g + 3 /\ 0 .. 2 = {0, 1, 2}
    OBVIOUS
  <1> QED
    BY <1>2, <1>10, <1>11

LEMMA ZerosType ==
    ASSUME NEW n \in Nat
    PROVE  Zeros(n) \in Seq(Nat) /\ Len(Zeros(n)) = n /\ \A i \in 1 .. n : Zeros(n)[i] = 0
  BY DEF Zeros

\* A place is one of the three that belong to four characters.
LEMMA Threes ==
    ASSUME NEW n \in Nat, NEW i \in 1 .. 3 * n
    PROVE  \E q \in 0 .. n - 1, k \in 0 .. 2 : i = 3 * q + k + 1
  <1>1. (i - 1) \div 3 \in 0 .. n - 1 /\ (i - 1) % 3 \in 0 .. 2
    OBVIOUS
  <1>2. i = 3 * ((i - 1) \div 3) + ((i - 1) % 3) + 1
    OBVIOUS
  <1> QED
    BY <1>1, <1>2

\* What was encoded comes back, with a zero for each byte that is missing in the last three.
LEMMA Base64Inverse ==
    ASSUME NEW s \in Seq(Bytes)
    PROVE  LET n == (Len(s) + 2) \div 3 IN
           /\ n \in Nat /\ 3 * n - Len(s) \in Nat
           /\ Octets(Base64Encode(s)) = s \o Zeros(3 * n - Len(s))
  <1> DEFINE t == Base64Encode(s)
  <1>1. PICK n \in Nat, l \in Nat : n = (Len(s) + 2) \div 3 /\ l = Len(s)
    OBVIOUS
  <1>2. 3 * n - l \in Nat /\ \A q \in 0 .. n - 1 : 3 * q < l
    BY <1>1
  <1>3. s \in Seq(Nat)
    <2>1. Bytes \subseteq Nat
      BY DEF Bytes
    <2> QED
      BY <2>1, SeqMonotonic
  <1>4. /\ t \in Seq(Nat) /\ Len(t) = 4 * n
        /\ \A q \in 0 .. n - 1, k \in 0 .. 3 : t[4 * q + k + 1] = Sextet(s, 3 * q, k)
    BY <1>1, <1>3, Base64EncodeFacts
  <1> HIDE DEF t
  <1>5. Len(t) % 4 = 0 /\ Len(t) \div 4 = n
    BY <1>4
  <1>6. /\ Octets(t) \in Seq(Nat) /\ Len(Octets(t)) = 3 * n
        /\ \A q \in 0 .. n - 1, k \in 0 .. 2 : Octets(t)[3 * q + k + 1] = Octet(t, 4 * q, k)
    BY <1>4, <1>5, OctetsFacts
  <1>7. ASSUME NEW q \in 0 .. n - 1, NEW k \in 0 .. 2
        PROVE  Octets(t)[3 * q + k + 1] = ByteAt(s, 3 * q + k + 1)
    <2>1. PICK g \in Nat, h \in Nat : g = 3 * q /\ h = 4 * q
      OBVIOUS
    <2>2. g < Len(s) /\ \A j \in 0 .. 3 : t[h + j + 1] = Sextet(s, g, j)
      BY <1>1, <1>2, <1>4, <2>1
    <2>3. Octet(t, h, k) = ByteAt(s, g + k + 1)
      BY <1>4, <2>2, QuadOfTriple, ZenonT(60)
    <2> QED
      BY <1>6, <2>1, <2>3
  <1>8. ASSUME NEW i \in 1 .. 3 * n PROVE Octets(t)[i] = ByteAt(s, i)
    <2>1. PICK q \in 0 .. n - 1, k \in 0 .. 2 : i = 3 * q + k + 1
      BY Threes
    <2> QED
      BY <1>7, <2>1
  <1> DEFINE z == Zeros(3 * n - l)
             u == s \o z
  <1>9. z \in Seq(Nat) /\ Len(z) = 3 * n - l /\ \A i \in 1 .. 3 * n - l : z[i] = 0
    BY <1>2, ZerosType
  <1> HIDE DEF z
  <1>10. /\ u \in Seq(Nat) /\ Len(u) = Len(s) + Len(z)
         /\ \A i \in 1 .. Len(s) : u[i] = s[i]
         /\ \A j \in 1 .. Len(z) : u[Len(s) + j] = z[j]
    <2>1. z \in Seq(Nat)
      BY <1>9
    <2> QED
      BY <1>3, <2>1, ConcatElements
  <1> HIDE DEF u
  <1>11. Len(u) = 3 * n
    BY <1>1, <1>2, <1>9, <1>10
  <1>12. ASSUME NEW i \in 1 .. 3 * n PROVE u[i] = ByteAt(s, i)
    <2>1. CASE i <= l
      BY <1>1, <1>10, <2>1 DEF ByteAt
    <2>2. CASE i > l
      <3>1. PICK j \in 1 .. 3 * n - l : i = l + j
        BY <2>2
      <3>2. u[l + j] = z[j] /\ z[j] = 0
        BY <1>1, <1>2, <1>9, <1>10
      <3>3. ByteAt(s, i) = 0
        BY <1>1, <2>2 DEF ByteAt
      <3> QED
        BY <3>1, <3>2, <3>3
    <2> QED
      BY <2>1, <2>2
  <1>13. Octets(t) = u
    <2>1. Octets(t) \in Seq(Nat) /\ u \in Seq(Nat) /\ Len(Octets(t)) = Len(u)
      BY <1>6, <1>10, <1>11
    <2>2. \A i \in 1 .. Len(Octets(t)) : Octets(t)[i] = u[i]
      BY <1>6, <1>8, <1>12
    <2> QED
      BY <2>1, <2>2, SameElements
  <1> QED
    BY <1>1, <1>2, <1>13 DEF t, u, z

\* What is made of fours is decoded piece by piece.
LEMMA OctetsConcat ==
    ASSUME NEW s \in Seq(Nat), NEW t \in Seq(Nat), Len(s) % 4 = 0, Len(t) % 4 = 0
    PROVE  Octets(s \o t) = Octets(s) \o Octets(t)
  <1> DEFINE u == s \o t
             a == Octets(s)
             b == Octets(t)
             c == Octets(u)
  <1>1. PICK m \in Nat, n \in Nat : /\ m = Len(s) \div 4 /\ Len(s) = 4 * m
                                    /\ n = Len(t) \div 4 /\ Len(t) = 4 * n
    <2>1. Len(s) \div 4 \in Nat /\ Len(s) = 4 * (Len(s) \div 4)
      OBVIOUS
    <2>2. Len(t) \div 4 \in Nat /\ Len(t) = 4 * (Len(t) \div 4)
      OBVIOUS
    <2> QED
      BY <2>1, <2>2
  <1>2. /\ u \in Seq(Nat) /\ Len(u) = Len(s) + Len(t)
        /\ \A i \in 1 .. Len(s) : u[i] = s[i]
        /\ \A j \in 1 .. Len(t) : u[Len(s) + j] = t[j]
    BY ConcatElements
  <1>3. /\ a \in Seq(Nat) /\ Len(a) = 3 * m
        /\ \A q \in 0 .. m - 1, k \in 0 .. 2 : a[3 * q + k + 1] = Octet(s, 4 * q, k)
    BY <1>1, OctetsFacts
  <1>4. /\ b \in Seq(Nat) /\ Len(b) = 3 * n
        /\ \A q \in 0 .. n - 1, k \in 0 .. 2 : b[3 * q + k + 1] = Octet(t, 4 * q, k)
    BY <1>1, OctetsFacts
  <1> HIDE DEF u, a, b, c
  <1>5. Len(u) % 4 = 0 /\ Len(u) \div 4 = m + n
    <2>1. Len(u) = 4 * (m + n)
      BY <1>1, <1>2
    <2>2. \A i \in Nat : (4 * i) % 4 = 0 /\ (4 * i) \div 4 = i
      OBVIOUS
    <2> QED
      BY <2>1, <2>2
  <1>6. /\ c \in Seq(Nat) /\ Len(c) = 3 * (m + n)
        /\ \A q \in 0 .. m + n - 1, k \in 0 .. 2 : c[3 * q + k + 1] = Octet(u, 4 * q, k)
    <2>1. u \in Seq(Nat) /\ Len(u) % 4 = 0
      BY <1>2, <1>5
    <2>2. /\ c \in Seq(Nat) /\ Len(c) = 3 * (Len(u) \div 4)
          /\ \A q \in 0 .. (Len(u) \div 4) - 1, k \in 0 .. 2 : c[3 * q + k + 1] = Octet(u, 4 * q, k)
      BY <2>1, OctetsFacts DEF c
    <2>3. PICK p \in Nat : p = Len(u) \div 4 /\ p = m + n
      BY <1>5
    <2>4. /\ c \in Seq(Nat) /\ Len(c) = 3 * p
          /\ \A q \in 0 .. p - 1, k \in 0 .. 2 : c[3 * q + k + 1] = Octet(u, 4 * q, k)
      BY <2>2, <2>3, Zenon
    <2> QED
      BY <2>3, <2>4
  <1>7. /\ \A i \in 1 .. 4 * m : u[i] = s[i]
        /\ \A j \in 1 .. 4 * n : u[4 * m + j] = t[j]
    BY <1>1, <1>2
  <1>8. ASSUME NEW q \in 0 .. m - 1, NEW k \in 0 .. 2 PROVE c[3 * q + k + 1] = a[3 * q + k + 1]
    <2>1. PICK g \in Nat : g = 4 * q /\ g + 1 \in 1 .. 4 * m /\ g + 2 \in 1 .. 4 * m
                           /\ g + 3 \in 1 .. 4 * m /\ g + 4 \in 1 .. 4 * m
      OBVIOUS
    <2>2. u[g + 1] = s[g + 1] /\ u[g + 2] = s[g + 2] /\ u[g + 3] = s[g + 3] /\ u[g + 4] = s[g + 4]
      BY <1>7, <2>1
    <2>3. Octet(u, g, k) = Octet(s, g, k)
      BY <2>2, SMT DEF Octet, Quad
    <2>4. q \in 0 .. m + n - 1
      OBVIOUS
    <2> QED
      BY <1>3, <1>6, <2>1, <2>3, <2>4
  <1>9. ASSUME NEW q \in 0 .. n - 1, NEW k \in 0 .. 2
        PROVE  c[3 * m + (3 * q + k + 1)] = b[3 * q + k + 1]
    <2>1. PICK g \in Nat : g = 4 * q /\ g + 1 \in 1 .. 4 * n /\ g + 2 \in 1 .. 4 * n
                           /\ g + 3 \in 1 .. 4 * n /\ g + 4 \in 1 .. 4 * n
      OBVIOUS
    <2>2. PICK h \in Nat : h = 4 * (m + q) /\ h = 4 * m + g
      BY <2>1
    <2>3. /\ h + 1 = 4 * m + (g + 1) /\ h + 2 = 4 * m + (g + 2)
          /\ h + 3 = 4 * m + (g + 3) /\ h + 4 = 4 * m + (g + 4)
      BY <2>2
    <2>4. u[h + 1] = t[g + 1] /\ u[h + 2] = t[g + 2] /\ u[h + 3] = t[g + 3] /\ u[h + 4] = t[g + 4]
      BY <1>7, <2>1, <2>3
    <2>5. Octet(u, h, k) = Octet(t, g, k)
      BY <2>4, SMT DEF Octet, Quad
    <2>6. m + q \in 0 .. m + n - 1 /\ 3 * (m + q) + k + 1 = 3 * m + (3 * q + k + 1)
      OBVIOUS
    <2>7. c[3 * (m + q) + k + 1] = Octet(u, h, k)
      BY <1>6, <2>2, <2>6
    <2> QED
      BY <1>4, <2>1, <2>5, <2>6, <2>7
  <1> DEFINE e == a \o b
  <1>10. /\ e \in Seq(Nat) /\ Len(e) = Len(a) + Len(b)
         /\ \A i \in 1 .. Len(a) : e[i] = a[i]
         /\ \A j \in 1 .. Len(b) : e[Len(a) + j] = b[j]
    <2>1. a \in Seq(Nat) /\ b \in Seq(Nat)
      BY <1>3, <1>4
    <2> QED
      BY <2>1, ConcatElements
  <1> HIDE DEF e
  <1>11. ASSUME NEW i \in 1 .. 3 * (m + n) PROVE c[i] = e[i]
    <2>1. CASE i <= 3 * m
      <3>1. i \in 1 .. 3 * m
        BY <2>1
      <3>2. PICK q \in 0 .. m - 1, k \in 0 .. 2 : i = 3 * q + k + 1
        BY <3>1, Threes
      <3> QED
        BY <1>3, <1>8, <1>10, <3>1, <3>2
    <2>2. CASE i > 3 * m
      <3>1. PICK j \in 1 .. 3 * n : i = 3 * m + j
        BY <2>2
      <3>2. PICK q \in 0 .. n - 1, k \in 0 .. 2 : j = 3 * q + k + 1
        BY Threes
      <3>3. c[i] = b[j]
        BY <1>9, <3>1, <3>2
      <3> QED
        BY <1>3, <1>4, <1>10, <3>1, <3>3
    <2> QED
      BY <2>1, <2>2
  <1>12. c = e
    <2>1. c \in Seq(Nat) /\ e \in Seq(Nat) /\ Len(c) = 3 * (m + n) /\ Len(e) = 3 * (m + n)
      BY <1>3, <1>4, <1>6, <1>10
    <2>2. Len(c) = Len(e) /\ \A i \in 1 .. Len(c) : c[i] = e[i]
      BY <1>11, <2>1
    <2> QED
      BY <2>1, <2>2, SameElements
  <1> QED
    BY <1>12 DEF u, a, b, c, e

LEMMA SomeLength ==
    ASSUME NEW S, NEW s \in Seq(S), s # <<>>
    PROVE  \E l \in Nat : l = Len(s) /\ l > 0 /\ DOMAIN s = 1 .. l
  <1>1. Len(s) \in Nat /\ DOMAIN s = 1 .. Len(s)
    BY LenProperties
  <1>2. Len(s) # 0
    BY EmptySeq
  <1>3. Len(s) > 0
    BY <1>1, <1>2
  <1> QED
    BY <1>1, <1>3, Zenon

\* Without a blank at the beginning only the end is taken off.
LEMMA TrimmedTo ==
    ASSUME NEW t \in Seq(Nat), t # <<>>, t[1] # Blank,
           NEW n \in Inked(t), \A y \in Inked(t) : y <= n
    PROVE  Trimmed(t) = SubSeq(t, 1, n)
  <1>1. PICK l \in Nat : l = Len(t) /\ l > 0 /\ DOMAIN t = 1 .. l
    BY SomeLength
  <1>2. PICK m \in 0 .. Len(t) : \E k \in 0 .. Len(t) - m :
            LET u == SubSeq(t, 1 + m, Len(t)) IN
            /\ m \in Untrimmed(t)
            /\ k \in Inked(u) /\ \A y \in Inked(u) : y <= k
            /\ Trimmed(t) = SubSeq(u, 1, k)
    BY TrimmedIs
  <1>3. m = 0
    <2>1. \A i \in 1 .. m : t[i] = Blank
      BY <1>2 DEF Untrimmed
    <2> QED
      BY <1>1, <2>1
  <1>4. SubSeq(t, 1 + m, Len(t)) = t
    <2>1. SubSeq(t, 1, Len(t)) = t
      BY SubSeqFull
    <2> QED
      BY <1>3, <2>1
  <1>5. PICK k \in 0 .. Len(t) - m :
            /\ k \in Inked(t) /\ \A y \in Inked(t) : y <= k
            /\ Trimmed(t) = SubSeq(t, 1, k)
    BY <1>2, <1>4
  <1>6. n \in Int /\ k \in Int
    BY <1>1, <1>5 DEF Inked
  <1>7. k = n
    BY <1>5, <1>6
  <1> QED
    BY <1>5, <1>7

\* A text without blanks and newlines stays what it is,
LEMMA TextDecodes ==
    ASSUME NEW t \in Seq(0 .. Pad), t # <<>>, Len(t) % 4 = 0
    PROVE  Base64Decode(t) = {Octets(t)}
  <1>1. t \in Seq(Nat)
    <2>1. 0 .. Pad \subseteq Nat
      BY DEF Pad
    <2> QED
      BY <2>1, SeqMonotonic
  <1>2. PICK l \in Nat : l = Len(t) /\ l > 0 /\ DOMAIN t = 1 .. l
    BY <1>1, SomeLength
  <1>3. \A i \in 1 .. l : t[i] \in 0 .. Pad
    BY <1>2, ElementOfSeq
  <1>4. \A i \in 1 .. l : t[i] \notin {Blank, Newline} /\ t[i] <= Pad
    <2>1. \A v \in 0 .. Pad : v \notin {Blank, Newline} /\ v <= Pad
      BY DEF Pad, Blank, Newline
    <2> QED
      BY <1>3, <2>1, Zenon
  <1>5. l \in Inked(t) /\ \A y \in Inked(t) : y <= l
    BY <1>2, <1>4 DEF Inked
  <1>6. t[1] # Blank
    BY <1>2, <1>4
  <1>7. Trimmed(t) = t
    <2>1. Trimmed(t) = SubSeq(t, 1, l)
      BY <1>1, <1>5, <1>6, TrimmedTo
    <2>2. SubSeq(t, 1, Len(t)) = t
      BY SubSeqFull
    <2> QED
      BY <1>2, <2>1, <2>2
  <1> QED
    <2>1. ~(Len(t) % 4 # 0 \/ \E i \in DOMAIN t : t[i] > Pad)
      <3>1. \A v \in 0 .. Pad : ~(v > Pad)
        BY DEF Pad
      <3>2. \A i \in DOMAIN t : ~(t[i] > Pad)
        BY <1>2, <1>3, <3>1, Zenon
      <3> QED
        BY <3>2, Zenon
    <2> QED
      BY <1>7, <2>1, Zenon DEF Base64Decode

\* a newline after it is taken off,
LEMMA NewlineIsTrimmed ==
    ASSUME NEW t \in Seq(0 .. Pad), t # <<>>, Len(t) % 4 = 0
    PROVE  Base64Decode(t \o <<Newline>>) = {Octets(t)}
  <1> DEFINE e == <<Newline>>
             w == t \o e
  <1>1. t \in Seq(Nat)
    <2>1. 0 .. Pad \subseteq Nat
      BY DEF Pad
    <2> QED
      BY <2>1, SeqMonotonic
  <1>2. PICK l \in Nat : l = Len(t) /\ l > 3 /\ DOMAIN t = 1 .. l
    <2>1. PICK l \in Nat : l = Len(t) /\ l > 0 /\ DOMAIN t = 1 .. l
      BY <1>1, SomeLength
    <2>2. l % 4 = 0
      BY <2>1
    <2>3. l > 3
      BY <2>1, <2>2
    <2> QED
      BY <2>1, <2>3
  <1>3. \A i \in 1 .. l : t[i] \in 0 .. Pad
    BY <1>2, ElementOfSeq
  <1>4. \A i \in 1 .. l : t[i] \notin {Blank, Newline} /\ t[i] <= Pad
    <2>1. \A v \in 0 .. Pad : v \notin {Blank, Newline} /\ v <= Pad
      BY DEF Pad, Blank, Newline
    <2> QED
      BY <1>3, <2>1, Zenon
  <1>5. e \in Seq(Nat) /\ Len(e) = 1 /\ e[1] = Newline
    BY DEF Newline
  <1> HIDE DEF e
  <1>6. /\ w \in Seq(Nat) /\ Len(w) = Len(t) + Len(e)
        /\ \A i \in 1 .. Len(t) : w[i] = t[i]
        /\ \A j \in 1 .. Len(e) : w[Len(t) + j] = e[j]
    <2>1. e \in Seq(Nat)
      BY <1>5
    <2> QED
      BY <1>1, <2>1, ConcatElements
  <1> HIDE DEF w
  <1>7. /\ Len(w) = l + 1 /\ DOMAIN w = 1 .. l + 1
        /\ \A i \in 1 .. l : w[i] = t[i]
        /\ w[l + 1] = Newline
    BY <1>2, <1>5, <1>6, LenProperties
  <1>8. l \in Inked(w) /\ \A y \in Inked(w) : y <= l
    BY <1>2, <1>4, <1>7 DEF Inked
  <1>9. w # <<>> /\ w[1] # Blank
    <2>1. Len(w) # 0
      BY <1>7
    <2>2. w[1] # Blank
      BY <1>2, <1>4, <1>7
    <2> QED
      BY <2>1, <2>2, EmptySeq, Zenon
  <1>10. Trimmed(w) = SubSeq(w, 1, l)
    BY <1>6, <1>8, <1>9, TrimmedTo
  <1>11. SubSeq(w, 1, l) = t
    <2>1. /\ SubSeq(w, 1, l) \in Seq(Nat) /\ Len(SubSeq(w, 1, l)) = l
          /\ \A i \in 1 .. l : SubSeq(w, 1, l)[i] = w[i]
      <3>1. w \in Seq(Nat) /\ 1 \in Nat \ {0} /\ l \in 0 .. Len(w)
        BY <1>6, <1>7
      <3>2. /\ SubSeq(w, 1, l) \in Seq(Nat)
            /\ Len(SubSeq(w, 1, l)) = IF 1 <= l THEN l - 1 + 1 ELSE 0
            /\ \A i \in 1 .. l - 1 + 1 : SubSeq(w, 1, l)[i] = w[1 + i - 1]
        BY <3>1, PartType
      <3>3. l - 1 + 1 = l /\ (IF 1 <= l THEN l - 1 + 1 ELSE 0) = l
            /\ \A i \in Nat : 1 + i - 1 = i
        OBVIOUS
      <3> QED
        BY <3>2, <3>3
    <2> DEFINE v == SubSeq(w, 1, l)
    <2> HIDE DEF v
    <2>2. v \in Seq(Nat) /\ Len(v) = Len(t) /\ \A i \in 1 .. Len(v) : v[i] = t[i]
      BY <1>2, <1>7, <2>1 DEF v
    <2>3. v = t
      BY <1>1, <2>2, SameElements
    <2> QED
      BY <2>3 DEF v
  <1>12. Base64Decode(w) = {Octets(t)}
    <2>1. ~(Len(t) % 4 # 0 \/ \E i \in DOMAIN t : t[i] > Pad)
      <3>1. \A v \in 0 .. Pad : ~(v > Pad)
        BY DEF Pad
      <3>2. \A i \in DOMAIN t : ~(t[i] > Pad)
        BY <1>2, <1>3, <3>1, Zenon
      <3> QED
        BY <3>2, Zenon
    <2> QED
      BY <1>10, <1>11, <2>1, Zenon DEF Base64Decode
  <1> QED
    BY <1>12 DEF w, e

\* but not when there is nothing else.
LEMMA NewlineIsRefused == Base64Decode(<<Newline>>) = {}
  <1> DEFINE e == <<Newline>>
  <1>1. e \in Seq(Nat) /\ Len(e) = 1 /\ e[1] = Newline /\ e # <<>> /\ DOMAIN e = {1}
    BY DEF Newline
  <1> HIDE DEF e
  <1>2. e[1] # Blank
    BY <1>1 DEF Newline, Blank
  <1>3. 1 \in Inked(e) /\ \A y \in Inked(e) : y <= 1
    BY <1>1 DEF Inked
  <1>4. Trimmed(e) = SubSeq(e, 1, 1)
    BY <1>1, <1>2, <1>3, TrimmedTo
  <1>5. SubSeq(e, 1, Len(e)) = e
    BY <1>1, SubSeqFull
  <1>6. Len(Trimmed(e)) % 4 # 0
    BY <1>1, <1>4, <1>5
  <1> QED
    BY <1>6 DEF Base64Decode, e

LEMMA OctetsOfNothing == Octets(<<>>) = <<>>
  <1> DEFINE e == <<>>
  <1>1. e \in Seq(Nat) /\ Len(e) = 0
    BY EmptySeq
  <1> HIDE DEF e
  <1>2. Len(e) % 4 = 0 /\ Len(e) \div 4 = 0
    BY <1>1
  <1>3. Octets(e) \in Seq(Nat) /\ Len(Octets(e)) = 3 * (Len(e) \div 4)
    BY <1>1, <1>2, OctetsFacts
  <1>4. Len(Octets(e)) = 0
    BY <1>2, <1>3
  <1> QED
    BY <1>3, <1>4, EmptySeq DEF e

LEMMA Fours ==
    ASSUME NEW m \in Nat, m % 4 = 0
    PROVE  /\ (m + 1) % 4 # 0
           /\ \A n \in Nat : (m + n) % 4 = 0 => n % 4 = 0
  <1>1. PICK j \in Nat : m = 4 * j
    <2>1. m = 4 * (m \div 4) /\ m \div 4 \in Nat
      OBVIOUS
    <2> QED
      BY <2>1
  <1>2. (4 * j + 1) % 4 = 1
    OBVIOUS
  <1>3. \A n \in Nat : (4 * j + n) % 4 = n % 4
    OBVIOUS
  <1> QED
    BY <1>1, <1>2, <1>3

\* What base64-encode makes, and what may be after it.
Texts == {t \in Seq(0 .. Pad) : t # <<>> /\ Len(t) % 4 = 0}
Ends == {<<>>, <<Newline>>}

LEMMA TextsAreNumbers == Seq(0 .. Pad) \subseteq Seq(Nat) /\ Ends \subseteq Seq(Nat)
  <1>1. 0 .. Pad \subseteq Nat
    BY DEF Pad
  <1>2. Seq(0 .. Pad) \subseteq Seq(Nat)
    BY <1>1, SeqMonotonic
  <1>3. <<>> \in Seq(Nat) /\ <<Newline>> \in Seq(Nat)
    BY DEF Newline
  <1> QED
    BY <1>2, <1>3 DEF Ends

\* What begins text t is d, and f is what follows it, with e at the end.
Continues(t, e, d, f) == d \in Seq(0 .. Pad) /\ \E y \in Seq(0 .. Pad) : t = d \o y /\ f = y \o e

\* A beginning of the whole that is not longer than the text begins the text.
LEMMA Beginning ==
    ASSUME NEW t \in Seq(0 .. Pad), NEW e \in Seq(Nat), NEW d \in Seq(Nat), NEW f \in Seq(Nat),
           t \o e = d \o f, Len(d) <= Len(t)
    PROVE  Continues(t, e, d, f)
  <1> DEFINE a == SubSeq(t, 1, Len(d))
             y == SubSeq(t, Len(d) + 1, Len(t))
  <1>1. t \in Seq(Nat)
    BY TextsAreNumbers
  <1>2. a \in Seq(0 .. Pad) /\ Len(a) = Len(d) /\ y \in Seq(0 .. Pad) /\ t = a \o y
    <2>1. Len(d) \in 0 .. Len(t)
      BY LenProperties
    <2> QED
      BY <2>1, Cut, ZenonT(60)
  <1> HIDE DEF a, y
  <1>3. a \in Seq(Nat) /\ y \in Seq(Nat)
    BY <1>2, TextsAreNumbers
  <1>4. \A i \in 1 .. Len(a) : t[i] = a[i]
    BY <1>2, <1>3, ConcatElements
  <1>5. \A i \in 1 .. Len(t) : (t \o e)[i] = t[i]
    BY <1>1, ConcatElements
  <1>6. \A i \in 1 .. Len(d) : (d \o f)[i] = d[i]
    BY ConcatElements
  <1>7. a = d
    <2>1. Len(d) \in Nat /\ Len(t) \in Nat /\ Len(d) <= Len(t)
      BY LenProperties
    <2>2. \A i \in 1 .. Len(d) : i \in 1 .. Len(t)
      BY <2>1
    <2>3. \A i \in 1 .. Len(d) : a[i] = d[i]
      BY <1>2, <1>4, <1>5, <1>6, <2>2, Zenon
    <2> QED
      BY <1>2, <1>3, <2>3, SameElements
  <1>8. f = y \o e
    <2>1. t \o e = d \o (y \o e)
      BY <1>2, <1>3, <1>7, Associative, ZenonT(60)
    <2>2. y \o e \in Seq(Nat)
      BY <1>3, ConcatProperties
    <2>3. \A u, v, w \in Seq(Nat) : u \o v = u \o w => v = w
      BY ConcatSimplifications
    <2>4. d \o f = d \o (y \o e)
      BY <2>1
    <2> QED
      BY <2>2, <2>3, <2>4, Zenon
  <1> QED
    BY <1>2, <1>7, <1>8, Zenon DEF Continues

\* A piece of what is left of a text, made of fours or the last one: it is text, the last of
\* the text with a newline after it, or only the newline.
IsPiece(y, e, c, r) ==
    \/ /\ Len(c) % 4 = 0
       /\ Base64Decode(c) = {Octets(c)}
       /\ r = <<>> => e = <<>> /\ c = y
    \/ /\ r = <<>> /\ e = <<Newline>> /\ Len(c) = Len(y) + 1 /\ Len(c) % 4 # 0
       /\ Base64Decode(c) = IF y = <<>> THEN {} ELSE {Octets(y)}

LEMMA PieceOfText ==
    ASSUME NEW y \in Seq(0 .. Pad), Len(y) % 4 = 0, NEW e \in Ends,
           NEW c \in Seq(Nat), NEW r \in Seq(Nat), c # <<>>,
           y \o e = c \o r, r = <<>> \/ Len(c) % 4 = 0
    PROVE  IsPiece(y, e, c, r)
  <1>0. y \in Seq(Nat) /\ e \in Seq(Nat)
    BY TextsAreNumbers
  <1>1. PICK k \in Nat, l \in Nat, m \in Nat, n \in Nat :
            k = Len(y) /\ l = Len(e) /\ m = Len(c) /\ n = Len(r)
    BY <1>0, LenProperties
  <1>2. k + l = m + n
    <2>1. Len(y \o e) = k + l
      BY <1>0, <1>1, ConcatElements
    <2>2. Len(c \o r) = m + n
      BY <1>1, ConcatElements
    <2> QED
      BY <2>1, <2>2
  <1>3. (e = <<>> /\ l = 0) \/ (e = <<Newline>> /\ l = 1)
    BY <1>1 DEF Ends
  <1>4. m # 0 /\ (r = <<>> => n = 0) /\ k % 4 = 0
    BY <1>1, EmptySeq
  <1>5. CASE m % 4 = 0
    <2>0. m # k + 1
      <3>1. k % 4 = 0
        BY <1>4
      <3>2. (k + 1) % 4 # 0
        BY <3>1, Fours
      <3> QED
        BY <1>5, <3>2
    <2>1. m <= k
      <3>1. l = 0 \/ l = 1
        BY <1>3
      <3> QED
        BY <1>2, <2>0, <3>1
    <2>2. c \in Seq(0 .. Pad)
      <3>1. Len(c) <= Len(y) /\ y \o e = c \o r
        BY <1>1, <2>1
      <3>2. Continues(y, e, c, r)
        BY <1>0, <3>1, Beginning
      <3> QED
        BY <3>2 DEF Continues
    <2>3. Base64Decode(c) = {Octets(c)}
      BY <1>1, <1>5, <2>2, TextDecodes
    <2>4. r = <<>> => e = <<>> /\ c = y
      <3> SUFFICES ASSUME r = <<>> PROVE e = <<>> /\ c = y
        OBVIOUS
      <3>1. e = <<>>
        <4>1. n = 0
          BY <1>4
        <4>2. l = 1 => m = k + 1
          BY <1>2, <4>1
        <4> QED
          BY <1>3, <2>0, <4>2
      <3>2. y \o <<>> = y /\ c \o <<>> = c
        BY <1>0, ConcatEmptySeq
      <3> QED
        BY <3>1, <3>2
    <2> QED
      BY <1>1, <1>5, <2>3, <2>4 DEF IsPiece
  <1>6. CASE m % 4 # 0
    <2>1. r = <<>> /\ n = 0
      BY <1>1, <1>4, <1>6
    <2>2. e = <<Newline>> /\ m = k + 1
      BY <1>2, <1>3, <1>4, <1>6, <2>1
    <2>3. c = y \o <<Newline>>
      <3>1. c \o <<>> = c
        BY ConcatEmptySeq
      <3> QED
        BY <2>1, <2>2, <3>1
    <2>4. Base64Decode(c) = IF y = <<>> THEN {} ELSE {Octets(y)}
      <3>1. CASE y = <<>>
        <4>1. <<>> \o <<Newline>> = <<Newline>>
          BY <1>0, <2>2, ConcatEmptySeq
        <4>2. c = <<Newline>>
          BY <2>3, <3>1, <4>1
        <4> QED
          BY <3>1, <4>2, NewlineIsRefused
      <3>2. CASE y # <<>>
        BY <2>3, <3>2, NewlineIsTrimmed
      <3> QED
        BY <3>1, <3>2
    <2> QED
      BY <1>1, <1>6, <2>1, <2>2, <2>4 DEF IsPiece
  <1> QED
    BY <1>5, <1>6
=============================================================================
