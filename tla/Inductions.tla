----------------------------- MODULE Inductions -----------------------------
(***************************************************************************)
(* Induction over the natural numbers and over sequences, and functions    *)
(* defined by iterating another one along a sequence, in a form without    *)
(* parameters that are operators; and what they are used for, the front,   *)
(* the last element and the prefixes of a sequence.                        *)
(***************************************************************************)
EXTENDS Integers, SequencesExt, SequenceTheorems, WellFoundedInduction, TLAPS

\* A set of natural numbers has a least element.
LEMMA LeastNatural ==
    ASSUME NEW T, T \subseteq Nat, T # {}
    PROVE  \E x \in T : \A y \in T : x <= y
  <1> DEFINE Less == {ss \in Nat \X Nat : ss[1] < ss[2]}
  <1>1. IsWellFoundedOn(Less, Nat)
    BY NatLessThanWellFounded DEF OpToRel
  <1>2. \E x \in T : \A y \in T : <<y, x>> \notin Less
    <2> HIDE DEF Less
    <2> QED
      BY <1>1, WFMin
  <1>3. PICK x \in T : \A y \in T : <<y, x>> \notin Less
    BY <1>2
  <1>4. ASSUME NEW y \in T PROVE x <= y
    <2>1. ~(y < x)
      BY <1>3
    <2> QED
      BY <2>1
  <1> QED
    BY <1>4

\* What 0 is in, and with every number its successor, has all numbers in it.
LEMMA Induction ==
    ASSUME NEW S, 0 \in S, \A n \in Nat : n \in S => n + 1 \in S
    PROVE  \A n \in Nat : n \in S
  <1> DEFINE T == Nat \ S
  <1> SUFFICES ASSUME T # {} PROVE FALSE
    OBVIOUS
  <1>1. PICK x \in T : \A y \in T : x <= y
    BY LeastNatural
  <1>2. x # 0 /\ x - 1 \in Nat
    OBVIOUS
  <1>3. x - 1 \in S
    BY <1>1, <1>2
  <1> QED
    BY <1>2, <1>3

\* The same up to a bound.
LEMMA InductionUpTo ==
    ASSUME NEW m \in Nat, NEW S, 0 \in S, \A n \in 0 .. m - 1 : n \in S => n + 1 \in S
    PROVE  \A n \in 0 .. m : n \in S
  <1> DEFINE T == S \cup {n \in Nat : n > m}
  <1>1. 0 \in T
    OBVIOUS
  <1>2. ASSUME NEW n \in Nat, n \in T PROVE n + 1 \in T
    <2>1. CASE n >= m
      BY <2>1
    <2>2. CASE n < m
      <3>1. n \in 0 .. m - 1 /\ n \in S
        BY <1>2, <2>2
      <3> QED
        BY <3>1
    <2> QED
      BY <2>1, <2>2
  <1>3. \A n \in Nat : n \in T
    <2> HIDE DEF T
    <2> QED
      BY <1>1, <1>2, Induction
  <1> QED
    BY <1>3

Steps(A, B) == [A \X B -> A]

\* The functions that begin with a and do a step with every element of a sequence.
Runs(A, D, a, s) ==
    {f \in [0 .. Len(s) -> A] :
        f[0] = a /\ \A i \in 1 .. Len(s) : f[i] = D[<<f[i - 1], s[i]>>]}

\* A function can be iterated along a sequence.
LEMMA Iteration ==
    ASSUME NEW A, NEW B, NEW D \in Steps(A, B), NEW a \in A, NEW s \in Seq(B)
    PROVE  Runs(A, D, a, s) # {}
  <1> DEFINE Iterates(f, n) == /\ f \in [0 .. n -> A]
                               /\ f[0] = a
                               /\ \A i \in 1 .. n : f[i] = D[<<f[i - 1], s[i]>>]
             S == {n \in Nat : \E f : Iterates(f, n)}
  <1>0. Len(s) \in Nat
    OBVIOUS
  <1>1. 0 \in S
    <2>1. Iterates([i \in 0 .. 0 |-> a], 0)
      OBVIOUS
    <2> QED
      BY <2>1
  <1>2. ASSUME NEW n \in 0 .. Len(s) - 1, n \in S PROVE n + 1 \in S
    <2>1. PICK f : Iterates(f, n)
      BY <1>2
    <2> DEFINE g == [i \in 0 .. n + 1 |-> IF i = n + 1 THEN D[<<f[n], s[n + 1]>>] ELSE f[i]]
    <2>2. f[n] \in A /\ s[n + 1] \in B
      BY <2>1
    <2>3. D[<<f[n], s[n + 1]>>] \in A
      BY <2>2 DEF Steps
    <2>4. g \in [0 .. n + 1 -> A] /\ g[0] = a
      BY <2>1, <2>3
    <2>5. ASSUME NEW i \in 1 .. n + 1 PROVE g[i] = D[<<g[i - 1], s[i]>>]
      <3>1. CASE i = n + 1
        <4>1. g[i] = D[<<f[n], s[n + 1]>>] /\ g[i - 1] = f[n]
          BY <3>1
        <4> QED
          BY <3>1, <4>1
      <3>2. CASE i # n + 1
        <4>1. i \in 1 .. n /\ g[i] = f[i] /\ g[i - 1] = f[i - 1]
          BY <3>2
        <4> QED
          BY <2>1, <4>1
      <3> QED
        BY <3>1, <3>2
    <2>6. Iterates(g, n + 1)
      BY <2>4, <2>5
    <2>7. \E h : Iterates(h, n + 1)
      <3> HIDE DEF Iterates, g
      <3> QED
        BY <2>6
    <2> QED
      BY <2>7
  <1>3. Len(s) \in S
    <2> HIDE DEF S
    <2>1. \A n \in 0 .. Len(s) : n \in S
      BY <1>0, <1>1, <1>2, InductionUpTo
    <2> QED
      BY <1>0, <2>1
  <1> QED
    BY <1>3 DEF Runs
-----------------------------------------------------------------------------
\* A sequence of one element.
LEMMA Singleton ==
    ASSUME NEW S, NEW e \in S
    PROVE  <<e>> \in Seq(S) /\ Len(<<e>>) = 1 /\ <<e>>[1] = e /\ Append(<<>>, e) = <<e>>
  OBVIOUS

\* A sequence that is not empty is its front and its last element.
LEMMA FrontAndLast ==
    ASSUME NEW S, NEW s \in Seq(S), s # <<>>
    PROVE  /\ Len(s) \in Nat \ {0}
           /\ Front(s) \in Seq(S) /\ Len(Front(s)) = Len(s) - 1
           /\ \A i \in 1 .. Len(s) - 1 : Front(s)[i] = s[i]
           /\ Last(s) \in S
           /\ s = Append(Front(s), Last(s))
  <1>1. Len(s) \in Nat \ {0}
    BY EmptySeq
  <1>2. /\ Front(s) \in Seq(S) /\ Len(Front(s)) = Len(s) - 1
        /\ \A i \in 1 .. Len(s) - 1 : Front(s)[i] = s[i]
    <2> DEFINE n == Len(s) - 1
    <2>1. n \in Nat /\ \A i \in 1 .. n : s[i] \in S
      BY <1>1
    <2>2. /\ SubSeq(s, 1, n) \in Seq(S) /\ Len(SubSeq(s, 1, n)) = IF 1 <= n THEN n - 1 + 1 ELSE 0
          /\ \A i \in 1 .. n - 1 + 1 : SubSeq(s, 1, n)[i] = s[1 + i - 1]
      <3> HIDE DEF n
      <3> QED
        BY <2>1, SubSeqProperties
    <2>3. n - 1 + 1 = n /\ (~(1 <= n) => n = 0) /\ \A i \in 1 .. n : 1 + i - 1 = i
      <3> n \in Nat
        BY <2>1
      <3> HIDE DEF n
      <3> QED
        OBVIOUS
    <2>4. Len(SubSeq(s, 1, n)) = n /\ \A i \in 1 .. n : SubSeq(s, 1, n)[i] = s[i]
      <3> HIDE DEF n
      <3> QED
        BY <2>1, <2>2, <2>3
    <2> QED
      BY <2>2, <2>4 DEF Front
  <1>3. Last(s) \in S
    BY <1>1 DEF Last
  <1>4. s = Append(Front(s), Last(s))
    <2> DEFINE t == Append(Front(s), Last(s))
    <2>1. t \in Seq(S) /\ Len(t) = Len(s)
      BY <1>1, <1>2, <1>3
    <2>2. \A i \in 1 .. Len(s) : t[i] = s[i]
      BY <1>1, <1>2, <1>3, <2>1 DEF Last
    <2> HIDE DEF t
    <2>3. s = t
      BY <2>1, <2>2, SeqEqual
    <2> QED
      BY <2>3 DEF t
  <1> QED
    BY <1>1, <1>2, <1>3, <1>4

\* A sequence of two.
LEMMA Pair ==
    ASSUME NEW S, NEW d \in S, NEW e \in S
    PROVE  <<d, e>> \in Seq(S) /\ Append(<<d>>, e) = <<d, e>>
  <1> DEFINE s == <<d>>
             t == <<d, e>>
  <1>1. s \in Seq(S) /\ Len(s) = 1 /\ s[1] = d
    OBVIOUS
  <1>2. t \in Seq(S) /\ Len(t) = 2 /\ t[1] = d /\ t[2] = e
    OBVIOUS
  <1> HIDE DEF s, t
  <1>3. t # <<>>
    <2>1. Len(<<>>) = 0
      OBVIOUS
    <2>2. t = <<>> => Len(t) = 0
      BY <2>1, Zenon
    <2> QED
      BY <1>2, <2>2
  <1>4. /\ Front(t) \in Seq(S) /\ Len(Front(t)) = 1 /\ Front(t)[1] = d
        /\ t = Append(Front(t), Last(t))
    <2>1. /\ Front(t) \in Seq(S) /\ Len(Front(t)) = Len(t) - 1
          /\ t = Append(Front(t), Last(t))
      BY <1>2, <1>3, FrontAndLast
    <2>2. \A i \in 1 .. Len(t) - 1 : Front(t)[i] = t[i]
      BY <1>2, <1>3, FrontAndLast
    <2>3. Len(t) - 1 = 1 /\ 1 \in 1 .. 1
      BY <1>2
    <2>4. \A i \in 1 .. 1 : Front(t)[i] = t[i]
      BY <2>2, <2>3
    <2>5. Front(t)[1] = t[1]
      BY <2>3, <2>4
    <2> QED
      BY <1>2, <2>1, <2>3, <2>5
  <1>5. Front(t) = s
    BY <1>1, <1>4, SeqEqual
  <1>6. Last(t) = e
    BY <1>2 DEF Last
  <1>7. <<d, e>> \in Seq(S) /\ Append(<<d>>, e) = t
    BY <1>2, <1>4, <1>5, <1>6 DEF s, t
  <1> QED
    BY <1>7 DEF t

\* Both are what an element was appended to and that element.
LEMMA FrontAndLastOfAppend ==
    ASSUME NEW S, NEW s \in Seq(S), NEW e \in S
    PROVE  Front(Append(s, e)) = s /\ Last(Append(s, e)) = e
  <1> DEFINE t == Append(s, e)
  <1>1. t \in Seq(S) /\ t # <<>>
    BY AppendProperties
  <1>2. t = Append(Front(t), Last(t)) /\ Front(t) \in Seq(S) /\ Last(t) \in S
    <2> HIDE DEF t
    <2> QED
      BY <1>1, FrontAndLast
  <1> QED
    BY <1>2, AppendInjective

\* What the empty sequence is in, and with every sequence each one that is longer by
\* one element, has all sequences in it.
LEMMA SequenceInduction ==
    ASSUME NEW S, NEW Q, <<>> \in Q,
           \A s \in Seq(S), e \in S : s \in Q => Append(s, e) \in Q
    PROVE  \A s \in Seq(S) : s \in Q
  <1> DEFINE L == {n \in Nat : \A s \in Seq(S) : Len(s) = n => s \in Q}
  <1>1. 0 \in L
    BY EmptySeq
  <1>2. ASSUME NEW n \in Nat, n \in L PROVE n + 1 \in L
    <2>1. ASSUME NEW s \in Seq(S), Len(s) = n + 1 PROVE s \in Q
      <3>1. s # <<>>
        BY <2>1
      <3>2. /\ Front(s) \in Seq(S) /\ Len(Front(s)) = n /\ Last(s) \in S
            /\ s = Append(Front(s), Last(s))
        BY <2>1, <3>1, FrontAndLast
      <3> QED
        BY <1>2, <3>2
    <2> QED
      BY <2>1
  <1>3. \A n \in Nat : n \in L
    <2> HIDE DEF L
    <2> QED
      BY <1>1, <1>2, Induction
  <1> QED
    BY <1>3, LenProperties

\* A prefix is as long or shorter and has the same elements.
LEMMA PrefixElements ==
    ASSUME NEW S, NEW s \in Seq(S), NEW t \in Seq(S)
    PROVE  IsPrefix(s, t) <=> Len(s) <= Len(t) /\ \A i \in 1 .. Len(s) : s[i] = t[i]
  <1>1. CASE Len(s) <= Len(t)
    <2> DEFINE a == SubSeq(s, 1, Len(s))
               b == SubSeq(t, 1, Len(s))
    <2>1. Len(s) \in Nat /\ Len(t) \in Nat
      OBVIOUS
    <2>2. /\ a \in Seq(S) /\ Len(a) = Len(s) /\ \A i \in 1 .. Len(s) : a[i] = s[i]
          /\ b \in Seq(S) /\ Len(b) = Len(s) /\ \A i \in 1 .. Len(s) : b[i] = t[i]
      BY <1>1, <2>1
    <2> HIDE DEF a, b
    <2>3. a = b <=> \A i \in 1 .. Len(s) : a[i] = b[i]
      BY <2>2, SeqEqual
    <2>4. IsPrefix(s, t) <=> a = b
      BY <1>1 DEF IsPrefix, a, b
    <2> QED
      BY <1>1, <2>2, <2>3, <2>4
  <1>2. CASE ~(Len(s) <= Len(t))
    BY <1>2 DEF IsPrefix
  <1> QED
    BY <1>1, <1>2

\* The prefixes of a sequence with one more element are those without it, and itself.
LEMMA PrefixAppend ==
    ASSUME NEW S, NEW s \in Seq(S), NEW t \in Seq(S), NEW e \in S
    PROVE  IsPrefix(s, Append(t, e)) <=> IsPrefix(s, t) \/ s = Append(t, e)
  <1> DEFINE u == Append(t, e)
  <1>1. /\ u \in Seq(S) /\ Len(u) = Len(t) + 1 /\ Len(t) \in Nat /\ Len(s) \in Nat
        /\ \A i \in 1 .. Len(t) : u[i] = t[i]
    BY AppendProperties, LenProperties
  <1> HIDE DEF u
  <1>2. IsPrefix(s, u) <=> Len(s) <= Len(u) /\ \A i \in 1 .. Len(s) : s[i] = u[i]
    BY <1>1, PrefixElements
  <1>3. IsPrefix(s, t) <=> Len(s) <= Len(t) /\ \A i \in 1 .. Len(s) : s[i] = t[i]
    BY PrefixElements
  <1>4. CASE Len(s) = Len(u)
    <2>1. (\A i \in 1 .. Len(s) : s[i] = u[i]) <=> s = u
      BY <1>1, <1>4, SeqEqual
    <2>2. ~IsPrefix(s, t)
      BY <1>1, <1>3, <1>4
    <2> QED
      BY <1>1, <1>2, <1>4, <2>1, <2>2 DEF u
  <1>5. CASE Len(s) # Len(u)
    <2>1. s # u
      BY <1>5
    <2>2. Len(s) <= Len(u) <=> Len(s) <= Len(t)
      BY <1>1, <1>5
    <2>3. Len(s) <= Len(t) => \A i \in 1 .. Len(s) : u[i] = t[i]
      BY <1>1
    <2> QED
      BY <1>2, <1>3, <2>1, <2>2, <2>3 DEF u
  <1> QED
    BY <1>4, <1>5

\* A sequence is a prefix of itself, and the prefixes of a prefix are prefixes.
LEMMA PrefixOrder ==
    ASSUME NEW S, NEW s \in Seq(S), NEW t \in Seq(S), NEW u \in Seq(S)
    PROVE  /\ IsPrefix(s, s)
           /\ IsPrefix(s, t) /\ IsPrefix(t, u) => IsPrefix(s, u)
           /\ IsPrefix(s, t) /\ IsPrefix(t, s) => s = t
  <1>1. Len(s) \in Nat /\ Len(t) \in Nat /\ Len(u) \in Nat
    OBVIOUS
  <1>2. IsPrefix(s, s)
    BY <1>1, PrefixElements
  <1>3. IsPrefix(s, t) /\ IsPrefix(t, u) => IsPrefix(s, u)
    <2>1. /\ IsPrefix(s, t) <=> Len(s) <= Len(t) /\ \A i \in 1 .. Len(s) : s[i] = t[i]
          /\ IsPrefix(t, u) <=> Len(t) <= Len(u) /\ \A i \in 1 .. Len(t) : t[i] = u[i]
          /\ IsPrefix(s, u) <=> Len(s) <= Len(u) /\ \A i \in 1 .. Len(s) : s[i] = u[i]
      BY PrefixElements
    <2> QED
      BY <1>1, <2>1
  <1>4. IsPrefix(s, t) /\ IsPrefix(t, s) => s = t
    <2>1. /\ IsPrefix(s, t) => Len(s) <= Len(t) /\ \A i \in 1 .. Len(s) : s[i] = t[i]
          /\ IsPrefix(t, s) => Len(t) <= Len(s)
      BY PrefixElements
    <2> QED
      BY <1>1, <2>1, SeqEqual
  <1> QED
    BY <1>2, <1>3, <1>4

\* A sequence is two put together when it has the elements of one and then of the other.
LEMMA ConcatIs ==
    ASSUME NEW S, NEW a \in Seq(S), NEW b \in Seq(S), NEW c \in Seq(S),
           Len(c) = Len(a) + Len(b),
           \A i \in 1 .. Len(a) : c[i] = a[i],
           \A j \in 1 .. Len(b) : c[Len(a) + j] = b[j]
    PROVE  c = a \o b
  <1> DEFINE d == a \o b
  <1>1. /\ d \in Seq(S) /\ Len(d) = Len(a) + Len(b) /\ Len(a) \in Nat /\ Len(b) \in Nat
        /\ \A i \in 1 .. Len(a) + Len(b) : d[i] = IF i <= Len(a) THEN a[i] ELSE b[i - Len(a)]
    BY ConcatProperties, LenProperties
  <1> HIDE DEF d
  <1>2. ASSUME NEW i \in 1 .. Len(c) PROVE c[i] = d[i]
    <2>1. CASE i <= Len(a)
      BY <1>1, <2>1
    <2>2. CASE i > Len(a)
      <3>1. PICK j \in 1 .. Len(b) : i = Len(a) + j
        <4>1. i - Len(a) \in 1 .. Len(b) /\ i = Len(a) + (i - Len(a))
          BY <1>1, <2>2
        <4> QED
          BY <4>1
      <3>2. c[Len(a) + j] = b[j]
        OBVIOUS
      <3>3. d[Len(a) + j] = b[j]
        <4>1. Len(a) + j \in 1 .. Len(a) + Len(b) /\ ~(Len(a) + j <= Len(a))
              /\ (Len(a) + j) - Len(a) = j
          BY <1>1
        <4>2. d[Len(a) + j] = b[(Len(a) + j) - Len(a)]
          BY <1>1, <4>1
        <4> QED
          BY <4>1, <4>2
      <3> QED
        BY <3>1, <3>2, <3>3
    <2> QED
      BY <1>1, <2>1, <2>2
  <1>3. c = d
    BY <1>1, <1>2, SeqEqual
  <1> QED
    BY <1>3 DEF d
=============================================================================
