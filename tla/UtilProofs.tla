----------------------------- MODULE UtilProofs -----------------------------
(***************************************************************************)
(* Proofs about the commands of nvm2 util: whatever the sizes of the       *)
(* chunks and of what stdout holds back, and whatever they are given.      *)
(***************************************************************************)
EXTENDS Util, CodecsProofs

\* What a command is given is a sequence, of numbers unless it is a PATH.
LEMMA InputFacts ==
    ASSUME NEW c \in Cmds
    PROVE  /\ Inputs[c] \subseteq Seq(Symbols(c))
           /\ c \notin Whichs => Symbols(c) \subseteq Nat /\ Inputs[c] \subseteq Seq(Nat)
           /\ ChunkOf(c) \in Nat \ {0}
  <1>1. Inputs[c] \subseteq Seq(Symbols(c))
    BY UtilAssumption
  <1>2. c \notin Whichs => Symbols(c) \subseteq Nat
    BY DEF Symbols, NoDigit, Bytes
  <1>3. c \notin Whichs => Inputs[c] \subseteq Seq(Nat)
    BY <1>1, <1>2, SeqMonotonic
  <1>4. ChunkOf(c) \in Nat \ {0}
    BY UtilAssumption DEF ChunkOf
  <1> QED
    BY <1>1, <1>2, <1>3, <1>4

\* What follows something ends the whole.
LEMMA EndIsSuffix ==
    ASSUME NEW S, NEW s \in Seq(S), NEW t \in Seq(S)
    PROVE  IsSuffix(t, s \o t)
  <1> DEFINE u == s \o t
             a == Reverse(t)
             b == Reverse(u)
  <1>1. PICK m \in Nat, n \in Nat : m = Len(s) /\ n = Len(t)
    OBVIOUS
  <1>2. u \in Seq(S) /\ Len(u) = m + n /\ \A j \in 1 .. n : u[m + j] = t[j]
    BY <1>1, ConcatElements
  <1> HIDE DEF u
  <1>3. a \in Seq(S) /\ Len(a) = n /\ \A i \in 1 .. n : a[i] = t[(n - i) + 1]
    BY <1>1 DEF Reverse
  <1>4. b \in Seq(S) /\ Len(b) = m + n /\ \A i \in 1 .. m + n : b[i] = u[((m + n) - i) + 1]
    BY <1>2 DEF Reverse
  <1> HIDE DEF a, b
  <1>5. ASSUME NEW i \in 1 .. n PROVE a[i] = b[i]
    <2>1. PICK j \in 1 .. n : j = (n - i) + 1
      OBVIOUS
    <2>2. ((m + n) - i) + 1 = m + j /\ i \in 1 .. m + n
      BY <2>1
    <2>3. b[i] = u[m + j]
      BY <1>4, <2>2
    <2> QED
      BY <1>2, <1>3, <2>1, <2>3
  <1>6. IsPrefix(a, b)
    <2>1. Len(a) <= Len(b) /\ \A i \in 1 .. Len(a) : a[i] = b[i]
      BY <1>3, <1>4, <1>5
    <2> QED
      BY <1>3, <1>4, <2>1, PrefixElements
  <1> QED
    BY <1>6 DEF IsSuffix, a, b, u
-----------------------------------------------------------------------------
(* Types *)

GivenOK == cmd \in Cmds /\ signed \in BOOLEAN /\ given \in BOOLEAN /\ input \in Inputs[cmd]

RestOK ==
    /\ rest \in Seq(Symbols(cmd))
    /\ \E d \in Seq(Symbols(cmd)) : input = d \o rest

ChunkOK == eof \in BOOLEAN /\ chunk \in Seq(Nat) /\ Len(chunk) <= ChunkOf(cmd)

OutOK == out \in Seq(Nat) /\ written \in 0 .. Len(out)

\* What is left of a unit is a unit.
WorkOK ==
    /\ held \in Seq(Nat) /\ count \in Nat
    /\ cmd \in Whichs => Len(held) <= count
    /\ cmd = "zlib-inflate" => count = 0 \/ Times(count) > 0
    /\ room \in Seq(Nat) /\ Len(room) <= ChunkZlib
    /\ mode \in {"header", "units", "sum"}

\* Which command makes which calls; it returns once.
CallsOK ==
    /\ pc \in {"read", "convert", "argument", "inflate", "path", "exit", "done"}
    /\ ret \in {"none", "OK", "ERROR", "INVALID", "NULL", "DATA", "UNSET", "EMPTY"}
    /\ (ret = "none") <=> (pc \notin {"exit", "done"})
    /\ pc \in {"read", "convert"} => cmd \notin Whichs \cup {"base16-decode"}
    /\ pc = "argument" => cmd \in Texts16 \cup Texts64
    /\ pc = "inflate" => cmd = "zlib-inflate"
    /\ pc = "path" => cmd \in Whichs
    /\ ret = "DATA" => cmd = "zlib-inflate"

Typed == GivenOK /\ RestOK /\ ChunkOK /\ OutOK /\ WorkOK /\ CallsOK

LEMMA TypedIsTypeOK == Typed => TypeOK
  <1> SUFFICES ASSUME Typed PROVE TypeOK
    OBVIOUS
  <1>1. IsSuffix(rest, input)
    <2> USE DEF Typed, RestOK
    <2>1. PICK d \in Seq(Symbols(cmd)) : input = d \o rest
      OBVIOUS
    <2> QED
      BY <2>1, EndIsSuffix
  <1> QED
    BY <1>1 DEF Typed, GivenOK, ChunkOK, OutOK, WorkOK, CallsOK, TypeOK

LEMMA TypedInit == Init => Typed
  <1> SUFFICES ASSUME Init PROVE Typed
    OBVIOUS
  <1>0. /\ chunk \in Seq(Nat) /\ Len(chunk) = 0 /\ out \in Seq(Nat) /\ Len(out) = 0
        /\ held \in Seq(Nat) /\ Len(held) = 0 /\ room \in Seq(Nat) /\ Len(room) = 0
    <2>1. <<>> \in Seq(Nat) /\ Len(<<>>) = 0
      OBVIOUS
    <2> QED
      BY <2>1, Zenon DEF Init
  <1>1. GivenOK
    BY DEF Init, GivenOK
  <1>2. input \in Seq(Symbols(cmd))
    BY <1>1, InputFacts DEF GivenOK
  <1>3. RestOK
    <2>1. input = <<>> \o rest /\ <<>> \in Seq(Symbols(cmd))
      BY <1>2, ConcatEmptySeq, EmptySeq DEF Init
    <2> QED
      BY <1>2, <2>1 DEF Init, RestOK
  <1>4. ChunkOK
    <2>1. ChunkOf(cmd) \in Nat
      BY <1>1, InputFacts DEF GivenOK
    <2>2. eof \in BOOLEAN
      BY DEF Init
    <2> QED
      BY <1>0, <2>1, <2>2 DEF ChunkOK
  <1>5. OutOK
    <2>1. written = 0
      BY DEF Init
    <2> QED
      BY <1>0, <2>1 DEF OutOK
  <1>6. WorkOK
    <2>1. ChunkZlib \in Nat
      BY UtilAssumption
    <2>2. count = 0 /\ mode = "header"
      BY DEF Init
    <2> QED
      BY <1>0, <2>1, <2>2 DEF WorkOK
  <1>7. CallsOK
    BY <1>1 DEF Init, CallsOK, GivenOK, Cmds, Texts16, Texts64, Flates, Whichs
  <1> QED
    BY <1>1, <1>3, <1>4, <1>5, <1>6, <1>7 DEF Typed

\* What is written are numbers.
LEMMA WriteType ==
    ASSUME OutOK, NEW s \in Seq(Nat), NEW good \in BOOLEAN, Write(s, good)
    PROVE  OutOK' /\ out' = out \o s /\ Len(out') = Len(out) + Len(s)
  <1>1. out' = out \o s /\ out' \in Seq(Nat) /\ Len(out') = Len(out) + Len(s)
    BY ConcatProperties DEF OutOK, Write
  <1>2. written' \in 0 .. Len(out')
    <2>1. PICK l \in Nat : l = Len(out')
      BY <1>1
    <2>2. OutBuf \in Nat
      BY UtilAssumption
    <2>3. written \in Nat /\ written <= l
      BY <1>1, <2>1, LenProperties DEF OutOK
    <2>4. CASE l - written <= OutBuf
      BY <2>1, <2>3, <2>4 DEF Write
    <2>5. CASE ~(l - written <= OutBuf)
      <3>1. written' = written \/ written' \in (l - OutBuf) .. l
        BY <2>1, <2>5 DEF Write
      <3> QED
        BY <2>1, <2>2, <2>3, <2>5, <3>1
    <2> QED
      BY <2>4, <2>5
  <1> QED
    BY <1>1, <1>2 DEF OutOK

\* What the codecs make of numbers are numbers.
LEMMA ConvertedType ==
    ASSUME NEW t \in Seq(Nat), signed \in BOOLEAN, cmd \in Texts16 \cup Texts64,
           NEW s \in Converted(t)
    PROVE  s \in Seq(Nat)
  BY Base16EncodeFacts, Base16DecodeType, Base64EncodeFacts, Base64DecodeType
     DEF Converted, Texts16, Texts64

\* A stream is made of a header, a unit for each byte, and a sum.
LEMMA DeflatedFacts ==
    ASSUME NEW s \in Seq(Nat)
    PROVE  /\ Deflated(s) \in Seq(Nat) /\ Len(Deflated(s)) = Len(s) + 2
           /\ Deflated(s)[1] = Header
           /\ \A i \in 1 .. Len(s) : Deflated(s)[i + 1] = Unit(s[i], 1)
           /\ Deflated(s)[Len(s) + 2] = Sum(s)
  <1> DEFINE h == <<Header>>
             u == [i \in DOMAIN s |-> Unit(s[i], 1)]
             e == <<Sum(s)>>
             d == h \o u
             f == d \o e
  <1>1. h \in Seq(Nat) /\ Len(h) = 1 /\ h[1] = Header
    BY DEF Header
  <1>2. u \in Seq(Nat) /\ Len(u) = Len(s) /\ \A i \in 1 .. Len(s) : u[i] = Unit(s[i], 1)
    <2>1. \A i \in 1 .. Len(s) : Unit(s[i], 1) \in Nat
      BY ElementOfSeq DEF Unit
    <2>2. DOMAIN s = 1 .. Len(s) /\ Len(s) \in Nat
      OBVIOUS
    <2> QED
      BY <2>1, <2>2
  <1>3. e \in Seq(Nat) /\ Len(e) = 1 /\ e[1] = Sum(s)
    BY SumFacts
  <1>4. Deflated(s) = f
    BY DEF Deflated
  <1> HIDE DEF h, u, e
  <1>5. /\ d \in Seq(Nat) /\ Len(d) = 1 + Len(s) /\ d[1] = Header
        /\ \A j \in 1 .. Len(s) : d[1 + j] = Unit(s[j], 1)
    <2>0. h \in Seq(Nat) /\ u \in Seq(Nat)
      BY <1>1, <1>2
    <2>1. /\ d \in Seq(Nat) /\ Len(d) = Len(h) + Len(u)
          /\ \A i \in 1 .. Len(h) : d[i] = h[i]
          /\ \A j \in 1 .. Len(u) : d[Len(h) + j] = u[j]
      BY <2>0, ConcatElements
    <2> HIDE DEF d
    <2> QED
      BY <1>1, <1>2, <2>1, SMTT(30)
  <1> HIDE DEF d
  <1>6. /\ f \in Seq(Nat) /\ Len(f) = Len(d) + 1
        /\ \A i \in 1 .. Len(d) : f[i] = d[i]
        /\ f[Len(d) + 1] = Sum(s)
    <2>0. d \in Seq(Nat) /\ e \in Seq(Nat) /\ Len(e) = 1 /\ e[1] = Sum(s) /\ 1 \in 1 .. Len(e)
      BY <1>3, <1>5
    <2>1. /\ f \in Seq(Nat) /\ Len(f) = Len(d) + Len(e)
          /\ \A i \in 1 .. Len(d) : f[i] = d[i]
          /\ \A j \in 1 .. Len(e) : f[Len(d) + j] = e[j]
      <3>1. d \in Seq(Nat) /\ e \in Seq(Nat)
        BY <2>0
      <3> QED
        BY <3>1, ConcatElements
    <2> HIDE DEF f
    <2> QED
      BY <2>0, <2>1
  <1>7. Len(s) \in Nat
    OBVIOUS
  <1> QED
    BY <1>4, <1>5, <1>6, <1>7
-----------------------------------------------------------------------------
\* A command does not change what it was given.
LEMMA GivenStep == [Next]_vars => UNCHANGED <<cmd, signed, given, input>>
  BY DEF Next, Step, Read, Convert, Argument, Digest, Deflate, InflateNothing, InflateByte,
         InflateUnit, InflateReturns, NoPath, SearchItem, PrintList, Exit, Done, vars

\* A read that does not fail cuts a chunk off, and sees the end when there is no more.
LEMMA ReadCuts ==
    ASSUME Typed, Read
    PROVE  \/ Return("ERROR") /\ UNCHANGED <<rest, eof, chunk>>
           \/ /\ chunk' \in Seq(Symbols(cmd)) /\ rest' \in Seq(Symbols(cmd))
              /\ rest = chunk' \o rest'
              /\ Len(chunk') <= ChunkOf(cmd)
              /\ Len(chunk') < ChunkOf(cmd) => rest' = <<>>
              /\ eof' = (Len(chunk') < ChunkOf(cmd))
              /\ GoOn(IF cmd = "zlib-inflate" /\ Len(chunk') > 0 THEN "inflate" ELSE "convert")
  <1>1. rest \in Seq(Symbols(cmd)) /\ cmd \in Cmds
    BY DEF Typed, RestOK, GivenOK
  <1>2. ChunkOf(cmd) \in Nat \ {0} /\ Len(rest) \in Nat
    <2>1. ChunkOf(cmd) \in Nat \ {0}
      BY <1>1, InputFacts
    <2>2. Len(rest) \in Nat
      BY <1>1, LenProperties
    <2> QED
      BY <2>1, <2>2
  <1>3. PICK n \in Nat : /\ n = Min({ChunkOf(cmd), Len(rest)})
                         /\ n \in {ChunkOf(cmd), Len(rest)}
                         /\ n <= ChunkOf(cmd) /\ n <= Len(rest)
    BY <1>2, LeastOfTwo
  <1>4. CASE Return("ERROR") /\ UNCHANGED <<rest, eof, chunk>>
    BY <1>4
  <1>5. CASE /\ chunk' = SubSeq(rest, 1, n) /\ rest' = SubSeq(rest, n + 1, Len(rest))
             /\ eof' = (n < ChunkOf(cmd))
             /\ GoOn(IF cmd = "zlib-inflate" /\ n > 0 THEN "inflate" ELSE "convert")
    <2>1. n \in 0 .. Len(rest)
      BY <1>2, <1>3
    <2>2. /\ chunk' \in Seq(Symbols(cmd)) /\ rest' \in Seq(Symbols(cmd))
          /\ rest = chunk' \o rest' /\ Len(chunk') = n /\ Len(rest') = Len(rest) - n
      BY <1>1, <1>5, <2>1, Cut, ZenonT(60)
    <2>3. n < ChunkOf(cmd) => rest' = <<>>
      <3>1. n < ChunkOf(cmd) => Len(rest') = 0
        <4>1. n < ChunkOf(cmd) => n = Len(rest)
          BY <1>2, <1>3
        <4> QED
          BY <1>2, <2>2, <4>1
      <3> QED
        BY <2>2, <3>1, EmptySeq
    <2> QED
      BY <1>3, <1>5, <2>2, <2>3
  <1> QED
    BY <1>3, <1>4, <1>5 DEF Read

LEMMA RestStep ==
    ASSUME Typed, [Next]_vars
    PROVE  RestOK'
  <1>1. UNCHANGED <<cmd, input>>
    BY GivenStep
  <1>2. PICK d \in Seq(Symbols(cmd)) : input = d \o rest
    BY DEF Typed, RestOK
  <1>3. rest \in Seq(Symbols(cmd)) /\ input \in Seq(Symbols(cmd)) /\ <<>> \in Seq(Symbols(cmd))
    BY InputFacts, EmptySeq DEF Typed, RestOK, GivenOK
  <1>4. ASSUME NEW e \in Seq(Symbols(cmd)), NEW r \in Seq(Symbols(cmd)), rest' = r, rest = e \o r
        PROVE  RestOK'
    <2>1. input' = (d \o e) \o rest' /\ d \o e \in Seq(Symbols(cmd))
      <3>1. (d \o e) \o r = d \o (e \o r)
        BY <1>4, ConcatAssociative, SMTT(30)
      <3>2. input' = d \o (e \o r)
        BY <1>1, <1>2, <1>4
      <3>3. d \o e \in Seq(Symbols(cmd))
        BY <1>4, ConcatProperties
      <3> QED
        BY <1>4, <3>1, <3>2, <3>3
    <2> QED
      BY <1>1, <1>4, <2>1 DEF RestOK
  <1>5. CASE rest' = rest
    BY <1>3, <1>4, <1>5, ConcatEmptySeq
  <1>6. CASE rest' = <<>>
    BY <1>3, <1>4, <1>6, ConcatEmptySeq
  <1>7. CASE Read
    BY <1>4, <1>5, <1>7, ReadCuts
  <1>8. CASE SearchItem
    <2>1. rest # <<>> /\ (rest' = <<>> \/ rest' = Tail(rest))
      BY <1>8 DEF SearchItem
    <2>2. CASE rest' = Tail(rest)
      <3>1. 1 \in 0 .. Len(rest)
        BY <1>3, <2>1, EmptySeq
      <3>2. Tail(rest) = SubSeq(rest, 1 + 1, Len(rest))
        BY <1>3, <2>1, TailIsSubSeq
      <3> QED
        <4>1. /\ SubSeq(rest, 1, 1) \in Seq(Symbols(cmd))
              /\ SubSeq(rest, 1 + 1, Len(rest)) \in Seq(Symbols(cmd))
              /\ rest = SubSeq(rest, 1, 1) \o SubSeq(rest, 1 + 1, Len(rest))
          BY <1>3, <3>1, Cut
        <4> QED
          BY <1>4, <2>2, <3>2, <4>1
    <2> QED
      BY <1>6, <2>1, <2>2
  <1> QED
    BY <1>5, <1>6, <1>7, <1>8
       DEF Next, Step, Convert, Argument, Digest, Deflate, InflateNothing, InflateByte,
           InflateUnit, InflateReturns, NoPath, PrintList, Exit, Done, vars, ioVars

LEMMA ChunkStep ==
    ASSUME Typed, [Next]_vars
    PROVE  ChunkOK'
  <1>1. UNCHANGED cmd /\ cmd \in Cmds /\ ChunkOf(cmd) \in Nat \ {0}
    BY GivenStep, InputFacts DEF Typed, GivenOK
  <1>2. eof \in BOOLEAN /\ chunk \in Seq(Nat) /\ Len(chunk) <= ChunkOf(cmd) /\ Len(chunk) \in Nat
    BY DEF Typed, ChunkOK
  <1>3. CASE UNCHANGED <<eof, chunk>>
    BY <1>1, <1>2, <1>3 DEF ChunkOK
  <1>4. CASE UNCHANGED eof /\ chunk' = <<>>
    <2>1. chunk' \in Seq(Nat) /\ Len(chunk') = 0
      BY <1>4, EmptySeq, Zenon
    <2>2. Len(chunk') <= ChunkOf(cmd')
      BY <1>1, <2>1
    <2> QED
      BY <1>2, <1>4, <2>1, <2>2 DEF ChunkOK
  <1>5. CASE Read
    <2>1. cmd \notin Whichs
      BY <1>5 DEF Typed, CallsOK, Read
    <2>2. Symbols(cmd) \subseteq Nat
      BY <1>1, <2>1, InputFacts
    <2>3. CASE /\ chunk' \in Seq(Symbols(cmd)) /\ Len(chunk') <= ChunkOf(cmd)
               /\ eof' = (Len(chunk') < ChunkOf(cmd))
      <3>1. chunk' \in Seq(Nat)
        BY <2>2, <2>3, SeqMonotonic
      <3>2. eof' \in BOOLEAN
        BY <2>3
      <3> QED
        BY <1>1, <2>3, <3>1, <3>2 DEF ChunkOK
    <2> QED
      <3>1. \/ UNCHANGED <<eof, chunk>>
            \/ /\ chunk' \in Seq(Symbols(cmd)) /\ Len(chunk') <= ChunkOf(cmd)
               /\ eof' = (Len(chunk') < ChunkOf(cmd))
        BY <1>5, ReadCuts
      <3> QED
        BY <1>3, <2>3, <3>1
  <1>6. CASE Deflate
    <2>1. PICK taken \in 0 .. Len(chunk) : chunk' = SubSeq(chunk, taken + 1, Len(chunk)) /\ eof' = eof
      BY <1>6 DEF Deflate
    <2>2. chunk' \in Seq(Nat) /\ Len(chunk') = Len(chunk) - taken
      BY <1>2, <2>1, Cut
    <2>3. Len(chunk') <= ChunkOf(cmd')
      BY <1>1, <1>2, <2>2
    <2> QED
      BY <1>2, <2>1, <2>2, <2>3 DEF ChunkOK
  <1>7. CASE InflateUnit
    <2>1. chunk # <<>> /\ chunk' = Tail(chunk) /\ eof' = eof
      BY <1>7 DEF InflateUnit
    <2>2. chunk' \in Seq(Nat) /\ Len(chunk') = Len(chunk) - 1
      BY <1>2, <2>1, HeadTailProperties
    <2>3. Len(chunk') <= ChunkOf(cmd')
      BY <1>1, <1>2, <2>2
    <2> QED
      BY <1>2, <2>1, <2>2, <2>3 DEF ChunkOK
  <1> QED
    BY <1>3, <1>4, <1>5, <1>6, <1>7
       DEF Next, Step, Convert, Argument, Digest, InflateNothing, InflateByte,
           InflateReturns, NoPath, SearchItem, PrintList, Exit, Done, vars, ioVars

\* A call of deflate takes some of the chunk and emits some of the stream.
LEMMA DeflateCalls ==
    ASSUME Typed, Deflate
    PROVE  \E taken \in 0 .. Len(chunk), emitted \in 0 .. ChunkZlib, good \in BOOLEAN :
               LET all == taken = Len(chunk)
                   stream == Deflated(held')
                   ready == Len(stream) - (IF eof /\ all THEN 0 ELSE 1)
               IN /\ held' = held \o SubSeq(chunk, 1, taken) /\ held' \in Seq(Nat)
                  /\ chunk' = SubSeq(chunk, taken + 1, Len(chunk))
                  /\ count + emitted <= ready /\ count' = count + emitted /\ count' \in Nat
                  /\ emitted < ChunkZlib => all /\ (eof => count + emitted = ready)
                  /\ Write(SubSeq(stream, count + 1, count + emitted), good)
                  /\ SubSeq(stream, count + 1, count + emitted) \in Seq(Nat)
                  /\ IF good /\ emitted = ChunkZlib THEN GoOn("convert") ELSE Loop(good)
  <1>1. chunk \in Seq(Nat) /\ held \in Seq(Nat) /\ count \in Nat /\ ChunkZlib \in Nat
    BY UtilAssumption DEF Typed, ChunkOK, WorkOK
  <1>2. PICK taken \in 0 .. Len(chunk), emitted \in 0 .. ChunkZlib, good \in BOOLEAN :
            LET all == taken = Len(chunk)
                stream == Deflated(held \o SubSeq(chunk, 1, taken))
                ready == Len(stream) - (IF eof /\ all THEN 0 ELSE 1)
            IN /\ count + emitted <= ready
               /\ emitted < ChunkZlib => all /\ (eof => count + emitted = ready)
               /\ held' = held \o SubSeq(chunk, 1, taken)
               /\ chunk' = SubSeq(chunk, taken + 1, Len(chunk))
               /\ count' = count + emitted
               /\ Write(SubSeq(stream, count + 1, count + emitted), good)
               /\ IF good /\ emitted = ChunkZlib THEN GoOn("convert") ELSE Loop(good)
    BY DEF Deflate
  <1>3. held' \in Seq(Nat)
    BY <1>1, <1>2, Cut, ConcatProperties
  <1>4. PICK stream \in Seq(Nat) : stream = Deflated(held') /\ Len(stream) \in Nat
    BY <1>3, DeflatedFacts, LenProperties
  <1>5. count + emitted \in 0 .. Len(stream) /\ count + 1 \in Nat \ {0}
    BY <1>1, <1>2, <1>4, SMTT(30)
  <1>6. SubSeq(stream, count + 1, count + emitted) \in Seq(Nat)
    BY <1>4, <1>5, PartType
  <1>7. count' \in Nat
    BY <1>1, <1>2
  <1> QED
    BY <1>2, <1>3, <1>4, <1>6, <1>7

LEMMA OutStep ==
    ASSUME Typed, [Next]_vars
    PROVE  OutOK'
  <1>1. OutOK /\ held \in Seq(Nat) /\ room \in Seq(Nat) /\ chunk \in Seq(Nat) /\ signed \in BOOLEAN
    BY DEF Typed, WorkOK, ChunkOK, GivenOK
  <1>2. CASE UNCHANGED <<out, written>>
    BY <1>1, <1>2 DEF OutOK
  <1>3. ASSUME NEW s \in Seq(Nat), NEW good \in BOOLEAN, Write(s, good)
        PROVE  OutOK'
    BY <1>1, <1>3, WriteType
  <1>4. CASE Convert
    <2>1. cmd \in Texts16 \cup Texts64
      BY <1>4 DEF Convert
    <2>2. \A s \in Converted(chunk) : s \in Seq(Nat)
      BY <1>1, <2>1, ConvertedType
    <2>3. \/ UNCHANGED <<out, written>>
          \/ \E s \in Converted(chunk), good \in BOOLEAN : Write(s, good)
      BY <1>4 DEF Convert, outVars
    <2> QED
      BY <1>2, <1>3, <2>2, <2>3
  <1>5. CASE Argument
    <2>1. cmd \in Texts16 \cup Texts64 /\ cmd \in Cmds /\ input \in Inputs[cmd]
      BY <1>5 DEF Argument, Typed, CallsOK, GivenOK
    <2>2. cmd \notin Whichs
      BY <2>1 DEF Texts16, Texts64, Whichs
    <2>3. input \in Seq(Nat)
      BY <2>1, <2>2, InputFacts
    <2>4. \A s \in Converted(input) : s \in Seq(Nat)
      BY <1>1, <2>1, <2>3, ConvertedType
    <2>5. \/ UNCHANGED <<out, written>>
          \/ \E s \in Converted(input), good \in BOOLEAN : Write(s, good)
      BY <1>5 DEF Argument, outVars
    <2> QED
      BY <1>2, <1>3, <2>4, <2>5
  <1>6. CASE Digest
    <2>1. held' = held \o chunk
      BY <1>6 DEF Digest
    <2>2. held' \in Seq(Nat)
      BY <1>1, <2>1, ConcatProperties
    <2>3. <<Sum(held')>> \in Seq(Nat)
      BY <2>2, SumFacts
    <2>4. UNCHANGED <<out, written>> \/ \E good \in BOOLEAN : Write(<<Sum(held')>>, good)
      BY <1>6 DEF Digest, outVars
    <2> QED
      BY <1>2, <1>3, <2>3, <2>4
  <1>7. CASE Deflate
    <2>1. PICK s \in Seq(Nat), good \in BOOLEAN : Write(s, good)
      BY <1>7, DeflateCalls
    <2> QED
      BY <1>3, <2>1
  <1>8. CASE InflateReturns
    <2>1. \E good \in BOOLEAN : Write(room, good)
      BY <1>8 DEF InflateReturns
    <2> QED
      BY <1>1, <1>3, <2>1
  <1>9. CASE PrintList
    <2>1. \E good \in BOOLEAN : Write(held, good)
      BY <1>9 DEF PrintList
    <2> QED
      BY <1>1, <1>3, <2>1
  <1>10. CASE Exit
    <2>1. out' = out /\ (written' = Len(out) \/ written' = written)
      BY <1>10 DEF Exit
    <2> QED
      BY <1>1, <2>1, LenProperties DEF OutOK
  <1> QED
    BY <1>2, <1>4, <1>5, <1>6, <1>7, <1>8, <1>9, <1>10
       DEF Next, Step, Read, InflateNothing, InflateByte, InflateUnit, NoPath, SearchItem, Done,
           vars, outVars

LEMMA WorkStep ==
    ASSUME Typed, [Next]_vars
    PROVE  WorkOK'
  <1>1. cmd' = cmd
    BY GivenStep
  <1>2. /\ held \in Seq(Nat) /\ count \in Nat /\ (cmd \in Whichs => Len(held) <= count)
        /\ cmd = "zlib-inflate" => count = 0 \/ Times(count) > 0
        /\ room \in Seq(Nat) /\ Len(room) <= ChunkZlib
        /\ mode \in {"header", "units", "sum"}
    BY DEF Typed, WorkOK
  <1>3. CASE UNCHANGED <<held, count, room, mode>>
    BY <1>1, <1>2, <1>3 DEF WorkOK
  <1>4. CASE Digest
    <2>1. /\ cmd = "sha256sum" /\ held' = held \o chunk /\ chunk \in Seq(Nat)
          /\ UNCHANGED <<count, room, mode>>
      BY <1>4 DEF Digest, Typed, ChunkOK
    <2>2. held' \in Seq(Nat)
      BY <1>2, <2>1, ConcatProperties
    <2> QED
      BY <1>1, <1>2, <2>1, <2>2 DEF WorkOK, Whichs
  <1>5. CASE Deflate
    <2>1. cmd = "zlib-deflate" /\ UNCHANGED <<room, mode>>
      BY <1>5 DEF Deflate
    <2>2. held' \in Seq(Nat) /\ count' \in Nat
      BY <1>5, DeflateCalls
    <2> QED
      BY <1>1, <1>2, <2>1, <2>2 DEF WorkOK, Whichs
  <1>6. CASE InflateByte
    <2>1. /\ cmd = "zlib-inflate" /\ count > 0 /\ Len(room) < ChunkZlib
          /\ room' = Append(room, ByteOf(count)) /\ held' = Append(held, ByteOf(count))
          /\ count' = IF Times(count) = 1 THEN 0 ELSE count - Unit(0, 1)
          /\ UNCHANGED mode
      BY <1>6 DEF InflateByte, Typed, CallsOK
    <2>2. ByteOf(count) \in Nat
      BY <1>2 DEF ByteOf
    <2>3. /\ held' \in Seq(Nat) /\ room' \in Seq(Nat) /\ Len(room') = Len(room) + 1
      BY <1>2, <2>1, <2>2, AppendProperties
    <2>4. count' \in Nat /\ (count' = 0 \/ Times(count') > 0)
      BY <1>2, <2>1 DEF Times, Unit
    <2>5. Len(room') <= ChunkZlib
      BY <1>2, <2>1, <2>3, UtilAssumption, LenProperties
    <2>6. cmd' \notin Whichs
      BY <1>1, <2>1 DEF Whichs
    <2> QED
      BY <1>2, <2>1, <2>3, <2>4, <2>5, <2>6 DEF WorkOK
  <1>7. CASE InflateUnit
    <2>1. /\ cmd = "zlib-inflate" /\ UNCHANGED <<held, room>> /\ chunk # <<>> /\ chunk \in Seq(Nat)
          /\ (count' = count \/ (IsUnit(Head(chunk)) /\ count' = Head(chunk)))
          /\ (mode' = mode \/ mode' = "units" \/ mode' = "sum")
      <3>1. pc = "inflate" /\ UNCHANGED <<held, room>> /\ chunk # <<>>
        BY <1>7 DEF InflateUnit
      <3>2. cmd = "zlib-inflate" /\ chunk \in Seq(Nat)
        BY <3>1 DEF Typed, CallsOK, ChunkOK
      <3>3. count' = count \/ (IsUnit(Head(chunk)) /\ count' = Head(chunk))
        BY <1>7 DEF InflateUnit
      <3>4. mode' = mode \/ mode' = "units" \/ mode' = "sum"
        BY <1>7 DEF InflateUnit
      <3> QED
        BY <3>1, <3>2, <3>3, <3>4
    <2>2. Head(chunk) \in Nat
      BY <2>1, HeadTailProperties
    <2>3. count' \in Nat /\ (count' = 0 \/ Times(count') > 0)
      BY <1>2, <2>1, <2>2 DEF Times, IsUnit
    <2>4. cmd' \notin Whichs
      BY <1>1, <2>1 DEF Whichs
    <2> QED
      BY <1>2, <2>1, <2>3, <2>4 DEF WorkOK
  <1>8. CASE InflateReturns
    <2>1. room' = <<>> /\ UNCHANGED <<held, count, mode>>
      BY <1>8 DEF InflateReturns
    <2>2. room' \in Seq(Nat) /\ Len(room') = 0
      BY <2>1, EmptySeq, Zenon
    <2>3. Len(room') <= ChunkZlib
      BY <2>2, UtilAssumption
    <2> QED
      BY <1>1, <1>2, <2>1, <2>2, <2>3 DEF WorkOK
  <1>9. CASE SearchItem
    <2>1. /\ cmd \in Whichs /\ UNCHANGED <<room, mode>>
          /\ \/ UNCHANGED <<held, count>>
             \/ /\ count' = Grown(count, Len(held))
                /\ held' = Append(held, 1 + Len(input) - Len(rest))
      BY <1>9 DEF SearchItem, Typed, CallsOK
    <2>2. CASE UNCHANGED <<held, count>>
      BY <1>3, <2>1, <2>2
    <2>3. CASE /\ count' = Grown(count, Len(held))
               /\ held' = Append(held, 1 + Len(input) - Len(rest))
      <3>1. 1 + Len(input) - Len(rest) \in Nat
        <4>1. PICK d \in Seq(Symbols(cmd)) : input = d \o rest /\ rest \in Seq(Symbols(cmd))
          BY DEF Typed, RestOK
        <4>2. Len(input) = Len(d) + Len(rest) /\ Len(d) \in Nat /\ Len(rest) \in Nat
          BY <4>1, ConcatProperties, LenProperties
        <4> QED
          BY <4>2
      <3>2. held' \in Seq(Nat) /\ Len(held') = Len(held) + 1 /\ Len(held) \in Nat
        BY <1>2, <2>3, <3>1, AppendProperties, LenProperties
      <3>3. count' \in Nat /\ Len(held') <= count'
        BY <1>2, <2>1, <2>3, <3>2 DEF Grown
      <3>4. cmd' # "zlib-inflate"
        BY <1>1, <2>1 DEF Whichs
      <3> QED
        BY <1>2, <2>1, <3>2, <3>3, <3>4 DEF WorkOK
    <2> QED
      BY <2>1, <2>2, <2>3
  <1> QED
    BY <1>3, <1>4, <1>5, <1>6, <1>7, <1>8, <1>9
       DEF Next, Step, Read, Convert, Argument, InflateNothing, NoPath, PrintList, Exit, Done,
           vars, workVars

LEMMA CallsStep ==
    ASSUME Typed, [Next]_vars
    PROVE  CallsOK'
  <1>1. cmd' = cmd
    BY GivenStep
  <1>2. CASE UNCHANGED <<pc, ret>>
    BY <1>1, <1>2 DEF Typed, CallsOK
  <1>3. ASSUME NEW r \in {"OK", "ERROR", "INVALID", "NULL", "DATA", "UNSET", "EMPTY"}, Return(r),
               r = "DATA" => cmd = "zlib-inflate"
        PROVE  CallsOK'
    BY <1>1, <1>3 DEF Typed, CallsOK, Return
  <1>4. ASSUME NEW good \in BOOLEAN, Loop(good), pc = "convert"
        PROVE  CallsOK'
    <2>1. CASE GoOn("read")
      BY <1>1, <1>4, <2>1 DEF Typed, CallsOK, GoOn
    <2> QED
      BY <1>3, <1>4, <2>1 DEF Loop
  <1>5. CASE Read
    <2>1. \/ Return("ERROR")
          \/ GoOn("inflate") /\ cmd = "zlib-inflate"
          \/ GoOn("convert")
      BY <1>5, ReadCuts
    <2>2. pc = "read"
      BY <1>5 DEF Read
    <2> QED
      BY <1>1, <1>3, <2>1, <2>2 DEF Typed, CallsOK, GoOn
  <1>6. CASE Convert
    BY <1>3, <1>4, <1>6 DEF Convert
  <1>7. CASE Argument
    <2>1. Return("NULL") \/ Return("INVALID") \/ Return("OK") \/ Return("ERROR")
      BY <1>7 DEF Argument, End
    <2> QED
      BY <1>3, <2>1
  <1>8. CASE Digest
    <2>1. pc = "convert" /\ (Return("OK") \/ GoOn("read"))
      BY <1>8 DEF Digest
    <2> QED
      BY <1>1, <1>3, <2>1 DEF Typed, CallsOK, GoOn
  <1>9. CASE Deflate
    <2>1. pc = "convert"
      BY <1>9 DEF Deflate
    <2>2. PICK good \in BOOLEAN : GoOn("convert") \/ Loop(good)
      BY <1>9, DeflateCalls
    <2>3. CASE GoOn("convert")
      BY <1>2, <2>1, <2>3 DEF GoOn
    <2> QED
      BY <1>4, <2>1, <2>2, <2>3
  <1>10. CASE InflateNothing
    <2>1. Return("DATA") /\ cmd = "zlib-inflate"
      BY <1>10 DEF InflateNothing
    <2> QED
      BY <1>3, <2>1
  <1>11. CASE InflateUnit
    <2>1. pc = "inflate" /\ (UNCHANGED <<pc, ret>> \/ Return("DATA"))
      BY <1>11 DEF InflateUnit
    <2>2. cmd = "zlib-inflate"
      BY <2>1 DEF Typed, CallsOK
    <2> QED
      BY <1>2, <1>3, <2>1, <2>2
  <1>12. CASE InflateReturns
    <2>1. pc = "inflate" /\ (Return("ERROR") \/ GoOn("inflate") \/ Return("OK") \/ GoOn("read"))
      BY <1>12 DEF InflateReturns
    <2>2. cmd = "zlib-inflate"
      BY <2>1 DEF Typed, CallsOK
    <2> QED
      BY <1>1, <1>3, <2>1, <2>2 DEF Typed, CallsOK, GoOn, Whichs
  <1>13. CASE NoPath
    <2>1. Return("UNSET") \/ Return("EMPTY")
      BY <1>13 DEF NoPath
    <2> QED
      BY <1>3, <2>1
  <1>14. CASE PrintList
    BY <1>3, <1>14 DEF PrintList
  <1>15. CASE Exit
    BY <1>1, <1>15 DEF Typed, CallsOK, Exit
  <1> QED
    BY <1>2, <1>5, <1>6, <1>7, <1>8, <1>9, <1>10, <1>11, <1>12, <1>13, <1>14, <1>15
       DEF Next, Step, InflateByte, SearchItem, Done, vars

LEMMA TypedStep == Typed /\ [Next]_vars => Typed'
  <1> SUFFICES ASSUME Typed, [Next]_vars PROVE Typed'
    OBVIOUS
  <1>1. GivenOK'
    BY GivenStep DEF Typed, GivenOK
  <1> QED
    BY <1>1, RestStep, ChunkStep, OutStep, WorkStep, CallsStep DEF Typed

\* Every command keeps to the types (util.c, base16.c, sha256sum.c, exe.c): no chunk and no
\* list outgrows its buffer.
THEOREM TypeCorrect == Spec => []TypeOK
  <1>1. Spec => []Typed
    BY TypedInit, TypedStep, PTL DEF Spec
  <1> QED
    BY <1>1, TypedIsTypeOK, PTL
-----------------------------------------------------------------------------
(* What may be lost *)

\* As long as no write has failed, no more is held back than stdout can hold; a digest is
\* all that its command writes; and nothing stays behind on a disk with room.
BufferInv ==
    cmd \notin Whichs =>
        /\ ret \in {"none", "OK"} => Len(out) - written <= OutBuf
        /\ cmd = "sha256sum" /\ ret = "none" => out = <<>>
        /\ pc = "done" /\ "disk" \notin Faults => written = Len(out)

\* What is written without a failure can be held back.
LEMMA WriteHolds ==
    ASSUME OutOK, NEW s \in Seq(Nat), Write(s, TRUE)
    PROVE  Len(out') - written' <= OutBuf
  <1>1. PICK l \in Nat : l = Len(out')
    BY WriteType, LenProperties DEF OutOK
  <1>2. OutBuf \in Nat
    BY UtilAssumption
  <1>3. CASE l - written <= OutBuf
    BY <1>1, <1>3 DEF Write
  <1>4. CASE ~(l - written <= OutBuf)
    <2>1. written' \in (l - OutBuf) .. l
      BY <1>1, <1>4 DEF Write
    <2> QED
      BY <1>1, <1>2, <2>1
  <1> QED
    BY <1>3, <1>4

LEMMA BufferInit == Init => BufferInv
  <1> SUFFICES ASSUME Init PROVE BufferInv
    OBVIOUS
  <1>1. out = <<>> /\ written = 0 /\ ret = "none" /\ pc # "done"
    BY DEF Init
  <1>2. Len(out) = 0
    BY <1>1, EmptySeq, Zenon
  <1>3. Len(out) - written <= OutBuf
    BY <1>1, <1>2, UtilAssumption
  <1> QED
    BY <1>1, <1>3 DEF BufferInv

LEMMA BufferStep == Typed /\ BufferInv /\ [Next]_vars => BufferInv'
  <1> SUFFICES ASSUME Typed, BufferInv, [Next]_vars PROVE BufferInv'
    OBVIOUS
  <1>0. cmd' = cmd
    BY GivenStep
  <1> SUFFICES ASSUME cmd \notin Whichs
      PROVE /\ ret' \in {"none", "OK"} => Len(out') - written' <= OutBuf
            /\ cmd = "sha256sum" /\ ret' = "none" => out' = <<>>
            /\ pc' = "done" /\ "disk" \notin Faults => written' = Len(out')
    BY <1>0 DEF BufferInv
  <1>1. /\ ret \in {"none", "OK"} => Len(out) - written <= OutBuf
        /\ cmd = "sha256sum" /\ ret = "none" => out = <<>>
        /\ pc = "done" /\ "disk" \notin Faults => written = Len(out)
    BY DEF BufferInv
  <1>2. CallsOK /\ OutOK /\ chunk \in Seq(Nat) /\ held \in Seq(Nat) /\ room \in Seq(Nat)
    BY DEF Typed, ChunkOK, WorkOK
  <1>3. CASE UNCHANGED <<pc, out, written, ret>>
    BY <1>1, <1>3
  <1>4. ASSUME UNCHANGED <<out, written>>, pc' # "done", ret = "none" PROVE BufferInv'
    BY <1>0, <1>1, <1>4 DEF BufferInv
  <1>5. ASSUME NEW s \in Seq(Nat), NEW good \in BOOLEAN, Write(s, good),
               ~good => ret' \notin {"none", "OK"}, pc' # "done", cmd # "sha256sum"
        PROVE  BufferInv'
    <2>1. CASE good
      <3>1. Len(out') - written' <= OutBuf
        BY <1>2, <1>5, <2>1, WriteHolds
      <3> QED
        BY <1>0, <1>5, <3>1 DEF BufferInv
    <2>2. CASE ~good
      BY <1>0, <1>5, <2>2 DEF BufferInv
    <2> QED
      BY <2>1, <2>2
  <1>6. CASE Read
    <2>1. UNCHANGED <<out, written>> /\ pc' # "done" /\ ret = "none"
      BY <1>2, <1>6 DEF Read, GoOn, Return, outVars, CallsOK
    <2> QED
      BY <1>4, <2>1 DEF BufferInv
  <1>7. CASE Convert
    <2>1. cmd \in Texts16 \cup Texts64 /\ pc = "convert" /\ ret = "none"
      BY <1>2, <1>7 DEF Convert, CallsOK
    <2>2. \A s \in Converted(chunk) : s \in Seq(Nat)
      BY <1>2, <2>1, ConvertedType DEF Typed, GivenOK
    <2>3. pc' # "done"
      BY <1>7 DEF Convert, Loop, GoOn, Return
    <2>4. \/ UNCHANGED <<out, written>>
          \/ \E s \in Converted(chunk), good \in BOOLEAN : Write(s, good) /\ Loop(good)
      BY <1>7 DEF Convert, outVars
    <2>5. cmd # "sha256sum"
      BY <2>1 DEF Texts16, Texts64
    <2>6. \A good \in BOOLEAN : Loop(good) /\ ~good => ret' \notin {"none", "OK"}
      BY DEF Loop, Return
    <2> QED
      BY <1>0, <1>4, <1>5, <2>1, <2>2, <2>3, <2>4, <2>5, <2>6 DEF BufferInv
  <1>8. CASE Argument
    <2>1. cmd \in Texts16 \cup Texts64 /\ ret = "none" /\ cmd \in Cmds /\ input \in Inputs[cmd]
      BY <1>2, <1>8 DEF Argument, CallsOK, Typed, GivenOK
    <2>2. \A s \in Converted(input) : s \in Seq(Nat)
      BY <2>1, InputFacts, ConvertedType DEF Typed, GivenOK
    <2>3. pc' # "done"
      BY <1>8 DEF Argument, End, Return
    <2>4. \/ UNCHANGED <<out, written>>
          \/ \E s \in Converted(input), good \in BOOLEAN : Write(s, good) /\ End(good)
      BY <1>8 DEF Argument, outVars
    <2>5. cmd # "sha256sum"
      BY <2>1 DEF Texts16, Texts64
    <2>6. \A good \in BOOLEAN : End(good) /\ ~good => ret' \notin {"none", "OK"}
      BY DEF End, Return
    <2> QED
      BY <1>0, <1>4, <1>5, <2>1, <2>2, <2>3, <2>4, <2>5, <2>6 DEF BufferInv
  <1>9. CASE Digest
    <2>1. ret = "none" /\ cmd = "sha256sum" /\ held' = held \o chunk /\ out = <<>>
      BY <1>1, <1>2, <1>9 DEF Digest, CallsOK
    <2>2. held' \in Seq(Nat)
      BY <1>2, <2>1, ConcatProperties
    <2>3. <<Sum(held')>> \in Seq(Nat) /\ Len(<<Sum(held')>>) = 1
      BY <2>2, SumFacts
    <2>4. CASE UNCHANGED outVars /\ GoOn("read")
      BY <1>1, <2>1, <2>4 DEF outVars, GoOn
    <2>5. CASE Return("OK") /\ \E good \in BOOLEAN : Write(<<Sum(held')>>, good)
      <3>1. PICK good \in BOOLEAN : Write(<<Sum(held')>>, good)
        BY <2>5
      <3>2. Len(out') = Len(out) + 1
        BY <1>2, <2>3, <3>1, WriteType
      <3>3. Len(out) = 0
        BY <2>1, EmptySeq, Zenon
      <3>4. written = 0
        BY <1>2, <3>3 DEF OutOK
      <3>5. Len(out') - written <= OutBuf
        BY <3>2, <3>3, <3>4, UtilAssumption
      <3>6. written' = written
        BY <3>1, <3>5 DEF Write
      <3> QED
        BY <2>5, <3>5, <3>6 DEF Return
    <2> QED
      BY <1>9, <2>4, <2>5 DEF Digest
  <1>10. CASE Deflate
    <2>1. ret = "none" /\ cmd = "zlib-deflate"
      BY <1>2, <1>10 DEF Deflate, CallsOK
    <2>2. PICK s \in Seq(Nat), good \in BOOLEAN :
              Write(s, good) /\ ((good /\ GoOn("convert")) \/ Loop(good))
      BY <1>10, DeflateCalls
    <2>3. pc' # "done" /\ (~good => ret' \notin {"none", "OK"})
      BY <2>2 DEF Loop, GoOn, Return
    <2> QED
      BY <1>0, <1>5, <2>1, <2>2, <2>3 DEF BufferInv
  <1>11. CASE InflateNothing \/ InflateByte \/ InflateUnit
    <2>1. UNCHANGED <<out, written>> /\ pc' # "done" /\ ret = "none"
      BY <1>2, <1>11 DEF InflateNothing, InflateByte, InflateUnit, GoOn, Return, outVars, CallsOK
    <2> QED
      BY <1>0, <1>4, <2>1 DEF BufferInv
  <1>12. CASE InflateReturns
    <2>1. ret = "none" /\ cmd = "zlib-inflate"
      BY <1>2, <1>12 DEF InflateReturns, CallsOK
    <2>2. PICK s \in Seq(Nat) : s = room
      BY <1>2
    <2>3. PICK good \in BOOLEAN :
              Write(s, good) /\ (Return("ERROR") \/ (good /\ pc' # "done"))
      BY <1>12, <2>2 DEF InflateReturns, Return, GoOn, Write
    <2>4. pc' # "done" /\ (~good => ret' \notin {"none", "OK"})
      BY <2>3 DEF Return
    <2> QED
      BY <1>0, <1>5, <2>1, <2>3, <2>4 DEF BufferInv
  <1>13. CASE NoPath \/ SearchItem \/ PrintList
    BY <1>2, <1>13 DEF NoPath, SearchItem, PrintList, CallsOK
  <1>14. CASE Exit
    <2>1. /\ out' = out /\ ret' = ret
          /\ written' = Len(out) \/ ("disk" \in Faults /\ written' = written)
      BY <1>14 DEF Exit
    <2>2. ret # "none" /\ Len(out) \in Nat
      BY <1>2, <1>14, LenProperties DEF Exit, CallsOK, OutOK
    <2>3. Len(out) - Len(out) <= OutBuf
      BY <2>2, UtilAssumption
    <2> QED
      BY <1>1, <2>1, <2>2, <2>3
  <1> QED
    BY <1>3, <1>6, <1>7, <1>8, <1>9, <1>10, <1>11, <1>12, <1>13, <1>14
       DEF Next, Step, Done, vars, outVars

\* What reports success has lost no more than stdout held back, and nothing on a disk with
\* room (util.c:46-48, 75-83).
THEOREM SuccessKeepsTheRest == Spec => []SuccessLosesABufferAtMost
  <1>1. Spec => []Typed
    BY TypedInit, TypedStep, PTL DEF Spec
  <1>2. Spec => []BufferInv
    BY <1>1, BufferInit, BufferStep, PTL DEF Spec
  <1>3. BufferInv => SuccessLosesABufferAtMost
    BY DEF BufferInv, SuccessLosesABufferAtMost, Succeeded
  <1> QED
    BY <1>2, <1>3, PTL
-----------------------------------------------------------------------------
(* Chunks *)

\* Between two reads no chunk is left over; after the last one there is nothing to read;
\* and a chunk is full unless it is the last.
ReadInv ==
    /\ pc = "read" => chunk = <<>> /\ (cmd # "zlib-inflate" => ~eof)
    /\ eof => rest = <<>>
    /\ pc = "convert" /\ ~eof /\ cmd \notin Flates => Len(chunk) = ChunkOf(cmd)
    /\ pc = "convert" /\ cmd = "zlib-inflate" => chunk = <<>> /\ rest = <<>>
    /\ pc = "argument" => chunk = <<>> /\ out = <<>>

LEMMA ReadInit == Init => ReadInv
  BY DEF Init, ReadInv

LEMMA ReadStep == Typed /\ ReadInv /\ [Next]_vars => ReadInv'
  <1> SUFFICES ASSUME Typed, ReadInv, [Next]_vars PROVE ReadInv'
    OBVIOUS
  <1>0. cmd' = cmd /\ CallsOK /\ eof \in BOOLEAN
    BY GivenStep DEF Typed, ChunkOK
  <1>1. /\ pc = "read" => chunk = <<>> /\ (cmd # "zlib-inflate" => ~eof)
        /\ eof => rest = <<>>
        /\ pc = "convert" /\ ~eof /\ cmd \notin Flates => Len(chunk) = ChunkOf(cmd)
        /\ pc = "convert" /\ cmd = "zlib-inflate" => chunk = <<>> /\ rest = <<>>
        /\ pc = "argument" => chunk = <<>> /\ out = <<>>
    BY DEF ReadInv
  <1>2. CASE UNCHANGED <<pc, chunk, eof, rest, out>>
    BY <1>0, <1>1, <1>2 DEF ReadInv
  <1>3. ASSUME pc' = "exit", UNCHANGED eof, rest' = rest \/ rest' = <<>> PROVE ReadInv'
    BY <1>1, <1>3 DEF ReadInv
  <1>4. CASE Read
    <2>0. pc = "read" /\ cmd \in Cmds
      BY <1>4 DEF Read, Typed, GivenOK
    <2>1. CASE Return("ERROR") /\ UNCHANGED <<rest, eof, chunk>>
      BY <1>3, <2>1 DEF Return
    <2>2. CASE /\ chunk' \in Seq(Symbols(cmd)) /\ rest' \in Seq(Symbols(cmd))
               /\ rest = chunk' \o rest'
               /\ Len(chunk') <= ChunkOf(cmd)
               /\ Len(chunk') < ChunkOf(cmd) => rest' = <<>>
               /\ eof' = (Len(chunk') < ChunkOf(cmd))
               /\ GoOn(IF cmd = "zlib-inflate" /\ Len(chunk') > 0 THEN "inflate" ELSE "convert")
      <3>1. ChunkOf(cmd) \in Nat \ {0} /\ Len(chunk') \in Nat
        BY <2>0, <2>2, InputFacts, LenProperties
      <3>2. eof' => rest' = <<>>
        BY <2>2
      <3>3. ~eof' => Len(chunk') = ChunkOf(cmd)
        <4>1. ~eof' => ~(Len(chunk') < ChunkOf(cmd))
          BY <2>2, Zenon
        <4>2. ~(Len(chunk') < ChunkOf(cmd)) => Len(chunk') = ChunkOf(cmd)
          BY <2>2, <3>1
        <4> QED
          BY <4>1, <4>2
      <3>4. pc' \in {"inflate", "convert"}
        BY <2>2 DEF GoOn
      <3>5. pc' = "convert" /\ cmd = "zlib-inflate" => chunk' = <<>> /\ rest' = <<>>
        <4>1. pc' = "convert" /\ cmd = "zlib-inflate" => Len(chunk') = 0
          BY <2>2, <3>1 DEF GoOn
        <4>2. Len(chunk') = 0 => chunk' = <<>> /\ rest' = <<>>
          BY <2>2, <3>1, EmptySeq
        <4> QED
          BY <4>1, <4>2
      <3> QED
        BY <1>0, <3>2, <3>3, <3>4, <3>5 DEF ReadInv
    <2> QED
      BY <1>4, <2>1, <2>2, ReadCuts
  <1>5. ASSUME chunk' = <<>>, UNCHANGED <<eof, rest>>, pc = "convert",
               NEW good \in BOOLEAN, Loop(good)
        PROVE  ReadInv'
    <2>1. pc' = "exit" \/ (pc' = "read" /\ ~eof)
      BY <1>5 DEF Loop, GoOn, Return
    <2> QED
      BY <1>1, <1>3, <1>5, <2>1 DEF ReadInv
  <1>6. CASE Convert
    <2>1. chunk' = <<>> /\ pc = "convert" /\ UNCHANGED <<eof, rest>>
      BY <1>6 DEF Convert
    <2>2. Return("INVALID") \/ \E good \in BOOLEAN : Loop(good)
      BY <1>6 DEF Convert
    <2>3. CASE Return("INVALID")
      BY <1>3, <2>1, <2>3 DEF Return
    <2>4. CASE \E good \in BOOLEAN : Loop(good)
      BY <1>5, <2>1, <2>4
    <2> QED
      BY <2>2, <2>3, <2>4
  <1>7. CASE Argument
    <2>1. pc' = "exit" /\ rest' = <<>> /\ UNCHANGED eof
      BY <1>7 DEF Argument, End, Return
    <2> QED
      BY <1>3, <2>1
  <1>8. CASE Digest
    <2>1. /\ chunk' = <<>> /\ UNCHANGED <<eof, rest>>
          /\ pc' = "exit" \/ (pc' = "read" /\ ~eof)
      BY <1>8 DEF Digest, Return, GoOn
    <2> QED
      BY <1>1, <1>3, <2>1 DEF ReadInv
  <1>9. CASE Deflate
    <2>1. cmd = "zlib-deflate" /\ pc = "convert" /\ UNCHANGED <<eof, rest>>
      BY <1>9 DEF Deflate
    <2>2. chunk \in Seq(Nat) /\ ChunkZlib \in Nat
      BY UtilAssumption DEF Typed, ChunkOK
    <2>3. PICK taken \in 0 .. Len(chunk), emitted \in 0 .. ChunkZlib, good \in BOOLEAN :
              /\ chunk' = SubSeq(chunk, taken + 1, Len(chunk))
              /\ emitted < ChunkZlib => taken = Len(chunk)
              /\ IF good /\ emitted = ChunkZlib THEN GoOn("convert") ELSE Loop(good)
      BY <1>9, DeflateCalls
    <2>4. CASE good /\ emitted = ChunkZlib
      <3>1. pc' = "convert"
        BY <2>3, <2>4 DEF GoOn
      <3> QED
        BY <1>0, <1>1, <2>1, <3>1 DEF ReadInv, Flates
    <2>5. CASE good /\ emitted # ChunkZlib
      <3>1. taken = Len(chunk)
        BY <2>2, <2>3, <2>5
      <3>2. Len(chunk') = 0 /\ chunk' \in Seq(Nat)
        BY <2>2, <2>3, <3>1, Cut
      <3>3. chunk' = <<>>
        BY <3>2, EmptySeq
      <3>4. Loop(good)
        BY <2>3, <2>5
      <3> QED
        BY <1>5, <2>1, <3>3, <3>4
    <2>6. CASE ~good
      <3>1. pc' = "exit"
        BY <2>3, <2>6 DEF Loop, Return
      <3> QED
        BY <1>3, <2>1, <3>1
    <2> QED
      BY <2>4, <2>5, <2>6
  <1>10. CASE InflateNothing \/ NoPath \/ PrintList
    <2>1. pc' = "exit" /\ UNCHANGED <<eof, rest>>
      BY <1>10 DEF InflateNothing, NoPath, PrintList, Return, ioVars
    <2> QED
      BY <1>3, <2>1
  <1>11. CASE InflateByte \/ InflateUnit
    <2>1. pc = "inflate" /\ pc' \in {"inflate", "exit"} /\ UNCHANGED <<eof, rest>>
      BY <1>11 DEF InflateByte, InflateUnit, Return, ioVars
    <2> QED
      BY <1>1, <2>1 DEF ReadInv
  <1>12. CASE InflateReturns
    <2>1. cmd = "zlib-inflate" /\ UNCHANGED <<chunk, eof, rest>>
      BY <1>0, <1>12 DEF InflateReturns, CallsOK, ioVars
    <2>2. pc' \in {"exit", "inflate"} \/ (pc' = "read" /\ chunk = <<>>)
      BY <1>12 DEF InflateReturns, Return, GoOn
    <2> QED
      BY <1>0, <1>1, <2>1, <2>2 DEF ReadInv
  <1>13. CASE SearchItem
    <2>1. pc = "path" /\ UNCHANGED <<pc, eof>> /\ rest # <<>>
      BY <1>13 DEF SearchItem
    <2> QED
      BY <1>1, <2>1 DEF ReadInv
  <1>14. CASE Exit
    <2>1. pc' = "done" /\ UNCHANGED <<eof, rest>>
      BY <1>14 DEF Exit, ioVars
    <2> QED
      BY <1>1, <2>1 DEF ReadInv
  <1> QED
    BY <1>2, <1>4, <1>6, <1>7, <1>8, <1>9, <1>10, <1>11, <1>12, <1>13, <1>14
       DEF Next, Step, Done, vars, ioVars, outVars
-----------------------------------------------------------------------------
(* Encoding and digesting *)

Encoders == {"base16-encode", "base64-encode"}
Encoded(d) == IF cmd = "base16-encode" THEN Base16Encode(d) ELSE Base64Encode(d)

\* What is written is what the input before the chunk encodes to, in threes for base64;
\* what is digested is the input before the chunk.
EncodeInv ==
    /\ cmd \in Encoders /\ ret = "none" =>
          \E d \in Seq(Nat) : /\ input = d \o (chunk \o rest) /\ out = Encoded(d)
                              /\ cmd = "base64-encode" => Len(d) % 3 = 0
    /\ cmd \in Encoders /\ ret = "OK" => out = Encoded(input)
    /\ cmd = "sha256sum" /\ ret = "none" => input = held \o (chunk \o rest)
    /\ cmd = "sha256sum" /\ ret = "OK" => out = <<Sum(input)>>

\* Nothing is encoded as nothing.
LEMMA EncodedEmpty == Base16Encode(<<>>) = <<>> /\ Base64Encode(<<>>) = <<>>
  <1> DEFINE e == <<>>
  <1>1. e \in Seq(Nat) /\ Len(e) = 0
    OBVIOUS
  <1> HIDE DEF e
  <1>2. Base16Encode(e) \in Seq(Nat) /\ Len(Base16Encode(e)) = 0
    <2>1. Base16Encode(e) \in Seq(Nat) /\ Len(Base16Encode(e)) = 2 * Len(e)
      BY <1>1, Base16EncodeFacts
    <2> QED
      BY <1>1, <2>1
  <1>3. Base64Encode(e) \in Seq(Nat) /\ Len(Base64Encode(e)) = 0
    <2>1. (Len(e) + 2) \div 3 = 0
      BY <1>1
    <2>2. Base64Encode(e) \in Seq(Nat) /\ Len(Base64Encode(e)) = 4 * ((Len(e) + 2) \div 3)
      BY <1>1, Base64EncodeFacts
    <2> QED
      BY <2>1, <2>2
  <1>4. Base16Encode(e) = <<>> /\ Base64Encode(e) = <<>>
    BY <1>2, <1>3, EmptySeq
  <1> QED
    BY <1>4 DEF e

\* Everything these commands keep is made of numbers.
LEMMA NumbersOnly ==
    ASSUME Typed, cmd \notin Whichs
    PROVE  input \in Seq(Nat) /\ rest \in Seq(Nat) /\ chunk \in Seq(Nat)
  <1>1. cmd \in Cmds /\ rest \in Seq(Symbols(cmd)) /\ input \in Inputs[cmd] /\ chunk \in Seq(Nat)
    BY DEF Typed, GivenOK, RestOK, ChunkOK
  <1>2. Symbols(cmd) \subseteq Nat /\ Inputs[cmd] \subseteq Seq(Nat)
    BY <1>1, InputFacts
  <1> QED
    BY <1>1, <1>2, SeqMonotonic

LEMMA EncodeInit == Init => EncodeInv
  <1> SUFFICES ASSUME Init PROVE EncodeInv
    OBVIOUS
  <1>1. ret = "none" /\ chunk = <<>> /\ out = <<>> /\ held = <<>> /\ rest = input
    BY DEF Init
  <1>2. CASE cmd \in Encoders \cup {"sha256sum"}
    <2>1. input \in Seq(Nat)
      BY <1>2, TypedInit, NumbersOnly DEF Encoders, Whichs
    <2>2. <<>> \o input = input /\ <<>> \in Seq(Nat)
      BY <2>1, ConcatEmptySeq, EmptySeq
    <2>3. input = <<>> \o (chunk \o rest) /\ input = held \o (chunk \o rest)
      BY <1>1, <2>2, Zenon
    <2>4. out = Encoded(<<>>)
      BY <1>1, EncodedEmpty DEF Encoded
    <2>5. Len(<<>>) % 3 = 0
      BY <2>2, EmptySeq
    <2>6. \E d \in Seq(Nat) : /\ input = d \o (chunk \o rest) /\ out = Encoded(d)
                              /\ cmd = "base64-encode" => Len(d) % 3 = 0
      BY <2>2, <2>3, <2>4, <2>5, Zenon
    <2> QED
      BY <1>1, <2>3, <2>6 DEF EncodeInv
  <1>3. CASE cmd \notin Encoders \cup {"sha256sum"}
    BY <1>3 DEF EncodeInv
  <1> QED
    BY <1>2, <1>3

LEMMA EncodeStep == Typed /\ ReadInv /\ BufferInv /\ EncodeInv /\ [Next]_vars => EncodeInv'
  <1> SUFFICES ASSUME Typed, ReadInv, BufferInv, EncodeInv, [Next]_vars PROVE EncodeInv'
    OBVIOUS
  <1>0. cmd' = cmd /\ input' = input /\ CallsOK /\ cmd \in Cmds
    BY GivenStep DEF Typed, GivenOK
  <1>1. CASE cmd \notin Encoders \cup {"sha256sum"}
    BY <1>0, <1>1 DEF EncodeInv
  <1>2. CASE UNCHANGED <<chunk, rest, held, out, ret>>
    BY <1>0, <1>2 DEF EncodeInv, Encoded
  <1>3. CASE ret' \notin {"none", "OK"}
    BY <1>3 DEF EncodeInv
  <1>4. CASE cmd \in Encoders
    <2>0. /\ input \in Seq(Nat) /\ rest \in Seq(Nat) /\ chunk \in Seq(Nat) /\ OutOK
          /\ cmd \notin Whichs /\ cmd # "sha256sum" /\ cmd \notin Flates
          /\ cmd \in Texts16 \cup Texts64 /\ cmd # "base16-decode"
      BY <1>4, NumbersOnly DEF Encoders, Whichs, Flates, Texts16, Texts64, Typed
    <2>1. ASSUME ret' = "OK", out' = Encoded(input) PROVE EncodeInv'
      BY <1>0, <2>0, <2>1 DEF EncodeInv, Encoded
    <2>2. ASSUME ret' = "none", NEW d \in Seq(Nat), input = d \o (chunk' \o rest'),
                 out' = Encoded(d), cmd = "base64-encode" => Len(d) % 3 = 0
          PROVE  EncodeInv'
      BY <1>0, <2>0, <2>2 DEF EncodeInv, Encoded
    <2>3. CASE Read
      <3>1. ret = "none" /\ pc = "read" /\ UNCHANGED out /\ chunk = <<>>
        BY <1>0, <2>3 DEF Read, CallsOK, ReadInv, outVars
      <3>2. CASE Return("ERROR")
        BY <1>3, <3>2 DEF Return
      <3>3. CASE rest = chunk' \o rest' /\ ret' = ret
        <4>1. PICK d \in Seq(Nat) : /\ input = d \o (chunk \o rest) /\ out = Encoded(d)
                                    /\ cmd = "base64-encode" => Len(d) % 3 = 0
          BY <1>4, <3>1 DEF EncodeInv
        <4>2. chunk \o rest = rest
          BY <2>0, <3>1, ConcatEmptySeq
        <4>3. input = d \o (chunk' \o rest')
          <5>1. input = d \o rest
            BY <4>1, <4>2, Zenon
          <5> QED
            BY <3>3, <5>1, Zenon
        <4>4. /\ ret' = "none" /\ out' = Encoded(d)
              /\ cmd = "base64-encode" => Len(d) % 3 = 0
          BY <3>1, <3>3, <4>1
        <4> QED
          BY <2>2, <4>3, <4>4
      <3> QED
        BY <2>3, <3>2, <3>3, ReadCuts DEF GoOn
    <2>4. CASE Convert
      <3>1. ret = "none" /\ pc = "convert" /\ chunk' = <<>> /\ UNCHANGED <<rest, eof>>
        BY <1>0, <2>4 DEF Convert, CallsOK
      <3>20. PICK d \in Seq(Nat) : /\ input = d \o (chunk \o rest) /\ out = Encoded(d)
                                   /\ cmd = "base64-encode" => Len(d) % 3 = 0
        BY <1>4, <3>1 DEF EncodeInv
      <3>2. input = d \o (chunk \o rest) /\ out = Encoded(d)
        BY <3>20
      <3>21. cmd = "base64-encode" => Len(d) % 3 = 0
        BY <3>20
      <3>22. chunk \in Seq(Nat) /\ rest \in Seq(Nat)
        BY <2>0
      <3>3. eof \in BOOLEAN /\ (eof => rest = <<>>) /\ (~eof => Len(chunk) = ChunkOf(cmd))
        BY <2>0, <3>1 DEF ReadInv, Typed, ChunkOK
      <3>4. chunk' \o rest' = rest
        BY <2>0, <3>1, ConcatEmptySeq
      <3>5. ASSUME chunk = <<>>, Loop(TRUE), UNCHANGED out
            PROVE  EncodeInv'
        <4>1. input = d \o rest
          <5>1. chunk \o rest = rest
            BY <2>0, <3>5, ConcatEmptySeq
          <5> QED
            BY <3>2, <5>1, Zenon
        <4>2. CASE eof
          <5>1. input = d
            BY <3>3, <4>1, <4>2, ConcatEmptySeq
          <5>2. ret' = "OK"
            BY <3>5, <4>2 DEF Loop, Return
          <5> QED
            BY <2>1, <3>2, <3>5, <5>1, <5>2, Zenon
        <4>3. CASE ~eof
          <5>1. ret' = "none"
            BY <3>1, <3>5, <4>3 DEF Loop, GoOn
          <5> QED
            BY <2>2, <3>2, <3>21, <3>4, <3>5, <4>1, <5>1, Zenon
        <4> QED
          BY <4>2, <4>3
      <3>6. ASSUME chunk # <<>>, out' = out \o Encoded(chunk), Loop(TRUE)
            PROVE  EncodeInv'
        <4> DEFINE e == d \o chunk
        <4>1. e \in Seq(Nat) /\ input = e \o rest
          <5>1. (d \o chunk) \o rest = d \o (chunk \o rest)
            BY <3>22, ConcatAssociative, SMTT(30)
          <5>2. e \in Seq(Nat)
            BY <3>22, ConcatProperties
          <5> QED
            BY <3>2, <5>1, <5>2, Zenon
        <4>2. out' = Encoded(e)
          <5>1. CASE cmd = "base16-encode"
            <6>1. Base16Encode(d \o chunk) = Base16Encode(d) \o Base16Encode(chunk)
              BY <3>22, Base16EncodeConcat
            <6> QED
              BY <3>2, <3>6, <5>1, <6>1 DEF Encoded
          <5>2. CASE cmd = "base64-encode"
            <6>1. Base64Encode(d \o chunk) = Base64Encode(d) \o Base64Encode(chunk)
              BY <3>21, <3>22, <5>2, Base64EncodeConcat
            <6> QED
              BY <3>2, <3>6, <5>2, <6>1 DEF Encoded
          <5> QED
            BY <1>4, <5>1, <5>2 DEF Encoders
        <4>3. CASE eof
          <5>1. input = e
            BY <3>3, <4>1, <4>3, ConcatEmptySeq
          <5>2. ret' = "OK"
            BY <3>6, <4>3 DEF Loop, Return
          <5> QED
            BY <2>1, <4>2, <5>1, <5>2
        <4>4. CASE ~eof
          <5>1. ret' = "none"
            BY <3>1, <3>6, <4>4 DEF Loop, GoOn
          <5>2. cmd = "base64-encode" => Len(e) % 3 = 0
            <6>1. SUFFICES ASSUME cmd = "base64-encode" PROVE Len(e) % 3 = 0
              OBVIOUS
            <6>2. Len(chunk) = ChunkEncode /\ ChunkEncode \in Nat /\ ChunkEncode % 3 = 0
              <7>1. ChunkEncode \in Nat /\ ChunkEncode % 3 = 0
                BY UtilAssumption
              <7>2. ChunkOf("base64-encode") = ChunkEncode
                BY DEF ChunkOf, Flates
              <7> QED
                BY <3>3, <4>4, <6>1, <7>1, <7>2
            <6>3. Len(e) = Len(d) + Len(chunk) /\ Len(d) \in Nat /\ Len(d) % 3 = 0
              BY <3>21, <3>22, <6>1, ConcatProperties, LenProperties
            <6>4. \A x, y \in Nat : x % 3 = 0 /\ y % 3 = 0 => (x + y) % 3 = 0
              OBVIOUS
            <6> QED
              BY <6>2, <6>3, <6>4
          <5> HIDE DEF e
          <5> QED
            BY <2>2, <3>4, <4>1, <4>2, <5>1, <5>2
        <4> QED
          BY <4>3, <4>4
      <3>7. \/ chunk = <<>> /\ Loop(TRUE) /\ UNCHANGED out
            \/ chunk # <<>> /\ out' = out \o Encoded(chunk) /\ Loop(TRUE)
            \/ ret' = "ERROR" \/ ret' = "INVALID"
        <4>1. Converted(chunk) = {Encoded(chunk)}
          BY <1>4, <2>0 DEF Converted, Encoded, Encoders
        <4>2. \/ chunk = <<>> /\ Loop(TRUE) /\ UNCHANGED outVars
              \/ chunk # <<>> /\ \E good \in BOOLEAN : Write(Encoded(chunk), good) /\ Loop(good)
              \/ Return("INVALID")
          BY <2>4, <4>1 DEF Convert
        <4>3. ASSUME NEW good \in BOOLEAN, Write(Encoded(chunk), good), Loop(good)
              PROVE  (out' = out \o Encoded(chunk) /\ Loop(TRUE)) \/ ret' = "ERROR"
          <5>1. CASE good
            BY <4>3, <5>1 DEF Write, Loop
          <5>2. CASE ~good
            BY <4>3, <5>2 DEF Loop, Return
          <5> QED
            BY <5>1, <5>2
        <4> QED
          BY <4>2, <4>3 DEF outVars, Return
      <3> QED
        BY <1>3, <3>5, <3>6, <3>7
    <2>5. CASE Argument
      <3>1. /\ pc = "argument" /\ out = <<>>
            /\ Return("NULL") \/ Return("INVALID")
               \/ \E s \in Converted(input), good \in BOOLEAN : Write(s, good) /\ End(good)
        BY <2>5 DEF Argument, ReadInv
      <3>2. Converted(input) = {Encoded(input)}
        BY <1>4, <2>0 DEF Converted, Encoded, Encoders
      <3>3. ASSUME NEW s \in Converted(input), NEW good \in BOOLEAN, Write(s, good), End(good)
            PROVE  EncodeInv'
        <4>1. CASE ~good
          BY <1>3, <3>3, <4>1 DEF End, Return
        <4>2. CASE good
          <5>1. ret' = "OK" /\ out' = out \o s /\ s = Encoded(input)
            BY <3>2, <3>3, <4>2 DEF End, Return, Write
          <5>2. s \in Seq(Nat)
            BY <2>0, <5>1, Base16EncodeFacts, Base64EncodeFacts DEF Encoded
          <5>3. <<>> \o s = s
            BY <5>2, ConcatEmptySeq
          <5> QED
            BY <2>1, <3>1, <5>1, <5>3
        <4> QED
          BY <4>1, <4>2
      <3> QED
        BY <1>3, <3>1, <3>3 DEF Return
    <2>6. CASE Exit
      <3>1. ret' = ret /\ ret # "none" /\ out' = out
        BY <1>0, <2>6 DEF Exit, CallsOK
      <3> QED
        BY <1>0, <2>0, <3>1 DEF EncodeInv, Encoded
    <2>7. ~(Digest \/ Deflate \/ InflateNothing \/ InflateByte \/ InflateUnit
            \/ InflateReturns \/ NoPath \/ SearchItem \/ PrintList)
      BY <1>0, <2>0
         DEF Digest, Deflate, InflateNothing, InflateByte, InflateUnit, InflateReturns, NoPath,
             SearchItem, PrintList, CallsOK, Flates
    <2> QED
      BY <1>2, <2>3, <2>4, <2>5, <2>6, <2>7
         DEF Next, Step, Done, vars, ioVars, outVars, workVars
  <1>5. CASE cmd = "sha256sum"
    <2>0. /\ input \in Seq(Nat) /\ rest \in Seq(Nat) /\ chunk \in Seq(Nat) /\ held \in Seq(Nat)
          /\ cmd \notin Encoders /\ cmd \notin Whichs /\ cmd \notin Texts16 \cup Texts64
          /\ cmd \notin Flates
      BY <1>5, NumbersOnly DEF Encoders, Whichs, Flates, Texts16, Texts64, Typed, WorkOK
    <2>1. ASSUME ret' = "OK", out' = <<Sum(input)>> PROVE EncodeInv'
      BY <1>0, <2>0, <2>1 DEF EncodeInv
    <2>2. ASSUME ret' = "none", input = held' \o (chunk' \o rest') PROVE EncodeInv'
      BY <1>0, <2>0, <2>2 DEF EncodeInv
    <2>3. CASE Read
      <3>1. /\ ret = "none" /\ pc = "read" /\ UNCHANGED held /\ chunk = <<>>
            /\ input = held \o (chunk \o rest)
        BY <1>0, <1>5, <2>3 DEF Read, CallsOK, ReadInv, workVars, EncodeInv
      <3>2. CASE Return("ERROR")
        BY <1>3, <3>2 DEF Return
      <3>3. CASE rest = chunk' \o rest' /\ ret' = ret
        <4>1. chunk \o rest = rest
          BY <2>0, <3>1, ConcatEmptySeq
        <4> QED
          BY <2>2, <3>1, <3>3, <4>1
      <3> QED
        BY <2>3, <3>2, <3>3, ReadCuts DEF GoOn
    <2>4. CASE Digest
      <3>1. /\ ret = "none" /\ pc = "convert" /\ held' = held \o chunk /\ chunk' = <<>>
            /\ UNCHANGED <<rest, eof>> /\ input = held \o (chunk \o rest) /\ out = <<>>
            /\ eof => rest = <<>>
        BY <1>0, <1>5, <2>0, <2>4 DEF Digest, CallsOK, ReadInv, EncodeInv, BufferInv
      <3>2. held' \in Seq(Nat) /\ input = held' \o rest /\ chunk' \o rest' = rest
        <4>0. held \in Seq(Nat) /\ chunk \in Seq(Nat) /\ rest \in Seq(Nat)
          BY <2>0
        <4>1. (held \o chunk) \o rest = held \o (chunk \o rest)
          BY <4>0, ConcatAssociative, SMTT(30)
        <4>2. held' \in Seq(Nat)
          BY <2>0, <3>1, ConcatProperties
        <4>3. chunk' \o rest' = rest
          BY <2>0, <3>1, ConcatEmptySeq
        <4> QED
          BY <3>1, <4>1, <4>2, <4>3
      <3>3. CASE eof
        <4>1. input = held'
          BY <3>1, <3>2, <3>3, ConcatEmptySeq
        <4>2. PICK good \in BOOLEAN : ret' = "OK" /\ Write(<<Sum(held')>>, good)
          BY <2>4, <3>3 DEF Digest, Return
        <4>3. out' = <<>> \o <<Sum(held')>>
          BY <3>1, <4>2 DEF Write
        <4>4. <<Sum(held')>> \in Seq(Nat)
          BY <3>2, SumFacts
        <4>5. out' = <<Sum(input)>>
          BY <4>1, <4>3, <4>4, ConcatEmptySeq
        <4> QED
          BY <2>1, <4>2, <4>5
      <3>4. CASE ~eof
        <4>1. ret' = "none"
          BY <2>4, <3>1, <3>4 DEF Digest, GoOn
        <4> QED
          BY <2>2, <3>2, <4>1
      <3> QED
        BY <3>3, <3>4
    <2>5. CASE Exit
      <3>1. ret' = ret /\ ret # "none" /\ out' = out
        BY <1>0, <2>5 DEF Exit, CallsOK
      <3> QED
        BY <1>0, <2>0, <3>1 DEF EncodeInv
    <2>6. ~(Convert \/ Argument \/ Deflate \/ InflateNothing \/ InflateByte \/ InflateUnit
            \/ InflateReturns \/ NoPath \/ SearchItem \/ PrintList)
      BY <1>0, <1>5, <2>0
         DEF Convert, Argument, Deflate, InflateNothing, InflateByte, InflateUnit,
             InflateReturns, NoPath, SearchItem, PrintList, CallsOK
    <2> QED
      BY <1>2, <2>3, <2>4, <2>5, <2>6 DEF Next, Step, Done, vars, ioVars, outVars, workVars
  <1> QED
    BY <1>1, <1>4, <1>5

\* Piece by piece the same comes out as in one piece, however long the input is and
\* wherever the chunks end (util.c:24-57, 129-165, core/sha256sum.c:71-111).
THEOREM EncodesInOnePiece == Spec => []EncodesAsInOnePiece
  <1>1. Spec => []Typed
    BY TypedInit, TypedStep, PTL DEF Spec
  <1>2. Spec => []BufferInv
    BY <1>1, BufferInit, BufferStep, PTL DEF Spec
  <1>3. Spec => []ReadInv
    BY <1>1, ReadInit, ReadStep, PTL DEF Spec
  <1>4. Spec => []EncodeInv
    BY <1>1, <1>2, <1>3, EncodeInit, EncodeStep, PTL DEF Spec
  <1>5. EncodeInv => EncodesAsInOnePiece
    BY DEF EncodeInv, EncodesAsInOnePiece, Succeeded, Encoders, Encoded
  <1> QED
    BY <1>4, <1>5, PTL
-----------------------------------------------------------------------------
(* Searching PATH *)

InOrder(s) == \A i, j \in DOMAIN s : i < j => s[i] < s[j]
Matches == {i \in DOMAIN input : Found(input[i])}
Wanted == IF cmd = "which" THEN {m \in Matches : \A i \in Matches : m <= i} ELSE Matches

\* The list has the matches among the items before the rest; which stops at the first.
WhichInv ==
    cmd \in Whichs =>
        /\ ret = "none" =>
              LET searched == {m \in Matches : m <= Len(input) - Len(rest)} IN
              /\ out = <<>>
              /\ InOrder(held) /\ Range(held) \subseteq searched
              /\ cmd = "which -a" => Range(held) = searched
              /\ cmd = "which" =>
                    \/ held = <<>> /\ searched = {}
                    \/ rest = <<>> /\ Range(held) = Wanted
        /\ ret = "OK" => InOrder(out) /\ Range(out) = Wanted

\* Appending what is greater than everything keeps the order.
LEMMA InOrderAppend ==
    ASSUME NEW s \in Seq(Nat), NEW n \in Nat, InOrder(s), \A m \in Range(s) : m < n
    PROVE  InOrder(Append(s, n)) /\ Range(Append(s, n)) = Range(s) \cup {n}
  <1> DEFINE t == Append(s, n)
  <1>1. /\ t \in Seq(Nat) /\ Len(t) = Len(s) + 1 /\ Len(s) \in Nat
        /\ \A i \in 1 .. Len(s) : t[i] = s[i]
        /\ t[Len(s) + 1] = n
        /\ DOMAIN s = 1 .. Len(s) /\ DOMAIN t = 1 .. Len(s) + 1
    <2>1. t \in Seq(Nat) /\ Len(t) = Len(s) + 1
      BY AppendProperties
    <2>2. (\A i \in 1 .. Len(s) : t[i] = s[i]) /\ t[Len(s) + 1] = n
      BY AppendProperties
    <2> HIDE DEF t
    <2> QED
      BY <2>1, <2>2, LenProperties
  <1> HIDE DEF t
  <1>2. InOrder(t)
    <2>1. SUFFICES ASSUME NEW i \in 1 .. Len(s) + 1, NEW j \in 1 .. Len(s) + 1, i < j
                   PROVE  t[i] < t[j]
      BY <1>1 DEF InOrder
    <2>2. i \in 1 .. Len(s)
      BY <1>1, <2>1
    <2>3. CASE j = Len(s) + 1
      BY <1>1, <2>2, <2>3 DEF Range
    <2>4. CASE j # Len(s) + 1
      <3>1. j \in 1 .. Len(s)
        BY <1>1, <2>4
      <3> QED
        BY <1>1, <2>1, <2>2, <3>1 DEF InOrder
    <2> QED
      BY <2>3, <2>4
  <1>3. Range(t) = Range(s) \cup {n}
    <2>1. ASSUME NEW x \in Range(t) PROVE x \in Range(s) \cup {n}
      <3>1. PICK i \in 1 .. Len(s) + 1 : x = t[i]
        BY <1>1 DEF Range
      <3>2. CASE i = Len(s) + 1
        BY <1>1, <3>1, <3>2
      <3>3. CASE i # Len(s) + 1
        <4>1. i \in 1 .. Len(s)
          BY <1>1, <3>3
        <4> QED
          BY <1>1, <3>1, <4>1 DEF Range
      <3> QED
        BY <3>2, <3>3
    <2>2. n \in Range(t)
      <3>1. Len(s) + 1 \in 1 .. Len(s) + 1
        BY <1>1
      <3> QED
        BY <1>1, <3>1 DEF Range
    <2>3. ASSUME NEW x \in Range(s) PROVE x \in Range(t)
      <3>1. PICK i \in 1 .. Len(s) : x = s[i]
        BY <1>1 DEF Range
      <3>2. i \in 1 .. Len(s) + 1
        BY <1>1
      <3> QED
        BY <1>1, <3>1, <3>2 DEF Range
    <2> QED
      BY <2>1, <2>2, <2>3
  <1> QED
    BY <1>2, <1>3 DEF t

LEMMA WhichInit == Init => WhichInv
  <1> SUFFICES ASSUME Init PROVE WhichInv
    OBVIOUS
  <1>1. ret = "none" /\ out = <<>> /\ held = <<>> /\ rest = input
    BY DEF Init
  <1>2. DOMAIN held = {}
    BY <1>1
  <1>3. InOrder(held) /\ Range(held) = {}
    BY <1>2 DEF InOrder, Range
  <1>4. {m \in Matches : m <= Len(input) - Len(rest)} = {}
    <2>1. input \in Seq(Symbols(cmd))
      BY InputFacts DEF Init
    <2>2. DOMAIN input = 1 .. Len(input) /\ Len(input) \in Nat
      BY <2>1, LenProperties
    <2>3. Len(input) - Len(rest) = 0
      BY <1>1, <2>2
    <2> QED
      BY <2>2, <2>3 DEF Matches
  <1> QED
    BY <1>1, <1>3, <1>4 DEF WhichInv

LEMMA WhichStep == Typed /\ WhichInv /\ [Next]_vars => WhichInv'
  <1> SUFFICES ASSUME Typed, WhichInv, [Next]_vars PROVE WhichInv'
    OBVIOUS
  <1>0. cmd' = cmd /\ input' = input /\ CallsOK /\ cmd \in Cmds
    BY GivenStep DEF Typed, GivenOK
  <1>00. Matches' = Matches /\ Wanted' = Wanted
    BY <1>0 DEF Matches, Wanted
  <1> DEFINE Searched(r) == {m \in Matches : m <= Len(input) - Len(r)}
             Listed(o, h, r) ==
                /\ o = <<>>
                /\ InOrder(h) /\ Range(h) \subseteq Searched(r)
                /\ cmd = "which -a" => Range(h) = Searched(r)
                /\ cmd = "which" => \/ h = <<>> /\ Searched(r) = {}
                                    \/ r = <<>> /\ Range(h) = Wanted
  <1>1. CASE cmd \notin Whichs
    BY <1>0, <1>1 DEF WhichInv
  <1>2. CASE ret' \notin {"none", "OK"}
    BY <1>2 DEF WhichInv
  <1>3. CASE UNCHANGED <<rest, held, out, ret>>
    BY <1>0, <1>00, <1>3 DEF WhichInv
  <1>4. CASE cmd \in Whichs
    <2>1. ~(Read \/ Convert \/ Argument \/ Digest \/ Deflate \/ InflateNothing \/ InflateByte
            \/ InflateUnit \/ InflateReturns)
      BY <1>0, <1>4
         DEF Read, Convert, Argument, Digest, Deflate, InflateNothing, InflateByte, InflateUnit,
             InflateReturns, CallsOK, Whichs, Texts16, Texts64
    <2>2. CASE NoPath
      BY <1>2, <2>2 DEF NoPath, Return
    <2>3. /\ rest \in Seq(Symbols(cmd)) /\ input \in Seq(Symbols(cmd)) /\ held \in Seq(Nat)
          /\ DOMAIN input = 1 .. Len(input) /\ Len(input) \in Nat /\ Len(rest) \in Nat
      BY <1>0, InputFacts, LenProperties DEF Typed, RestOK, GivenOK, WorkOK
    <2>4. CASE SearchItem
      <3>1. ret = "none" /\ ret' = ret /\ out' = out /\ rest # <<>>
        BY <1>0, <2>4 DEF SearchItem, CallsOK, outVars
      <3>2. Listed(out, held, rest)
        BY <1>4, <3>1 DEF WhichInv
      <3>3. Listed(out', held', rest') => WhichInv'
        BY <1>0, <1>00, <3>1 DEF WhichInv
      <3>4. PICK k \in Nat : k = Len(input) - Len(rest) + 1
        <4>1. PICK d \in Seq(Symbols(cmd)) : input = d \o rest
          BY DEF Typed, RestOK
        <4>2. Len(input) = Len(d) + Len(rest) /\ Len(d) \in Nat
          BY <2>3, <4>1, ConcatProperties, LenProperties
        <4> QED
          BY <2>3, <4>2
      <3>5. k \in 1 .. Len(input) /\ Head(rest) = input[k] /\ k - 1 = Len(input) - Len(rest)
        <4>1. PICK d \in Seq(Symbols(cmd)) : input = d \o rest
          BY DEF Typed, RestOK
        <4>2. /\ Len(input) = Len(d) + Len(rest) /\ Len(d) \in Nat
              /\ \A j \in 1 .. Len(rest) : input[Len(d) + j] = rest[j]
          BY <2>3, <4>1, ConcatElements, LenProperties
        <4>3. Len(rest) # 0
          BY <2>3, <3>1, EmptySeq
        <4>4. k = Len(d) + 1 /\ 1 \in 1 .. Len(rest)
          BY <2>3, <3>4, <4>2, <4>3
        <4>5. input[k] = rest[1]
          BY <4>2, <4>4
        <4>6. Head(rest) = rest[1]
          BY <2>3, <3>1
        <4> QED
          BY <2>3, <3>4, <4>2, <4>4, <4>5, <4>6
      <3>6. Len(Tail(rest)) = Len(rest) - 1
        BY <2>3, <3>1, HeadTailProperties
      <3>7. Searched(Tail(rest)) = IF Found(input[k]) THEN Searched(rest) \cup {k}
                                   ELSE Searched(rest)
        <4>1. Len(input) - Len(Tail(rest)) = k
          <5>1. PICK x \in Nat, y \in Nat : x = Len(input) /\ y = Len(rest)
            BY <2>3
          <5>2. x - (y - 1) = k
            BY <3>4, <5>1
          <5> QED
            BY <3>6, <5>1, <5>2
        <4>2. \A m \in Matches : m <= k <=> m <= k - 1 \/ m = k
          BY <2>3, <3>4 DEF Matches
        <4>3. k \in Matches <=> Found(input[k])
          BY <2>3, <3>5 DEF Matches
        <4> QED
          BY <3>5, <4>1, <4>2, <4>3
      <3>8. CASE Found(Head(rest))
        <4>1. /\ held' = Append(held, k)
              /\ rest' = IF cmd = "which" THEN <<>> ELSE Tail(rest)
          <5>1. 1 + Len(input) - Len(rest) = k
            BY <2>3, <3>4
          <5> QED
            BY <2>4, <3>8, <5>1 DEF SearchItem
        <4>2. \A m \in Range(held) : m < k
          <5>1. \A m \in Searched(rest) : m < k
            BY <2>3, <3>5 DEF Matches
          <5> QED
            BY <3>2, <5>1
        <4>3. InOrder(held') /\ Range(held') = Range(held) \cup {k}
          BY <2>3, <3>2, <4>1, <4>2, InOrderAppend
        <4>4. CASE cmd = "which -a"
          BY <3>2, <3>3, <3>5, <3>7, <3>8, <4>1, <4>3, <4>4, <3>1
        <4>5. CASE cmd = "which"
          <5>1. held = <<>> /\ Searched(rest) = {}
            BY <3>1, <3>2, <4>5
          <5>2. Range(held') = {k}
            BY <3>2, <4>3, <5>1
          <5>3. k \in Matches
            BY <2>3, <3>5, <3>8 DEF Matches
          <5>4. \A m \in Matches : k <= m
            BY <2>3, <3>5, <5>1 DEF Matches
          <5>5. Wanted = {k}
            <6>1. \A m \in Matches : (\A i \in Matches : m <= i) => m = k
              <7> SUFFICES ASSUME NEW m \in Matches, \A i \in Matches : m <= i PROVE m = k
                OBVIOUS
              <7>1. m \in Nat
                BY <2>3 DEF Matches
              <7>2. m <= k /\ k <= m
                BY <5>3, <5>4
              <7> QED
                BY <3>4, <7>1, <7>2
            <6> QED
              BY <4>5, <5>3, <5>4, <6>1 DEF Wanted
          <5>6. Range(held') \subseteq Searched(rest')
            <6>1. rest' = <<>>
              BY <4>1, <4>5
            <6>2. Len(rest') = 0
              BY <6>1, EmptySeq, Zenon
            <6>3. k <= Len(input) - Len(rest')
              BY <2>3, <3>5, <6>2
            <6> QED
              BY <5>2, <5>3, <6>3
          <5>7. rest' = <<>> /\ out' = <<>>
            BY <3>1, <3>2, <4>1, <4>5
          <5> QED
            BY <3>3, <4>3, <4>5, <5>2, <5>5, <5>6, <5>7
        <4> QED
          BY <1>4, <4>4, <4>5 DEF Whichs
      <3>9. CASE ~Found(Head(rest))
        <4>1. held' = held /\ rest' = Tail(rest)
          BY <2>4, <3>9 DEF SearchItem
        <4>2. Searched(rest') = Searched(rest)
          BY <3>5, <3>7, <3>9, <4>1
        <4> HIDE DEF Searched
        <4> QED
          BY <3>1, <3>2, <3>3, <4>1, <4>2
      <3> QED
        BY <3>8, <3>9
    <2>5. CASE PrintList
      <3>1. ret = "none" /\ ret' = "OK" /\ rest = <<>>
        BY <1>0, <2>5 DEF PrintList, CallsOK, Return
      <3>2. Listed(out, held, rest)
        BY <1>4, <3>1 DEF WhichInv
      <3>3. out' = held
        <4>1. out' = <<>> \o held
          BY <2>5, <3>2 DEF PrintList, Write
        <4> QED
          BY <2>3, <4>1, ConcatEmptySeq
      <3>4. Searched(rest) = Matches
        <4>1. Len(rest) = 0
          BY <3>1, EmptySeq, Zenon
        <4> QED
          BY <2>3, <4>1 DEF Matches
      <3>5. Range(held) = Wanted
        <4>1. CASE cmd = "which -a"
          BY <3>2, <3>4, <4>1 DEF Wanted
        <4>2. CASE cmd = "which"
          <5>1. CASE held = <<>> /\ Matches = {}
            <6>1. DOMAIN held = {}
              BY <5>1
            <6> QED
              BY <4>2, <5>1, <6>1 DEF Range, Wanted
          <5> QED
            BY <3>2, <3>4, <4>2, <5>1
        <4> QED
          BY <1>4, <4>1, <4>2 DEF Whichs
      <3> QED
        BY <1>00, <3>1, <3>2, <3>3, <3>5 DEF WhichInv
    <2>6. CASE Exit
      <3>1. ret' = ret /\ ret # "none" /\ out' = out
        BY <1>0, <2>6 DEF Exit, CallsOK
      <3> QED
        BY <1>0, <1>00, <3>1 DEF WhichInv
    <2> QED
      BY <1>3, <2>1, <2>2, <2>4, <2>5, <2>6 DEF Next, Step, Done, vars, ioVars, outVars, workVars
  <1> QED
    BY <1>1, <1>4

\* The matches are listed, all of them or the first, in the order of PATH, whatever the
\* items in between are (core/exe.c:9-111, util.c:333-369).
THEOREM WhichIsInOrder == Spec => []WhichListsInOrder
  <1>1. Spec => []Typed
    BY TypedInit, TypedStep, PTL DEF Spec
  <1>2. Spec => []WhichInv
    BY <1>1, WhichInit, WhichStep, PTL DEF Spec
  <1>3. WhichInv => WhichListsInOrder
    BY DEF WhichInv, WhichListsInOrder, Succeeded, InOrder, Wanted, Matches
  <1> QED
    BY <1>2, <1>3, PTL
-----------------------------------------------------------------------------
(* Decoding base16 *)

\* What is not empty is decoded or refused, as it can be.
Decode16Inv ==
    cmd = "base16-decode" /\ given /\ input # <<>> =>
        /\ ret \in {"none", "OK", "ERROR", "INVALID"}
        /\ ret \in {"OK", "ERROR"} => Base16Decode(input, signed) # {}
        /\ ret = "OK" => out \in Base16Decode(input, signed)
        /\ ret = "INVALID" => Base16Decode(input, signed) = {}

LEMMA Decode16Init == Init => Decode16Inv
  BY DEF Init, Decode16Inv

LEMMA Decode16Step == Typed /\ ReadInv /\ Decode16Inv /\ [Next]_vars => Decode16Inv'
  <1> SUFFICES ASSUME Typed, ReadInv, Decode16Inv, [Next]_vars PROVE Decode16Inv'
    OBVIOUS
  <1>0. UNCHANGED <<cmd, given, input, signed>> /\ CallsOK
    BY GivenStep DEF Typed
  <1>1. CASE ~(cmd = "base16-decode" /\ given /\ input # <<>>)
    BY <1>0, <1>1 DEF Decode16Inv
  <1>2. CASE UNCHANGED <<out, ret>>
    BY <1>0, <1>2 DEF Decode16Inv
  <1>3. CASE cmd = "base16-decode" /\ given /\ input # <<>>
    <2>1. CASE Argument
      <3>1. out = <<>> /\ input \in Seq(Nat) /\ signed \in BOOLEAN
        BY <1>3, <2>1, NumbersOnly DEF Argument, ReadInv, Whichs, Typed, GivenOK
      <3>2. Converted(input) = Base16Decode(input, signed)
        BY <1>3 DEF Converted
      <3>3. CASE Base16Decode(input, signed) = {} /\ Return("INVALID")
        BY <1>0, <3>3 DEF Decode16Inv, Return
      <3>4. ASSUME NEW s \in Base16Decode(input, signed), NEW good \in BOOLEAN,
                   Write(s, good), End(good)
            PROVE  Decode16Inv'
        <4>1. out' = s
          <5>1. s \in Seq(Nat)
            BY <3>1, Base16DecodeType
          <5>2. out' = <<>> \o s
            BY <3>1, <3>4 DEF Write
          <5> QED
            BY <5>1, <5>2, ConcatEmptySeq
        <4>2. ret' \in {"OK", "ERROR"}
          BY <3>4 DEF End, Return
        <4> QED
          BY <1>0, <3>4, <4>1, <4>2 DEF Decode16Inv
      <3>5. \/ Converted(input) = {} /\ Return("INVALID")
            \/ \E s \in Converted(input), good \in BOOLEAN : Write(s, good) /\ End(good)
        BY <1>3, <2>1 DEF Argument
      <3> QED
        BY <3>2, <3>3, <3>4, <3>5
    <2>2. CASE Exit
      BY <1>2, <2>2 DEF Exit
    <2>3. ~(Read \/ Convert \/ Digest \/ Deflate \/ InflateNothing \/ InflateByte \/ InflateUnit
            \/ InflateReturns \/ NoPath \/ SearchItem \/ PrintList)
      BY <1>0, <1>3
         DEF Read, Convert, Digest, Deflate, InflateNothing, InflateByte, InflateUnit,
             InflateReturns, NoPath, SearchItem, PrintList, CallsOK, Whichs
    <2> QED
      BY <1>2, <2>1, <2>2, <2>3 DEF Next, Step, Done, vars, outVars
  <1> QED
    BY <1>1, <1>3

\* Whatever was encoded, base16-decode gives it back or refuses it, and it refuses nothing
\* without a byte from 0x80 on, nor anything where char is unsigned (core/base16.c:56-101,
\* util.c:87-127).
THEOREM Base16IsUndone == Spec => []Base16Inverts
  <1>1. Spec => []Typed
    BY TypedInit, TypedStep, PTL DEF Spec
  <1>2. Spec => []ReadInv
    BY <1>1, ReadInit, ReadStep, PTL DEF Spec
  <1>3. Spec => []Decode16Inv
    BY <1>1, <1>2, Decode16Init, Decode16Step, PTL DEF Spec
  <1>4. Typed /\ Decode16Inv => Base16Inverts
    <2> SUFFICES ASSUME Typed, Decode16Inv,
                        NEW s \in Inputs["base16-encode"] \ {<<>>},
                        pc = "done", cmd = "base16-decode", given, input = Base16Encode(s)
                 PROVE  /\ ret = "OK" => out = s
                        /\ ret = "INVALID" => signed /\ \E i \in DOMAIN s : s[i] > 127
      BY DEF Base16Inverts
    <2>1. s \in Seq(Bytes) /\ s \in Seq(Nat)
      <3>1. "base16-encode" \in Cmds /\ Symbols("base16-encode") = Bytes /\ Bytes \subseteq Nat
        BY DEF Cmds, Texts16, Symbols, Bytes, Whichs
      <3> QED
        BY <3>1, InputFacts, SeqMonotonic
    <2>2. input # <<>>
      <3>1. Len(s) \in Nat /\ Len(s) # 0
        BY <2>1, EmptySeq, LenProperties
      <3>2. Len(input) = 2 * Len(s)
        BY <2>1, Base16EncodeFacts
      <3>3. Len(input) # 0
        BY <3>1, <3>2
      <3> QED
        BY <3>3, EmptySeq, Zenon
    <2>3. signed \in BOOLEAN /\ ret # "none"
      BY DEF Typed, GivenOK, CallsOK
    <2>4. Base16Decode(input, signed) =
              IF signed /\ \E i \in DOMAIN s : s[i] > 127 THEN {} ELSE {s}
      BY <2>1, <2>3, Base16Inverse
    <2> QED
      BY <2>2, <2>3, <2>4 DEF Decode16Inv
  <1> QED
    BY <1>1, <1>3, <1>4, PTL
-----------------------------------------------------------------------------
(* Deflating *)

\* What has been emitted is the beginning of the stream of what was taken; its sum comes
\* only when everything was taken.
DeflateInv ==
    cmd = "zlib-deflate" =>
        /\ ret = "none" =>
              /\ input = held \o (chunk \o rest)
              /\ count <= Len(held) + 1 \/ (count = Len(held) + 2 /\ eof /\ chunk = <<>>)
              /\ out = SubSeq(Deflated(held), 1, count)
        /\ ret = "OK" => out = Deflated(input)
        /\ ret # "DATA"

\* More input changes nothing of a stream but its sum.
LEMMA DeflatedBegins ==
    ASSUME NEW s \in Seq(Nat), NEW x \in Seq(Nat), NEW n \in 0 .. Len(s) + 1
    PROVE  SubSeq(Deflated(s), 1, n) = SubSeq(Deflated(s \o x), 1, n)
  <1> DEFINE q == s \o x
             d == Deflated(s)
             e == Deflated(q)
             a == SubSeq(d, 1, n)
             b == SubSeq(e, 1, n)
  <1>1. PICK l \in Nat, k \in Nat : l = Len(s) /\ k = Len(x)
    OBVIOUS
  <1>2. q \in Seq(Nat) /\ Len(q) = l + k /\ \A i \in 1 .. l : q[i] = s[i]
    BY <1>1, ConcatElements
  <1> HIDE DEF q
  <1>3. /\ d \in Seq(Nat) /\ Len(d) = l + 2 /\ d[1] = Header
        /\ \A i \in 1 .. l : d[i + 1] = Unit(s[i], 1)
    BY <1>1, DeflatedFacts
  <1>4. /\ e \in Seq(Nat) /\ Len(e) = l + k + 2 /\ e[1] = Header
        /\ \A i \in 1 .. l + k : e[i + 1] = Unit(q[i], 1)
    <2>1. /\ e \in Seq(Nat) /\ Len(e) = Len(q) + 2 /\ e[1] = Header
          /\ \A i \in 1 .. Len(q) : e[i + 1] = Unit(q[i], 1)
      BY <1>2, DeflatedFacts
    <2> HIDE DEF e
    <2> QED
      BY <1>2, <2>1
  <1> HIDE DEF d, e
  <1>5. ASSUME NEW i \in 1 .. l + 1 PROVE d[i] = e[i]
    <2>1. CASE i = 1
      BY <1>3, <1>4, <2>1
    <2>2. CASE i # 1
      <3>1. PICK j \in 1 .. l : i = j + 1
        <4>1. i - 1 \in 1 .. l /\ i = (i - 1) + 1
          BY <2>2
        <4> QED
          BY <4>1
      <3>2. d[j + 1] = Unit(s[j], 1)
        BY <1>3
      <3>3. q[j] = s[j]
        BY <1>2
      <3>4. e[j + 1] = Unit(q[j], 1)
        <4>1. j \in 1 .. l + k
          OBVIOUS
        <4> QED
          BY <1>4, <4>1
      <3> QED
        BY <3>1, <3>2, <3>3, <3>4, Zenon
    <2> QED
      BY <2>1, <2>2
  <1>6. n \in Nat /\ n <= l + 1 /\ n \in 0 .. Len(d) /\ n \in 0 .. Len(e) /\ 1 \in Nat \ {0}
    BY <1>1, <1>3, <1>4
  <1>7. a \in Seq(Nat) /\ Len(a) = n /\ \A i \in 1 .. n : a[i] = d[i]
    <2>1. /\ a \in Seq(Nat) /\ Len(a) = IF 1 <= n THEN n - 1 + 1 ELSE 0
          /\ \A i \in 1 .. n - 1 + 1 : a[i] = d[1 + i - 1]
      <3>1. d \in Seq(Nat) /\ n \in 0 .. Len(d) /\ 1 \in Nat \ {0}
        BY <1>3, <1>6
      <3> QED
        BY <3>1, PartType
    <2> HIDE DEF a
    <2> QED
      BY <1>6, <2>1
  <1>8. b \in Seq(Nat) /\ Len(b) = n /\ \A i \in 1 .. n : b[i] = e[i]
    <2>1. /\ b \in Seq(Nat) /\ Len(b) = IF 1 <= n THEN n - 1 + 1 ELSE 0
          /\ \A i \in 1 .. n - 1 + 1 : b[i] = e[1 + i - 1]
      <3>1. e \in Seq(Nat) /\ n \in 0 .. Len(e) /\ 1 \in Nat \ {0}
        BY <1>4, <1>6
      <3> QED
        BY <3>1, PartType
    <2> HIDE DEF b
    <2> QED
      BY <1>6, <2>1
  <1> HIDE DEF a, b
  <1>9. ASSUME NEW i \in 1 .. n PROVE a[i] = b[i]
    <2>1. i \in 1 .. l + 1
      BY <1>6
    <2>2. a[i] = d[i] /\ b[i] = e[i]
      BY <1>7, <1>8
    <2> QED
      BY <1>5, <2>1, <2>2
  <1>10. a = b
    BY <1>7, <1>8, <1>9, SameElements
  <1> QED
    BY <1>10 DEF a, b, d, e, q

LEMMA DeflateInit == Init => DeflateInv
  <1> SUFFICES ASSUME Init, cmd = "zlib-deflate" PROVE DeflateInv
    BY DEF DeflateInv
  <1>1. /\ ret = "none" /\ chunk = <<>> /\ out = <<>> /\ held = <<>> /\ rest = input
        /\ count = 0
    BY DEF Init
  <1>2. input \in Seq(Nat)
    BY TypedInit, NumbersOnly DEF Whichs
  <1>3. <<>> \o input = input
    BY <1>2, ConcatEmptySeq
  <1>4. input = held \o (chunk \o rest)
    BY <1>1, <1>3, Zenon
  <1>5. SubSeq(Deflated(held), 1, 0) = <<>>
    <2>1. held \in Seq(Nat)
      BY TypedInit DEF Typed, WorkOK
    <2>2. Deflated(held) \in Seq(Nat) /\ Len(Deflated(held)) \in Nat
      BY <2>1, DeflatedFacts, LenProperties
    <2>3. 0 \in 0 .. Len(Deflated(held))
      BY <2>2
    <2>4. SubSeq(Deflated(held), 1, 0) \in Seq(Nat) /\ Len(SubSeq(Deflated(held), 1, 0)) = 0
      BY <2>2, <2>3, Cut
    <2> QED
      BY <2>4, EmptySeq
  <1>6. count <= Len(held) + 1
    <2>1. Len(held) = 0
      BY <1>1, EmptySeq, Zenon
    <2> QED
      BY <1>1, <2>1
  <1> QED
    BY <1>1, <1>4, <1>5, <1>6 DEF DeflateInv

\* In one call deflate takes the beginning of its chunk and emits some of the stream.
LEMMA DeflateTakes ==
    ASSUME Typed, Deflate
    PROVE  \E x \in Seq(Nat), y \in Seq(Nat), n \in Nat, good \in BOOLEAN :
               /\ chunk = x \o y /\ chunk' = y /\ held' = held \o x /\ held' \in Seq(Nat)
               /\ \A r \in Seq(Nat) : held \o (chunk \o r) = held' \o (chunk' \o r)
               /\ count' = count + n /\ count' \in Nat
               /\ count' <= Len(held') + 1 \/ (count' = Len(held') + 2 /\ eof /\ chunk' = <<>>)
               /\ n # ChunkZlib => y = <<>> /\ (eof => count' = Len(held') + 2)
               /\ out' = out \o SubSeq(Deflated(held'), count + 1, count')
               /\ IF good /\ n = ChunkZlib THEN GoOn("convert") ELSE Loop(good)
  <1>0. ChunkZlib \in Nat /\ chunk \in Seq(Nat) /\ eof \in BOOLEAN /\ count \in Nat
    BY UtilAssumption DEF Typed, ChunkOK, WorkOK
  <1>1. \A a, b, c \in Seq(Nat) : held \o ((a \o b) \o c) = (held \o a) \o (b \o c)
    <2>1. held \in Seq(Nat)
      BY DEF Typed, WorkOK
    <2> QED
      BY <2>1, Regrouped, Zenon
  <1>2. PICK taken \in 0 .. Len(chunk), emitted \in 0 .. ChunkZlib, good \in BOOLEAN :
            LET all == taken = Len(chunk)
                stream == Deflated(held')
                ready == Len(stream) - (IF eof /\ all THEN 0 ELSE 1)
            IN /\ held' = held \o SubSeq(chunk, 1, taken) /\ held' \in Seq(Nat)
               /\ chunk' = SubSeq(chunk, taken + 1, Len(chunk))
               /\ count + emitted <= ready /\ count' = count + emitted /\ count' \in Nat
               /\ emitted < ChunkZlib => all /\ (eof => count + emitted = ready)
               /\ Write(SubSeq(stream, count + 1, count + emitted), good)
               /\ SubSeq(stream, count + 1, count + emitted) \in Seq(Nat)
               /\ IF good /\ emitted = ChunkZlib THEN GoOn("convert") ELSE Loop(good)
    BY DeflateCalls
  <1> DEFINE x == SubSeq(chunk, 1, taken)
             y == SubSeq(chunk, taken + 1, Len(chunk))
  <1>3. x \in Seq(Nat) /\ y \in Seq(Nat) /\ chunk = x \o y /\ Len(y) = Len(chunk) - taken
    BY <1>0, Cut
  <1>4. held' = held \o x /\ held' \in Seq(Nat) /\ chunk' = y
    BY <1>2
  <1> HIDE DEF x, y
  <1>5. Len(Deflated(held')) = Len(held') + 2 /\ Len(held') \in Nat
    BY <1>4, DeflatedFacts, LenProperties
  <1>6. taken = Len(chunk) => y = <<>>
    <2>1. Len(chunk) \in Nat
      BY <1>0, LenProperties
    <2>2. taken = Len(chunk) => Len(y) = 0
      BY <1>3, <2>1
    <2> QED
      BY <1>3, <2>2, EmptySeq
  <1>7. ASSUME NEW r \in Seq(Nat) PROVE held \o (chunk \o r) = held' \o (chunk' \o r)
    <2>1. held \in Seq(Nat) /\ x \in Seq(Nat) /\ y \in Seq(Nat)
      BY <1>3 DEF Typed, WorkOK
    <2>2. held \o ((x \o y) \o r) = (held \o x) \o (y \o r)
      BY <1>1, <2>1, Zenon
    <2> QED
      BY <1>3, <1>4, <2>2, Zenon
  <1>8. PICK l \in Nat, n \in Nat : l = Len(held') /\ n = emitted /\ n <= ChunkZlib
    BY <1>0, <1>5
  <1> DEFINE all == taken = Len(chunk)
  <1>9. /\ count + n <= (l + 2) - (IF eof /\ all THEN 0 ELSE 1) /\ count' = count + n
        /\ n < ChunkZlib => all /\ (eof => count + n = (l + 2) - (IF eof /\ all THEN 0 ELSE 1))
    BY <1>2, <1>5, <1>8
  <1>10. all => y = <<>>
    BY <1>6
  <1> HIDE DEF all
  <1>11. count' <= l + 1 \/ (count' = l + 2 /\ eof /\ all)
    <2>1. CASE eof /\ all
      BY <1>0, <1>9, <2>1
    <2>2. CASE ~(eof /\ all)
      BY <1>0, <1>9, <2>2
    <2> QED
      BY <2>1, <2>2
  <1>12. n # ChunkZlib => all /\ (eof => count' = l + 2)
    BY <1>0, <1>8, <1>9
  <1>13. /\ out' = out \o SubSeq(Deflated(held'), count + 1, count')
         /\ IF good /\ n = ChunkZlib THEN GoOn("convert") ELSE Loop(good)
    BY <1>2, <1>8 DEF Write
  <1>14. count' <= Len(held') + 1 \/ (count' = Len(held') + 2 /\ eof /\ chunk' = <<>>)
    BY <1>4, <1>10, <1>8, <1>11
  <1>15. n # ChunkZlib => y = <<>> /\ (eof => count' = Len(held') + 2)
    BY <1>10, <1>8, <1>12
  <1>16. count' = count + n /\ count' \in Nat
    BY <1>2, <1>9
  <1> QED
    BY <1>3, <1>4, <1>13, <1>14, <1>15, <1>16, <1>7, ZenonT(60)

LEMMA DeflateStep == Typed /\ ReadInv /\ DeflateInv /\ [Next]_vars => DeflateInv'
  <1> SUFFICES ASSUME Typed, ReadInv, DeflateInv, [Next]_vars PROVE DeflateInv'
    OBVIOUS
  <1>0. cmd' = cmd /\ input' = input /\ CallsOK
    BY GivenStep DEF Typed
  <1>1. CASE cmd # "zlib-deflate"
    BY <1>0, <1>1 DEF DeflateInv
  <1>2. CASE ret' \notin {"none", "OK", "DATA"}
    BY <1>2 DEF DeflateInv
  <1>3. CASE UNCHANGED <<eof, chunk, rest, held, count, out, ret>>
    <2>1. Deflated(held') = Deflated(held) /\ Len(held') = Len(held)
      BY <1>3
    <2> QED
      BY <1>0, <1>3, <2>1 DEF DeflateInv
  <1>4. CASE cmd = "zlib-deflate"
    <2>0. /\ input \in Seq(Nat) /\ rest \in Seq(Nat) /\ chunk \in Seq(Nat) /\ held \in Seq(Nat)
          /\ count \in Nat
          /\ cmd \notin Encoders /\ cmd \notin Whichs /\ cmd \notin Texts16 \cup Texts64
      BY <1>4, NumbersOnly DEF Encoders, Whichs, Texts16, Texts64, Typed, WorkOK
    <2>1. CASE Read
      <3>1. /\ ret = "none" /\ UNCHANGED <<held, count, out>> /\ chunk = <<>> /\ ~eof
            /\ input = held \o (chunk \o rest) /\ out = SubSeq(Deflated(held), 1, count)
        BY <1>0, <1>4, <2>1 DEF Read, CallsOK, ReadInv, workVars, outVars, DeflateInv
      <3>2. count <= Len(held) + 1
        BY <1>4, <3>1 DEF DeflateInv
      <3>3. CASE Return("ERROR")
        BY <1>2, <3>3 DEF Return
      <3>4. CASE rest = chunk' \o rest' /\ ret' = ret
        <4>1. chunk \o rest = rest
          BY <2>0, <3>1, ConcatEmptySeq
        <4>2. input = held \o (chunk' \o rest')
          BY <3>1, <3>4, <4>1, Zenon
        <4>3. Deflated(held') = Deflated(held) /\ Len(held') = Len(held)
          BY <3>1
        <4> QED
          BY <1>0, <3>1, <3>2, <3>4, <4>2, <4>3 DEF DeflateInv
      <3> QED
        BY <2>1, <3>3, <3>4, ReadCuts DEF GoOn
    <2>2. CASE Deflate
      <3>1. /\ ret = "none" /\ UNCHANGED <<rest, eof>> /\ eof \in BOOLEAN
            /\ input = held \o (chunk \o rest) /\ out = SubSeq(Deflated(held), 1, count)
            /\ eof => rest = <<>>
        BY <1>0, <1>4, <2>2 DEF Deflate, CallsOK, ReadInv, DeflateInv, Typed, ChunkOK
      <3>2. count <= Len(held) + 1 \/ (count = Len(held) + 2 /\ eof /\ chunk = <<>>)
        BY <1>4, <3>1 DEF DeflateInv
      <3>3. PICK x \in Seq(Nat), y \in Seq(Nat), n \in Nat, good \in BOOLEAN :
               /\ chunk = x \o y /\ chunk' = y /\ held' = held \o x /\ held' \in Seq(Nat)
               /\ \A r \in Seq(Nat) : held \o (chunk \o r) = held' \o (chunk' \o r)
               /\ count' = count + n /\ count' \in Nat
               /\ count' <= Len(held') + 1 \/ (count' = Len(held') + 2 /\ eof /\ chunk' = <<>>)
               /\ n # ChunkZlib => y = <<>> /\ (eof => count' = Len(held') + 2)
               /\ out' = out \o SubSeq(Deflated(held'), count + 1, count')
               /\ IF good /\ n = ChunkZlib THEN GoOn("convert") ELSE Loop(good)
        BY <2>2, DeflateTakes
      <3>4. held \in Seq(Nat) /\ chunk \in Seq(Nat) /\ rest \in Seq(Nat)
        BY <2>0
      <3>5. input = held' \o (chunk' \o rest)
        BY <3>1, <3>3, <3>4, Zenon
      <3>6. out = SubSeq(Deflated(held'), 1, count)
        <4>1. CASE count <= Len(held) + 1
          <5>1. count \in 0 .. Len(held) + 1
            BY <2>0, <4>1, LenProperties
          <5>2. SubSeq(Deflated(held), 1, count) = SubSeq(Deflated(held \o x), 1, count)
            BY <3>4, <5>1, DeflatedBegins
          <5> QED
            BY <3>1, <3>3, <5>2, Zenon
        <4>2. CASE chunk = <<>>
          <5>1. x \o y = <<>>
            BY <3>3, <4>2
          <5>2. x = <<>>
            BY <5>1, ConcatIsEmpty
          <5>3. held \o x = held
            BY <3>4, <5>2, ConcatEmptySeq
          <5> QED
            BY <3>1, <3>3, <5>3, Zenon
        <4> QED
          BY <3>2, <4>1, <4>2
      <3>7. out' = SubSeq(Deflated(held'), 1, count')
        <4>1. PICK d \in Seq(Nat) : d = Deflated(held') /\ Len(d) = Len(held') + 2
          BY <3>3, DeflatedFacts
        <4>2. out' = SubSeq(d, 1, count) \o SubSeq(d, count + 1, count')
          BY <3>3, <3>6, <4>1
        <4>3. Len(held') \in Nat
          BY <3>3, LenProperties
        <4>4. /\ 1 \in 1 .. Len(d) + 1 /\ count \in 1 - 1 .. Len(d)
              /\ count' \in count .. Len(d)
          <5>1. /\ count' = count + n /\ count \in Nat
                /\ count' <= Len(held') + 1 \/ count' = Len(held') + 2
            BY <2>0, <3>3
          <5>2. Len(d) = Len(held') + 2
            BY <4>1
          <5> QED
            BY <4>3, <5>1, <5>2
        <4>5. SubSeq(d, 1, count) \o SubSeq(d, count + 1, count') = SubSeq(d, 1, count')
          BY <4>4, ConcatAdjacentSubSeq
        <4> QED
          BY <4>1, <4>2, <4>5
      <3>8. CASE ret' = "none"
        <4>1. input' = held' \o (chunk' \o rest')
          BY <1>0, <3>1, <3>5
        <4>2. \/ count' <= Len(held') + 1
              \/ count' = Len(held') + 2 /\ eof' /\ chunk' = <<>>
          BY <3>1, <3>3
        <4> QED
          BY <3>7, <3>8, <4>1, <4>2 DEF DeflateInv
      <3>9. CASE ret' = "OK"
        <4>1. n # ChunkZlib /\ eof
          BY <3>1, <3>3, <3>9 DEF GoOn, Loop, Return
        <4>2. count' = Len(held') + 2 /\ chunk' = <<>> /\ rest = <<>>
          BY <3>1, <3>3, <4>1
        <4>3. out' = Deflated(held')
          <5>1. Deflated(held') \in Seq(Nat) /\ Len(Deflated(held')) = Len(held') + 2
            BY <3>3, DeflatedFacts
          <5>2. SubSeq(Deflated(held'), 1, Len(Deflated(held'))) = Deflated(held')
            BY <5>1, SubSeqFull
          <5> QED
            BY <3>7, <4>2, <5>1, <5>2
        <4>4. input = held'
          <5>1. chunk' \o rest = <<>>
            BY <3>4, <4>2, ConcatEmptySeq
          <5>2. held' \o <<>> = held'
            BY <3>3, ConcatEmptySeq
          <5> QED
            BY <3>5, <5>1, <5>2, Zenon
        <4> QED
          BY <1>0, <3>9, <4>3, <4>4 DEF DeflateInv
      <3> QED
        BY <1>2, <3>1, <3>3, <3>8, <3>9 DEF GoOn, Loop, Return
    <2>3. CASE Exit
      <3>1. ret' = ret /\ ret # "none" /\ out' = out
        BY <1>0, <2>3 DEF Exit, CallsOK
      <3> QED
        BY <1>0, <3>1 DEF DeflateInv
    <2>4. ~(Convert \/ Argument \/ Digest \/ InflateNothing \/ InflateByte \/ InflateUnit
            \/ InflateReturns \/ NoPath \/ SearchItem \/ PrintList)
      BY <1>0, <1>4, <2>0
         DEF Convert, Argument, Digest, InflateNothing, InflateByte, InflateUnit,
             InflateReturns, NoPath, SearchItem, PrintList, CallsOK
    <2> QED
      BY <1>2, <1>3, <2>1, <2>2, <2>3, <2>4
         DEF Next, Step, Done, vars, ioVars, outVars, workVars
  <1> QED
    BY <1>1, <1>4
-----------------------------------------------------------------------------
(* Inflating *)

AllUnits(u) == \A i \in 1 .. Len(u) : IsUnit(u[i])

\* What was taken of the input is a header and units, whose content is what was inflated
\* and what is left of the unit inflate is at; after the sum the content is known.
StreamInv ==
    /\ mode = "header" => held = <<>> /\ count = 0 /\ input = chunk \o rest
    /\ mode = "units" =>
          \E u \in Seq(Nat) : /\ AllUnits(u)
                              /\ input = (<<Header>> \o u) \o (chunk \o rest)
                              /\ Content(u) = held \o Expanded(count)
    /\ mode = "sum" => count = 0 /\ Inflated(input) = {held}

\* inflate is asked for no more than it has while it is at a unit or has seen the sum.
InflateInv ==
    cmd = "zlib-inflate" =>
        /\ ret = "none" =>
              /\ out \o room = held
              /\ pc # "inflate" => count = 0 /\ mode # "sum"
              /\ StreamInv
        /\ ret = "OK" => Inflated(input) = {out}
        /\ ret = "DATA" => Inflated(input) = {}

LEMMA InflateInit == Init => InflateInv
  <1> SUFFICES ASSUME Init, cmd = "zlib-inflate" PROVE InflateInv
    BY DEF InflateInv
  <1>1. /\ ret = "none" /\ chunk = <<>> /\ out = <<>> /\ held = <<>> /\ rest = input
        /\ room = <<>> /\ count = 0 /\ mode = "header"
    BY DEF Init
  <1>2. input \in Seq(Nat) /\ <<>> \in Seq(Nat)
    BY TypedInit, NumbersOnly, EmptySeq DEF Whichs
  <1>3. <<>> \o input = input /\ <<>> \o <<>> = <<>>
    BY <1>2, ConcatEmptySeq
  <1>4. input = chunk \o rest /\ out \o room = held
    BY <1>1, <1>3, Zenon
  <1> QED
    BY <1>1, <1>4 DEF InflateInv, StreamInv

\* What c means in stream i, after units with content h and before t and r.
NextGives(i, h, c, t, r) ==
    /\ IsUnit(c) => \E v \in Seq(Nat) : /\ AllUnits(v)
                                        /\ i = (<<Header>> \o v) \o (t \o r)
                                        /\ Content(v) = h \o Expanded(c)
    /\ c = Sum(h) => Inflated(i) = {h}
    /\ ~IsUnit(c) /\ c # Sum(h) => Inflated(i) = {}

\* The next number of the stream is a unit, the sum, or neither.
LEMMA NextOfStream ==
    ASSUME NEW u \in Seq(Nat), AllUnits(u), NEW c \in Nat, NEW t \in Seq(Nat), NEW r \in Seq(Nat)
    PROVE  NextGives((<<Header>> \o u) \o ((<<c>> \o t) \o r), Content(u), c, t, r)
  <1>0. PICK h \in Seq(Nat), i \in Seq(Nat) :
            h = Content(u) /\ i = (<<Header>> \o u) \o ((<<c>> \o t) \o r)
    <2>1. Content(u) \in Seq(Nat)
      BY ContentSteps
    <2>2. <<c>> \in Seq(Nat) /\ <<Header>> \in Seq(Nat)
      BY DEF Header
    <2>3. <<Header>> \o u \in Seq(Nat) /\ (<<c>> \o t) \o r \in Seq(Nat)
      BY <2>2, ConcatProperties
    <2>4. (<<Header>> \o u) \o ((<<c>> \o t) \o r) \in Seq(Nat)
      BY <2>3, ConcatProperties
    <2> QED
      BY <2>1, <2>4
  <1>1. <<c>> \in Seq(Nat) /\ <<c>> \o t \in Seq(Nat) /\ Header \in Nat /\ <<Header>> \in Seq(Nat)
    <2>1. <<c>> \in Seq(Nat) /\ Header \in Nat
      BY DEF Header
    <2> QED
      BY <2>1, ConcatProperties
  <1>2. ASSUME IsUnit(c)
        PROVE  \E v \in Seq(Nat) : /\ AllUnits(v)
                                   /\ i = (<<Header>> \o v) \o (t \o r)
                                   /\ Content(v) = h \o Expanded(c)
    <2> DEFINE v == Append(u, c)
    <2>1. /\ v \in Seq(Nat) /\ Len(v) = Len(u) + 1 /\ Len(u) \in Nat
          /\ \A j \in 1 .. Len(u) : v[j] = u[j]
          /\ v[Len(u) + 1] = c
      BY AppendProperties, LenProperties
    <2> HIDE DEF v
    <2>2. AllUnits(v)
      <3>1. SUFFICES ASSUME NEW j \in 1 .. Len(u) + 1 PROVE IsUnit(v[j])
        BY <2>1 DEF AllUnits
      <3>2. j \in 1 .. Len(u) \/ j = Len(u) + 1
        BY <2>1
      <3> QED
        BY <1>2, <2>1, <3>2 DEF AllUnits
    <2>3. Content(v) = h \o Expanded(c)
      BY <1>0, ContentSteps DEF v
    <2>4. i = (<<Header>> \o v) \o (t \o r)
      <3> DEFINE d == <<Header>> \o u
                 e == t \o r
      <3>1. d \in Seq(Nat) /\ e \in Seq(Nat)
        BY <1>1, ConcatProperties
      <3>2. (<<c>> \o t) \o r = <<c>> \o e
        BY AppendMoves, Zenon
      <3>3. Append(d, c) \o e = d \o (<<c>> \o e)
        <4> HIDE DEF d, e
        <4> QED
          BY <3>1, AppendMoves, ZenonT(60)
      <3>4. <<Header>> \o v = Append(d, c)
        <4>1. <<Header>> \in Seq(Nat)
          BY <1>1
        <4> QED
          BY <4>1, AppendMoves, Zenon DEF v
      <3> QED
        BY <1>0, <3>2, <3>3, <3>4, Zenon
    <2> QED
      BY <2>1, <2>2, <2>3, <2>4
  <1> DEFINE w == (<<c>> \o t) \o r
  <1>3. w \in Seq(Nat) /\ w # <<>> /\ w[1] = c
    <2>1. w \in Seq(Nat)
      BY <1>1, ConcatProperties
    <2> DEFINE x == <<c>>
               y == t \o r
    <2>2. x \in Seq(Nat) /\ Len(x) = 1 /\ x[1] = c /\ y \in Seq(Nat)
      BY <1>1, ConcatProperties
    <2>3. w = x \o y
      BY AppendMoves, Zenon
    <2> HIDE DEF w, x, y
    <2>4. Len(w) = Len(x) + Len(y) /\ \A j \in 1 .. Len(x) : w[j] = x[j]
      <3>1. x \in Seq(Nat) /\ y \in Seq(Nat)
        BY <2>2
      <3> QED
        BY <2>3, <3>1, ConcatElements
    <2>5. w[1] = c
      BY <2>2, <2>4
    <2>6. Len(y) \in Nat
      BY <2>2, LenProperties
    <2>7. Len(w) # 0
      BY <2>2, <2>4, <2>6
    <2> QED
      BY <2>1, <2>5, <2>7, EmptySeq
  <1>4. ~IsUnit(Sum(h))
    BY SumFacts
  <1> HIDE DEF w
  <1>5. ~IsUnit(c) =>
            Inflated((<<Header>> \o u) \o w) = IF c = Sum(Content(u)) THEN {Content(u)} ELSE {}
    BY <1>3, InflatedIs DEF AllUnits
  <1>6. i = (<<Header>> \o u) \o w
    BY <1>0 DEF w
  <1>7. NextGives(i, h, c, t, r)
    BY <1>0, <1>2, <1>4, <1>5, <1>6 DEF NextGives
  <1> QED
    BY <1>0, <1>7, Zenon

LEMMA InflateStep == Typed /\ ReadInv /\ InflateInv /\ [Next]_vars => InflateInv'
  <1> SUFFICES ASSUME Typed, ReadInv, InflateInv, [Next]_vars PROVE InflateInv'
    OBVIOUS
  <1>0. cmd' = cmd /\ input' = input /\ CallsOK
    BY GivenStep DEF Typed
  <1>1. CASE cmd # "zlib-inflate"
    BY <1>0, <1>1 DEF InflateInv
  <1>2. CASE ret' \notin {"none", "OK", "DATA"}
    BY <1>2 DEF InflateInv
  <1>3. CASE UNCHANGED <<chunk, rest, pc, out, ret, held, count, room, mode>>
    BY <1>0, <1>3 DEF InflateInv, StreamInv
  <1>4. CASE cmd = "zlib-inflate"
    <2>0. /\ input \in Seq(Nat) /\ rest \in Seq(Nat) /\ chunk \in Seq(Nat) /\ held \in Seq(Nat)
          /\ out \in Seq(Nat) /\ room \in Seq(Nat) /\ count \in Nat
          /\ mode \in {"header", "units", "sum"}
      BY <1>4, NumbersOnly DEF Whichs, Typed, WorkOK, OutOK
    <2>1. ret = "none" =>
              /\ out \o room = held
              /\ pc # "inflate" => count = 0 /\ mode # "sum"
              /\ StreamInv
      BY <1>4 DEF InflateInv
    <2>2. ASSUME ret' = "none", out' \o room' = held',
                 pc' # "inflate" => count' = 0 /\ mode' # "sum", StreamInv'
          PROVE  InflateInv'
      BY <2>2 DEF InflateInv
    <2>3. CASE Read
      <3>1. /\ ret = "none" /\ pc = "read" /\ UNCHANGED <<held, count, room, mode, out>>
            /\ chunk = <<>>
        BY <1>0, <2>3 DEF Read, CallsOK, ReadInv, workVars, outVars
      <3>2. CASE Return("ERROR")
        BY <1>2, <3>2 DEF Return
      <3>3. CASE rest = chunk' \o rest' /\ ret' = ret
        <4>1. chunk \o rest = chunk' \o rest'
          BY <2>0, <3>1, <3>3, ConcatEmptySeq
        <4>2. StreamInv'
          BY <1>0, <2>1, <3>1, <4>1 DEF StreamInv
        <4> QED
          BY <2>1, <2>2, <3>1, <3>3, <4>2
      <3> QED
        BY <2>3, <3>2, <3>3, ReadCuts DEF GoOn
    <2>4. CASE InflateNothing
      <3>1. /\ ret = "none" /\ ret' = "DATA" /\ chunk = <<>> /\ rest = <<>>
            /\ count = 0 /\ mode # "sum" /\ StreamInv
        BY <1>0, <1>4, <2>1, <2>4 DEF InflateNothing, Return, CallsOK, ReadInv
      <3>2. chunk \o rest = <<>>
        BY <2>0, <3>1, ConcatEmptySeq
      <3>3. Inflated(input) = {}
        <4>1. CASE mode = "header"
          <5>1. input = <<>>
            BY <3>1, <3>2, <4>1 DEF StreamInv
          <5> QED
            BY <2>0, <5>1, InflatedNeedsHeader
        <4>2. CASE mode = "units"
          <5>1. PICK u \in Seq(Nat) : AllUnits(u) /\ input = (<<Header>> \o u) \o (chunk \o rest)
            BY <3>1, <4>2 DEF StreamInv
          <5>2. <<>> \in Seq(Nat)
            BY EmptySeq
          <5>3. Inflated((<<Header>> \o u) \o <<>>) = {}
            BY <5>1, <5>2, InflatedIs DEF AllUnits
          <5> QED
            BY <3>2, <5>1, <5>3, Zenon
        <4> QED
          BY <2>0, <3>1, <4>1, <4>2
      <3> QED
        BY <1>0, <3>1, <3>3 DEF InflateInv
    <2>5. CASE InflateByte
      <3>1. /\ pc = "inflate" /\ count > 0 /\ UNCHANGED <<chunk, rest, pc, out, ret, mode>>
            /\ ret = "none"
        BY <1>0, <2>5 DEF InflateByte, CallsOK, ioVars, outVars
      <3>2. PICK b \in Nat : /\ b = ByteOf(count)
                             /\ room' = Append(room, b) /\ held' = Append(held, b)
        <4>1. ByteOf(count) \in Nat
          BY <2>0 DEF ByteOf
        <4> QED
          BY <2>5, <4>1 DEF InflateByte
      <3>3. Times(count) > 0 /\ count' \in Nat
            /\ count' = IF Times(count) = 1 THEN 0 ELSE count - Unit(0, 1)
        <4>1. Times(count) > 0
          BY <1>4, <3>1 DEF Typed, WorkOK
        <4>2. WorkOK'
          BY WorkStep
        <4> QED
          BY <2>5, <4>1, <4>2 DEF InflateByte, WorkOK
      <3>4. out' \o room' = held'
        <4>1. out \o Append(room, b) = Append(out \o room, b)
          BY <2>0, AppendMoves, ZenonT(60)
        <4> QED
          BY <2>1, <3>1, <3>2, <4>1, Zenon
      <3>5. mode = "units"
        BY <2>0, <2>1, <3>1 DEF StreamInv
      <3>6. PICK u \in Seq(Nat) : /\ AllUnits(u)
                                  /\ input = (<<Header>> \o u) \o (chunk \o rest)
                                  /\ Content(u) = held \o Expanded(count)
        BY <2>1, <3>1, <3>5 DEF StreamInv
      <3>7. Content(u) = held' \o Expanded(count')
        <4>1. Expanded(count) = <<b>> \o Expanded(count')
          BY <2>0, <3>2, <3>3, ExpandedGoesOn
        <4>2. Expanded(count') \in Seq(Nat)
          BY <3>3, ExpandedType
        <4>3. Append(held, b) \o Expanded(count') = held \o (<<b>> \o Expanded(count'))
          <5>1. \A e \in Seq(Nat) : Append(held, b) \o e = held \o (<<b>> \o e)
            <6>1. held \in Seq(Nat)
              BY <2>0
            <6>2. \A s \in Seq(Nat), n \in Nat, e \in Seq(Nat) : Append(s, n) \o e = s \o (<<n>> \o e)
              BY AppendMoves, Zenon
            <6>3. \A n \in Nat, e \in Seq(Nat) : Append(held, n) \o e = held \o (<<n>> \o e)
              BY <6>1, <6>2, Zenon
            <6> QED
              BY <6>3, Zenon
          <5> QED
            BY <4>2, <5>1
        <4> QED
          BY <3>2, <3>6, <4>1, <4>3, Zenon
      <3>8. StreamInv'
        BY <1>0, <3>1, <3>5, <3>6, <3>7 DEF StreamInv
      <3> QED
        BY <2>2, <3>1, <3>4, <3>8
    <2>6. CASE InflateUnit
      <3>1. /\ pc = "inflate" /\ ret = "none" /\ count = 0 /\ chunk # <<>> /\ mode # "sum"
            /\ UNCHANGED <<rest, out, held, room>> /\ chunk' = Tail(chunk)
        BY <1>0, <2>6 DEF InflateUnit, CallsOK, outVars
      <3>2. PICK c \in Nat : c = Head(chunk)
        BY <2>0, <3>1, FirstAndOthers
      <3>3. chunk' \in Seq(Nat) /\ chunk = <<c>> \o chunk'
        BY <2>0, <3>1, <3>2, FirstAndOthers
      <3>4. CASE mode = "header"
        <4>1. input = chunk \o rest /\ held = <<>>
          BY <2>1, <3>1, <3>4 DEF StreamInv
        <4>2. CASE c = Header
          <5>1. mode' = "units" /\ UNCHANGED <<count, pc, ret>>
            BY <2>6, <3>2, <3>4, <4>2 DEF InflateUnit
          <5>2. AllUnits(<<>>) /\ <<>> \in Seq(Nat)
            BY EmptySeq DEF AllUnits
          <5>3. Content(<<>>) = held' \o Expanded(count')
            <6>1. Content(<<>>) = <<>> /\ <<>> \o <<>> = <<>>
              BY <5>2, <3>2, ContentSteps, ConcatEmptySeq
            <6> QED
              BY <3>1, <4>1, <5>1, <6>1, NothingExpanded, Zenon
          <5>4. input = (<<Header>> \o <<>>) \o (chunk' \o rest')
            <6>1. <<c>> \in Seq(Nat)
              BY <3>2
            <6>2. (<<c>> \o chunk') \o rest = <<c>> \o (chunk' \o rest)
              BY <2>0, <3>2, <3>3, AppendMoves, ZenonT(60)
            <6>3. <<c>> \o <<>> = <<c>>
              BY <6>1, ConcatEmptySeq
            <6> QED
              BY <3>1, <3>3, <4>1, <4>2, <6>2, <6>3, Zenon
          <5>5. StreamInv'
            BY <1>0, <5>1, <5>2, <5>3, <5>4, Zenon DEF StreamInv
          <5> QED
            BY <2>1, <2>2, <3>1, <5>1, <5>5
        <4>3. CASE c # Header
          <5>1. ret' = "DATA"
            BY <2>6, <3>2, <3>4, <4>3 DEF InflateUnit, Return
          <5>2. input # <<>> /\ input[1] = c
            <6>1. <<c>> \in Seq(Nat) /\ Len(<<c>>) = 1 /\ <<c>>[1] = c /\ chunk' \o rest \in Seq(Nat)
              BY <2>0, <3>2, <3>3, ConcatProperties
            <6>2. (<<c>> \o chunk') \o rest = <<c>> \o (chunk' \o rest)
              BY <2>0, <3>2, <3>3, AppendMoves, ZenonT(60)
            <6>3. input = <<c>> \o (chunk' \o rest)
              BY <3>3, <4>1, <6>2, Zenon
            <6>4. \A j \in 1 .. Len(<<c>>) : (<<c>> \o (chunk' \o rest))[j] = <<c>>[j]
              <7>1. <<c>> \in Seq(Nat) /\ chunk' \o rest \in Seq(Nat)
                BY <6>1
              <7> QED
                BY <7>1, ConcatElements
            <6>5. input[1] = c
              BY <6>1, <6>3, <6>4
            <6>6. chunk # <<>> => input # <<>>
              BY <2>0, <4>1, ConcatIsEmpty
            <6> QED
              BY <3>1, <6>5, <6>6
          <5>3. Inflated(input) = {}
            BY <2>0, <4>3, <5>2, InflatedNeedsHeader
          <5> QED
            BY <1>0, <5>1, <5>3 DEF InflateInv
        <4> QED
          BY <4>2, <4>3
      <3>5. CASE mode = "units"
        <4>1. PICK u \in Seq(Nat) : /\ AllUnits(u)
                                    /\ input = (<<Header>> \o u) \o (chunk \o rest)
                                    /\ Content(u) = held \o Expanded(count)
          BY <2>1, <3>1, <3>5 DEF StreamInv
        <4>2. Content(u) = held
          <5>1. held \o <<>> = held
            BY <2>0, ConcatEmptySeq
          <5> QED
            BY <3>1, <4>1, <5>1, NothingExpanded, Zenon
        <4>3. NextGives(input, held, c, chunk', rest)
          <5>1. input = (<<Header>> \o u) \o ((<<c>> \o chunk') \o rest)
            BY <3>3, <4>1, Zenon
          <5>2. AllUnits(u) /\ chunk' \in Seq(Nat) /\ rest \in Seq(Nat)
            BY <2>0, <3>3, <4>1
          <5>3. NextGives((<<Header>> \o u) \o ((<<c>> \o chunk') \o rest), Content(u), c, chunk', rest)
            BY <5>2, NextOfStream
          <5> QED
            BY <4>2, <5>1, <5>3, Zenon
        <4>4. \/ IsUnit(c) /\ count' = c /\ UNCHANGED <<mode, pc, ret>>
              \/ c = Sum(held) /\ mode' = "sum" /\ UNCHANGED <<count, pc, ret>>
              \/ ~IsUnit(c) /\ c # Sum(held) /\ Return("DATA")
          BY <2>6, <3>2, <3>5 DEF InflateUnit
        <4>5. CASE IsUnit(c) /\ count' = c /\ UNCHANGED <<mode, pc, ret>>
          <5>1. StreamInv'
            BY <1>0, <3>1, <3>5, <4>3, <4>5 DEF StreamInv, NextGives
          <5> QED
            BY <2>1, <2>2, <3>1, <4>5, <5>1
        <4>6. CASE c = Sum(held) /\ mode' = "sum" /\ UNCHANGED <<count, pc, ret>>
          <5>1. StreamInv'
            BY <1>0, <3>1, <4>3, <4>6 DEF StreamInv, NextGives
          <5> QED
            BY <2>1, <2>2, <3>1, <4>6, <5>1
        <4>7. CASE ~IsUnit(c) /\ c # Sum(held) /\ Return("DATA")
          BY <1>0, <4>3, <4>7 DEF InflateInv, NextGives, Return
        <4> QED
          BY <4>4, <4>5, <4>6, <4>7
      <3> QED
        BY <2>0, <3>1, <3>4, <3>5
    <2>7. CASE InflateReturns
      <3>1. /\ pc = "inflate" /\ ret = "none" /\ room' = <<>>
            /\ UNCHANGED <<chunk, rest, held, count, mode>>
            /\ IF count > 0 THEN Len(room) = ChunkZlib ELSE mode = "sum" \/ chunk = <<>>
        BY <1>0, <2>7 DEF InflateReturns, CallsOK, ioVars
      <3>2. /\ out' = held
            /\ \/ Return("ERROR")
               \/ GoOn("inflate")
               \/ mode = "sum" /\ Return("OK")
               \/ mode # "sum" /\ Len(room) # ChunkZlib /\ GoOn("read")
        BY <2>1, <2>7, <3>1 DEF InflateReturns, Write
      <3>3. out' \o room' = held'
        BY <2>0, <3>1, <3>2, ConcatEmptySeq
      <3>4. StreamInv'
        BY <1>0, <2>1, <3>1 DEF StreamInv
      <3>5. CASE GoOn("inflate")
        BY <2>2, <3>1, <3>3, <3>4, <3>5 DEF GoOn
      <3>6. CASE mode # "sum" /\ Len(room) # ChunkZlib /\ GoOn("read")
        <4>1. count = 0
          BY <2>0, <3>1, <3>6
        <4> QED
          BY <2>2, <3>1, <3>3, <3>4, <3>6, <4>1 DEF GoOn
      <3>7. CASE mode = "sum" /\ Return("OK")
        <4>1. Inflated(input) = {held}
          BY <2>1, <3>1, <3>7 DEF StreamInv
        <4> QED
          BY <1>0, <3>2, <3>7, <4>1 DEF InflateInv, Return
      <3> QED
        BY <1>2, <3>2, <3>5, <3>6, <3>7 DEF Return
    <2>8. CASE Exit
      <3>1. ret' = ret /\ ret # "none" /\ out' = out
        BY <1>0, <2>8 DEF Exit, CallsOK
      <3> QED
        BY <1>0, <3>1 DEF InflateInv
    <2>9. ~(Convert \/ Argument \/ Digest \/ Deflate \/ NoPath \/ SearchItem \/ PrintList)
      BY <1>0, <1>4
         DEF Convert, Argument, Digest, Deflate, NoPath, SearchItem, PrintList, CallsOK,
             Texts16, Texts64, Whichs
    <2> QED
      BY <1>3, <2>3, <2>4, <2>5, <2>6, <2>7, <2>8, <2>9
         DEF Next, Step, Done, vars, ioVars, outVars, workVars
  <1> QED
    BY <1>1, <1>4

\* What is deflated can be inflated to what it was, what is inflated is what is in the
\* stream, and a stream is refused only when nothing is in it, however the calls of deflate
\* and inflate fall on the chunks (core/zlib-flate.c:60-172).
THEOREM FlatesAreExact == Spec => []FlatesExactly
  <1>1. Spec => []Typed
    BY TypedInit, TypedStep, PTL DEF Spec
  <1>2. Spec => []ReadInv
    BY <1>1, ReadInit, ReadStep, PTL DEF Spec
  <1>3. Spec => []DeflateInv
    BY <1>1, <1>2, DeflateInit, DeflateStep, PTL DEF Spec
  <1>4. Spec => []InflateInv
    BY <1>1, <1>2, InflateInit, InflateStep, PTL DEF Spec
  <1>5. Typed /\ DeflateInv /\ InflateInv => FlatesExactly
    <2> SUFFICES ASSUME Typed, DeflateInv, InflateInv PROVE FlatesExactly
      OBVIOUS
    <2>1. Succeeded /\ cmd = "zlib-deflate" => Inflated(out) = {input}
      <3> SUFFICES ASSUME ret = "OK", cmd = "zlib-deflate" PROVE Inflated(out) = {input}
        BY DEF Succeeded
      <3>1. input \in Seq(Bytes)
        <4>1. cmd \in Cmds /\ input \in Inputs[cmd] /\ Symbols(cmd) = Bytes
          BY DEF Typed, GivenOK, Symbols, Whichs
        <4> QED
          BY <4>1, InputFacts
      <3> QED
        BY <3>1, DeflatedInflates DEF DeflateInv
    <2>2. Succeeded /\ cmd = "zlib-inflate" => Inflated(input) = {out}
      BY DEF Succeeded, InflateInv
    <2>3. pc = "done" /\ ret = "DATA" => Inflated(input) = {}
      BY DEF InflateInv, Typed, CallsOK
    <2> QED
      BY <2>1, <2>2, <2>3 DEF FlatesExactly
  <1> QED
    BY <1>1, <1>3, <1>4, <1>5, PTL
-----------------------------------------------------------------------------
(* Decoding base64 *)

LEMMA ChunksOfFour ==
    ASSUME NEW n \in Nat, n % ChunkDecode = 0
    PROVE  /\ n % 4 = 0 /\ (n + ChunkDecode) % ChunkDecode = 0
           /\ \A l \in 1 .. ChunkDecode - 1 : (n + l) % ChunkDecode # 0
  <1>1. PICK c \in Nat \ {0} : c = ChunkDecode /\ c % 4 = 0
    BY UtilAssumption
  <1>2. PICK k \in Nat : n = k * c
    <2>1. n = c * (n \div c) + (n % c) /\ n \div c \in Nat
      OBVIOUS
    <2>2. n = (n \div c) * c
      BY <1>1, <2>1
    <2> QED
      BY <2>1, <2>2
  <1>3. n % 4 = 0
    <2>1. PICK q \in Nat : c = 4 * q
      <3>1. c = 4 * (c \div 4) /\ c \div 4 \in Nat
        BY <1>1
      <3> QED
        BY <3>1
    <2>2. n = 4 * (k * q) /\ k * q \in Nat
      BY <1>2, <2>1
    <2>3. \A i \in Nat : (4 * i) % 4 = 0
      OBVIOUS
    <2> QED
      BY <2>2, <2>3
  <1>4. \A j \in Nat, l \in 0 .. c - 1 : (j * c + l) % c = l
    OBVIOUS
  <1>5. (n + c) % c = 0
    <2>1. n + c = (k + 1) * c + 0 /\ k + 1 \in Nat /\ 0 \in 0 .. c - 1
      BY <1>2
    <2> QED
      BY <1>4, <2>1
  <1>6. \A l \in 1 .. c - 1 : (n + l) % c # 0
    <2> SUFFICES ASSUME NEW l \in 1 .. c - 1 PROVE (n + l) % c # 0
      OBVIOUS
    <2>1. n + l = k * c + l /\ l \in 0 .. c - 1
      BY <1>2
    <2>2. (n + l) % c = l
      BY <1>4, <2>1
    <2> QED
      BY <2>2
  <1> QED
    BY <1>1, <1>3, <1>5, <1>6

\* What was read is a number of whole chunks, their octets were written, and what is left over
\* is a newline that is alone.
Decoded(t, e) ==
    /\ ret = "none" => \E d \in Seq(Nat) : /\ input = d \o (chunk \o rest)
                                           /\ Len(d) % ChunkDecode = 0
                                           /\ out = Octets(d)
    /\ ret = "OK" => out = Octets(t) /\ (e = <<>> \/ given \/ Len(t) % ChunkDecode # 0)
    /\ ret = "INVALID" =>
          out = Octets(t) /\ e = <<Newline>> /\ ~given /\ Len(t) % ChunkDecode = 0

Decode64Inv ==
    cmd = "base64-decode" =>
        /\ given => pc \notin {"read", "convert"}
        /\ \A t \in Texts, e \in Ends : input = t \o e => Decoded(t, e)

LEMMA Decode64Init == Init => Decode64Inv
  <1> SUFFICES ASSUME Init, cmd = "base64-decode" PROVE Decode64Inv
    BY DEF Decode64Inv
  <1>1. /\ ret = "none" /\ chunk = <<>> /\ out = <<>> /\ rest = input
        /\ given => pc \notin {"read", "convert"}
    BY DEF Init
  <1>2. input \in Seq(Nat) /\ <<>> \in Seq(Nat)
    BY TypedInit, NumbersOnly, EmptySeq DEF Whichs
  <1>3. <<>> \o input = input
    BY <1>2, ConcatEmptySeq
  <1>4. input = <<>> \o (chunk \o rest)
    BY <1>1, <1>3, Zenon
  <1>5. Len(<<>>) % ChunkDecode = 0 /\ Octets(<<>>) = <<>>
    <2>1. Len(<<>>) = 0
      BY EmptySeq
    <2>2. 0 % ChunkDecode = 0
      BY UtilAssumption
    <2> QED
      BY <2>1, <2>2, OctetsOfNothing
  <1> QED
    BY <1>1, <1>2, <1>4, <1>5 DEF Decode64Inv, Decoded

\* What comes of chunk c of text t with e at the end, after d and before r.
Gives(t, e, d, c, r) ==
    \/ c = <<>> /\ r = <<>> /\ e = <<>> /\ t = d
    \/ /\ c # <<>> /\ Base64Decode(c) = {Octets(c)}
       /\ Octets(d \o c) = Octets(d) \o Octets(c)
       /\ r = <<>> => e = <<>> /\ t = d \o c
    \/ /\ c # <<>> /\ r = <<>> /\ e = <<Newline>> /\ Len(c) # ChunkDecode
       /\ \/ /\ Base64Decode(c) = {}
             /\ t = d
          \/ /\ Len(t) % ChunkDecode # 0
             /\ \E y \in Seq(Nat) : /\ Base64Decode(c) = {Octets(y)}
                                    /\ Octets(t) = Octets(d) \o Octets(y)

LEMMA ChunkOfText ==
    ASSUME NEW t \in Texts, NEW e \in Ends, NEW d \in Seq(Nat), NEW c \in Seq(Nat),
           NEW r \in Seq(Nat), t \o e = d \o (c \o r),
           Len(d) % ChunkDecode = 0, Len(c) <= ChunkDecode,
           r = <<>> \/ Len(c) = ChunkDecode
    PROVE  Gives(t, e, d, c, r)
  <1>0. t \in Seq(0 .. Pad) /\ t \in Seq(Nat) /\ e \in Seq(Nat) /\ Len(t) % 4 = 0
    BY TextsAreNumbers DEF Texts
  <1>1. PICK i \in Nat, j \in Nat, k \in Nat, l \in Nat, m \in Nat :
            i = Len(t) /\ j = Len(e) /\ k = Len(d) /\ l = Len(c) /\ m = Len(r)
    BY <1>0, LenProperties
  <1>2. i + j = k + (l + m)
    <2>1. Len(t \o e) = i + j
      BY <1>0, <1>1, ConcatElements
    <2>2. c \o r \in Seq(Nat) /\ Len(c \o r) = l + m
      BY <1>1, ConcatElements
    <2>3. Len(d \o (c \o r)) = k + (l + m)
      BY <1>1, <2>2, ConcatElements
    <2> QED
      BY <2>1, <2>3
  <1>3. (e = <<>> /\ j = 0) \/ (e = <<Newline>> /\ j = 1)
    BY <1>1 DEF Ends
  <1>4. i % 4 = 0 /\ k % 4 = 0 /\ ChunkDecode \in Nat \ {0} /\ ChunkDecode % 4 = 0
    BY <1>0, <1>1, ChunksOfFour, UtilAssumption
  <1>5. ASSUME c = <<>>
        PROVE  r = <<>> /\ e = <<>> /\ t = d
    <2>1. l = 0 /\ r = <<>> /\ m = 0
      BY <1>1, <1>4, <1>5
    <2>2. i + j = k
      BY <1>2, <2>1
    <2>3. e = <<>>
      <3>1. (i + 1) % 4 # 0
        BY <1>4, Fours
      <3> QED
        BY <1>3, <1>4, <2>2, <3>1
    <2>4. <<>> \o <<>> = <<>> /\ d \o <<>> = d /\ t \o <<>> = t
      BY <1>0, EmptySeq, ConcatEmptySeq
    <2> QED
      BY <1>5, <2>1, <2>3, <2>4, Zenon
  <1>6. ASSUME c # <<>>
        PROVE  \E y \in Seq(0 .. Pad) : /\ t = d \o y /\ y \o e = c \o r
                                        /\ Len(y) % 4 = 0
                                        /\ Octets(t) = Octets(d) \o Octets(y)
    <2>1. l # 0
      BY <1>1, <1>6, EmptySeq
    <2>2. Len(d) <= Len(t)
      <3>1. j = 0 \/ j = 1
        BY <1>3
      <3>2. k <= i
        BY <1>2, <2>1, <3>1
      <3> QED
        BY <1>1, <3>2
    <2>3. PICK f \in Seq(Nat) : f = c \o r
      BY ConcatProperties
    <2>4. PICK y \in Seq(0 .. Pad) : t = d \o y /\ c \o r = y \o e
      <3>1. t \o e = d \o f
        BY <2>3
      <3>2. Continues(t, e, d, f)
        BY <1>0, <2>2, <3>1, Beginning
      <3> QED
        BY <2>3, <3>2 DEF Continues
    <2>5. y \in Seq(Nat)
      BY TextsAreNumbers
    <2>6. Len(y) % 4 = 0
      <3>1. PICK n \in Nat : n = Len(y)
        OBVIOUS
      <3>2. i = k + n
        BY <1>1, <2>4, <2>5, <3>1, ConcatElements
      <3>3. n % 4 = 0
        BY <1>4, <3>2, Fours
      <3> QED
        BY <3>1, <3>3
    <2>7. Octets(d \o y) = Octets(d) \o Octets(y)
      BY <1>1, <1>4, <2>5, <2>6, OctetsConcat
    <2> QED
      BY <2>4, <2>6, <2>7, Zenon
  <1>7. CASE c # <<>>
    <2>1. PICK y \in Seq(0 .. Pad) : /\ t = d \o y /\ y \o e = c \o r
                                     /\ Len(y) % 4 = 0
                                     /\ Octets(t) = Octets(d) \o Octets(y)
      BY <1>6, <1>7
    <2>2. y \in Seq(Nat)
      BY TextsAreNumbers
    <2>3. r = <<>> \/ Len(c) % 4 = 0
      BY <1>4
    <2>4. CASE /\ Len(c) % 4 = 0
               /\ Base64Decode(c) = {Octets(c)}
               /\ r = <<>> => e = <<>> /\ c = y
      <3>1. Octets(d \o c) = Octets(d) \o Octets(c)
        BY <1>1, <1>4, <2>4, OctetsConcat
      <3>2. r = <<>> => t = d \o c
        BY <2>1, <2>4
      <3> QED
        BY <1>7, <2>4, <3>1, <3>2 DEF Gives
    <2>5. CASE /\ r = <<>> /\ e = <<Newline>> /\ Len(c) = Len(y) + 1 /\ Len(c) % 4 # 0
               /\ Base64Decode(c) = IF y = <<>> THEN {} ELSE {Octets(y)}
      <3>1. Len(c) # ChunkDecode
        BY <1>4, <2>5
      <3>2. CASE y = <<>>
        <4>1. t = d
          BY <2>1, <3>2, ConcatEmptySeq
        <4> QED
          BY <1>7, <2>5, <3>1, <3>2, <4>1 DEF Gives
      <3>3. CASE y # <<>>
        <4>1. PICK n \in Nat : n = Len(y) /\ n # 0
          BY <2>2, <3>3, EmptySeq, LenProperties
        <4>2. n \in 1 .. ChunkDecode - 1
          BY <1>1, <1>4, <2>5, <3>1, <4>1
        <4>3. Len(t) = k + n
          BY <1>1, <2>1, <2>2, <4>1, ConcatElements
        <4>4. (k + n) % ChunkDecode # 0
          BY <1>1, <4>2, ChunksOfFour
        <4>5. Len(t) % ChunkDecode # 0
          BY <4>3, <4>4
        <4>6. Base64Decode(c) = {Octets(y)}
          BY <2>5, <3>3
        <4> QED
          BY <1>7, <2>1, <2>2, <2>5, <3>1, <4>5, <4>6 DEF Gives
      <3> QED
        BY <3>2, <3>3
    <2>6. y \o e = c \o r /\ Len(y) % 4 = 0
      BY <2>1
    <2>7. IsPiece(y, e, c, r)
      BY <1>7, <2>3, <2>6, PieceOfText
    <2> QED
      BY <2>4, <2>5, <2>7 DEF IsPiece
  <1> QED
    BY <1>5, <1>7 DEF Gives

LEMMA Decode64Step == Typed /\ ReadInv /\ Decode64Inv /\ [Next]_vars => Decode64Inv'
  <1> SUFFICES ASSUME Typed, ReadInv, Decode64Inv, [Next]_vars PROVE Decode64Inv'
    OBVIOUS
  <1>0. UNCHANGED <<cmd, given, input>> /\ CallsOK
    BY GivenStep DEF Typed
  <1>1. CASE cmd # "base64-decode"
    BY <1>0, <1>1 DEF Decode64Inv
  <1>2. CASE UNCHANGED <<chunk, rest, out, ret, pc>>
    BY <1>0, <1>2 DEF Decode64Inv, Decoded
  <1>3. CASE cmd = "base64-decode"
    <2>0. /\ input \in Seq(Nat) /\ rest \in Seq(Nat) /\ chunk \in Seq(Nat) /\ out \in Seq(Nat)
          /\ given \in BOOLEAN /\ eof \in BOOLEAN
          /\ ChunkOf(cmd) = ChunkDecode /\ Len(chunk) <= ChunkDecode /\ ChunkDecode \in Nat \ {0}
      <3>1. ChunkOf(cmd) = ChunkDecode /\ ChunkDecode \in Nat \ {0}
        BY <1>3, UtilAssumption DEF ChunkOf, Flates
      <3> QED
        BY <1>3, <3>1, NumbersOnly DEF Whichs, Typed, GivenOK, ChunkOK, OutOK
    <2>1. ASSUME given => pc' \notin {"read", "convert"},
                 ASSUME NEW t \in Texts, NEW e \in Ends, input = t \o e, Decoded(t, e)
                 PROVE  Decoded(t, e)'
          PROVE  Decode64Inv'
      BY <1>0, <1>3, <2>1 DEF Decode64Inv
    <2>2. CASE Read
      <3>1. ret = "none" /\ pc = "read" /\ chunk = <<>> /\ out' = out /\ ~given
        BY <1>0, <1>3, <2>0, <2>2 DEF Read, CallsOK, ReadInv, outVars, Decode64Inv
      <3>2. CASE Return("ERROR")
        BY <1>0, <2>1, <3>1, <3>2 DEF Return, Decoded
      <3>3. CASE rest = chunk' \o rest' /\ ret' = ret
        <4>1. chunk \o rest = chunk' \o rest'
          BY <2>0, <3>1, <3>3, ConcatEmptySeq
        <4> QED
          BY <1>0, <2>1, <3>1, <3>3, <4>1 DEF Decoded
      <3> QED
        BY <2>2, <3>2, <3>3, ReadCuts DEF GoOn
    <2>3. CASE Convert
      <3>1. /\ ret = "none" /\ pc = "convert" /\ ~given /\ UNCHANGED <<rest, eof>>
            /\ chunk' = <<>>
            /\ rest = <<>> \/ Len(chunk) = ChunkDecode
            /\ eof => rest = <<>>
            /\ ~eof => Len(chunk) = ChunkDecode
        BY <1>0, <1>3, <2>0, <2>3 DEF Convert, CallsOK, ReadInv, Flates, Decode64Inv
      <3>2. Converted(chunk) = Base64Decode(chunk)
        BY <1>3 DEF Converted
      <3>3. \/ chunk = <<>> /\ Loop(TRUE) /\ out' = out
            \/ /\ chunk # <<>>
               /\ \E s \in Base64Decode(chunk), good \in BOOLEAN :
                      out' = out \o s /\ Loop(good)
            \/ chunk # <<>> /\ Base64Decode(chunk) = {} /\ Return("INVALID") /\ out' = out
        BY <2>3, <3>2 DEF Convert, Write, outVars
      <3>4. ASSUME NEW t \in Texts, NEW e \in Ends, input = t \o e, Decoded(t, e)
            PROVE  Decoded(t, e)'
        <4>1. PICK d \in Seq(Nat) : /\ input = d \o (chunk \o rest)
                                    /\ Len(d) % ChunkDecode = 0
                                    /\ out = Octets(d)
          BY <3>1, <3>4 DEF Decoded
        <4>2. Gives(t, e, d, chunk, rest)
          <5>1. t \o e = d \o (chunk \o rest)
            BY <3>4, <4>1
          <5> QED
            BY <2>0, <3>1, <4>1, <5>1, ChunkOfText
        <4>3. CASE ret' = "ERROR"
          BY <4>3 DEF Decoded
        <4>4. CASE chunk = <<>> /\ out' = out /\ Loop(TRUE)
          <5>1. e = <<>> /\ t = d
            BY <4>2, <4>4 DEF Gives
          <5>2. eof
            <6>1. Len(<<>>) = 0
              BY EmptySeq
            <6> QED
              BY <2>0, <3>1, <4>4, <6>1
          <5>3. ret' = "OK"
            BY <4>4, <5>2 DEF Loop, Return
          <5> QED
            BY <4>1, <4>4, <5>1, <5>3 DEF Decoded
        <4>5. ASSUME NEW s \in Base64Decode(chunk), NEW good \in BOOLEAN,
                     chunk # <<>>, out' = out \o s, Loop(good)
              PROVE  Decoded(t, e)'
          <5>1. CASE /\ s = Octets(chunk)
                     /\ Octets(d \o chunk) = Octets(d) \o Octets(chunk)
                     /\ rest = <<>> => e = <<>> /\ t = d \o chunk
            <6>1. out' = Octets(d \o chunk)
              BY <4>1, <4>5, <5>1, Zenon
            <6>2. CASE ~good
              BY <4>3, <4>5, <6>2 DEF Loop, Return
            <6>3. CASE good /\ eof
              <7>1. ret' = "OK"
                BY <4>5, <6>3 DEF Loop, Return
              <7> QED
                BY <3>1, <5>1, <6>1, <6>3, <7>1 DEF Decoded
            <6>4. CASE good /\ ~eof
              <7>1. ret' = "none" /\ Len(chunk) = ChunkDecode
                BY <3>1, <4>5, <6>4 DEF Loop, GoOn
              <7>2. PICK b \in Seq(Nat) : b = d \o chunk /\ Len(b) = Len(d) + Len(chunk)
                BY <2>0, ConcatElements
              <7>3. Len(b) % ChunkDecode = 0
                <8>1. PICK n \in Nat : n = Len(d)
                  OBVIOUS
                <8>2. (n + ChunkDecode) % ChunkDecode = 0
                  BY <4>1, <8>1, ChunksOfFour
                <8> QED
                  BY <7>1, <7>2, <8>1, <8>2
              <7>4. input' = b \o (chunk' \o rest')
                <8>1. d \o (chunk \o rest) = b \o rest
                  BY <2>0, <7>2, Associative, ZenonT(60)
                <8>2. <<>> \o rest = rest
                  BY <2>0, ConcatEmptySeq
                <8> QED
                  BY <1>0, <3>1, <4>1, <8>1, <8>2, Zenon
              <7>5. out' = Octets(b)
                BY <6>1, <7>2
              <7> QED
                BY <7>1, <7>3, <7>4, <7>5 DEF Decoded
            <6> QED
              BY <2>0, <6>2, <6>3, <6>4
          <5>2. CASE /\ rest = <<>> /\ Len(chunk) # ChunkDecode /\ Len(t) % ChunkDecode # 0
                     /\ \E y \in Seq(Nat) : s = Octets(y) /\ Octets(t) = Octets(d) \o Octets(y)
            <6>1. out' = Octets(t)
              BY <4>1, <4>5, <5>2
            <6>2. eof
              BY <3>1, <5>2
            <6>3. ret' \in {"OK", "ERROR"}
              BY <4>5, <6>2 DEF Loop, Return
            <6> QED
              BY <1>0, <5>2, <6>1, <6>3 DEF Decoded
          <5> QED
            BY <4>2, <4>5, <5>1, <5>2 DEF Gives
        <4>6. CASE chunk # <<>> /\ Base64Decode(chunk) = {} /\ Return("INVALID") /\ out' = out
          <5>1. e = <<Newline>> /\ t = d
            BY <4>2, <4>6 DEF Gives
          <5> QED
            BY <1>0, <3>1, <4>1, <4>6, <5>1 DEF Decoded, Return
        <4> QED
          BY <3>3, <4>4, <4>5, <4>6
      <3>5. given => pc' \notin {"read", "convert"}
        BY <3>1
      <3> QED
        BY <2>1, <3>4, <3>5
    <2>4. CASE Argument
      <3>1. /\ ret = "none" /\ out = <<>> /\ pc' = "exit"
        BY <1>0, <2>4 DEF Argument, CallsOK, ReadInv, Return, End
      <3>2. Converted(input) = Base64Decode(input)
        BY <1>3 DEF Converted
      <3>3. \/ ret' = "NULL"
            \/ given /\ \E s \in Base64Decode(input), good \in BOOLEAN : out' = out \o s /\ End(good)
            \/ input # <<>> /\ Base64Decode(input) = {}
        BY <2>4, <3>2 DEF Argument, Write, Return
      <3>4. ASSUME NEW t \in Texts, NEW e \in Ends, input = t \o e
            PROVE  Decoded(t, e)'
        <4>1. Base64Decode(input) = {Octets(t)} /\ Octets(t) \in Seq(Nat)
          <5>1. t \in Seq(0 .. Pad) /\ t \in Seq(Nat) /\ t # <<>> /\ Len(t) % 4 = 0
            BY TextsAreNumbers DEF Texts
          <5>2. CASE e = <<>>
            <6>1. input = t
              BY <3>4, <5>1, <5>2, ConcatEmptySeq
            <6> QED
              BY <5>1, <6>1, TextDecodes, OctetsFacts
          <5>3. CASE e = <<Newline>>
            BY <3>4, <5>1, <5>3, NewlineIsTrimmed, OctetsFacts
          <5> QED
            BY <5>2, <5>3 DEF Ends
        <4>2. CASE ret' = "NULL"
          BY <4>2 DEF Decoded
        <4>3. ASSUME NEW s \in Base64Decode(input), NEW good \in BOOLEAN,
                     given, out' = out \o s, End(good)
              PROVE  Decoded(t, e)'
          <5>1. s = Octets(t)
            BY <4>1
          <5>2. out' = Octets(t)
            BY <3>1, <4>1, <4>3, <5>1, ConcatEmptySeq
          <5>3. ret' \in {"OK", "ERROR"}
            BY <4>3 DEF End, Return
          <5> QED
            BY <1>0, <4>3, <5>2, <5>3 DEF Decoded
        <4> QED
          BY <3>3, <4>1, <4>2, <4>3
      <3> QED
        BY <2>1, <3>1, <3>4
    <2>5. CASE Exit
      <3>1. ret' = ret /\ ret # "none" /\ out' = out /\ pc' = "done"
        BY <1>0, <2>5 DEF Exit, CallsOK
      <3> QED
        BY <1>0, <2>1, <3>1 DEF Decoded
    <2>6. ~(Digest \/ Deflate \/ InflateNothing \/ InflateByte \/ InflateUnit
            \/ InflateReturns \/ NoPath \/ SearchItem \/ PrintList)
      BY <1>0, <1>3
         DEF Digest, Deflate, InflateNothing, InflateByte, InflateUnit,
             InflateReturns, NoPath, SearchItem, PrintList, CallsOK, Whichs
    <2> QED
      BY <1>2, <2>2, <2>3, <2>4, <2>5, <2>6 DEF Next, Step, Done, vars, ioVars, outVars
  <1> QED
    BY <1>1, <1>3

\* What base64-encode makes of something.
LEMMA EncodedText ==
    ASSUME NEW s \in Inputs["base64-encode"] \ {<<>>}
    PROVE  LET t == Base64Encode(s)
               z == 3 * (Len(t) \div 4) - Len(s)
           IN /\ t \in Texts /\ t \in Seq(Nat)
              /\ Octets(t) = s \o Zeros(z)
              /\ z \in Nat /\ Len(s) \in Nat /\ Len(Octets(t)) - Len(s) = z
  <1> DEFINE t == Base64Encode(s)
  <1>1. s \in Seq(Bytes) /\ s \in Seq(Nat)
    <2>1. "base64-encode" \in Cmds /\ Symbols("base64-encode") = Bytes /\ Bytes \subseteq Nat
      BY DEF Cmds, Texts64, Symbols, Bytes, Whichs
    <2> QED
      BY <2>1, InputFacts, SeqMonotonic
  <1>2. PICK l \in Nat, n \in Nat : l = Len(s) /\ l # 0 /\ n = (Len(s) + 2) \div 3 /\ n # 0
    <2>1. PICK l \in Nat : l = Len(s) /\ l # 0
      BY <1>1, EmptySeq, LenProperties
    <2>2. (l + 2) \div 3 \in Nat /\ (l + 2) \div 3 # 0
      BY <2>1
    <2> QED
      BY <2>1, <2>2
  <1>3. t \in Seq(0 .. Pad) /\ t \in Seq(Nat) /\ Len(t) = 4 * n
    BY <1>1, <1>2, Base64EncodeFacts
  <1>4. 3 * n - l \in Nat /\ Octets(t) = s \o Zeros(3 * n - l)
    BY <1>1, <1>2, Base64Inverse
  <1> HIDE DEF t
  <1>5. Len(t) % 4 = 0 /\ Len(t) # 0 /\ Len(t) \div 4 = n
    <2>1. (4 * n) % 4 = 0 /\ 4 * n # 0 /\ (4 * n) \div 4 = n
      BY <1>2
    <2> QED
      BY <1>3, <2>1
  <1>6. t \in Texts
    <2>1. t # <<>>
      BY <1>5, EmptySeq, Zenon
    <2> QED
      BY <1>3, <1>5, <2>1 DEF Texts
  <1>7. Len(Octets(t)) = 3 * n
    BY <1>3, <1>5, OctetsFacts
  <1>8. Len(Octets(t)) - Len(s) = 3 * n - l
    BY <1>2, <1>7
  <1> QED
    BY <1>2, <1>3, <1>4, <1>5, <1>6, <1>8 DEF t

\* base64-decode undoes base64-encode, in one piece or in chunks, but for a zero byte for each
\* byte that is missing in the last three (util.c:197-261).
THEOREM Base64IsUndone == Spec => []Base64Inverts
  <1>1. Spec => []Typed
    BY TypedInit, TypedStep, PTL DEF Spec
  <1>2. Spec => []ReadInv
    BY <1>1, ReadInit, ReadStep, PTL DEF Spec
  <1>3. Spec => []Decode64Inv
    BY <1>1, <1>2, Decode64Init, Decode64Step, PTL DEF Spec
  <1>4. Decode64Inv => Base64Inverts
    <2> SUFFICES ASSUME Decode64Inv,
                        NEW s \in Inputs["base64-encode"] \ {<<>>},
                        pc = "done", cmd = "base64-decode", input = Base64Encode(s)
                 PROVE  /\ ret # "INVALID"
                        /\ ret = "OK" => out = s \o Zeros(3 * (Len(input) \div 4) - Len(s))
      BY DEF Base64Inverts
    <2>1. /\ input \in Texts /\ input \in Seq(Nat)
          /\ Octets(input) = s \o Zeros(3 * (Len(input) \div 4) - Len(s))
      BY EncodedText
    <2>2. input = input \o <<>>
      BY <2>1, ConcatEmptySeq
    <2>3. Decoded(input, <<>>)
      BY <2>1, <2>2 DEF Decode64Inv, Ends
    <2>4. <<>> # <<Newline>>
      OBVIOUS
    <2> QED
      BY <2>1, <2>3, <2>4 DEF Decoded
  <1> QED
    BY <1>3, <1>4, PTL

\* A newline after the text is harmless unless the text was read in whole chunks: then it is
\* refused, after all of the text was written (util.c:204-230).
THEOREM NewlineIsRefusedAlone == Spec => []NewlineIsRefusedAfterAFullChunk
  <1>1. Spec => []Typed
    BY TypedInit, TypedStep, PTL DEF Spec
  <1>2. Spec => []ReadInv
    BY <1>1, ReadInit, ReadStep, PTL DEF Spec
  <1>3. Spec => []Decode64Inv
    BY <1>1, <1>2, Decode64Init, Decode64Step, PTL DEF Spec
  <1>4. Decode64Inv => NewlineIsRefusedAfterAFullChunk
    <2> SUFFICES ASSUME Decode64Inv,
                        NEW s \in Inputs["base64-encode"] \ {<<>>},
                        NEW t, t = Base64Encode(s),
                        pc = "done", cmd = "base64-decode", input = Append(t, Newline)
                 PROVE  IF given \/ Len(t) % ChunkDecode # 0 THEN ret # "INVALID"
                        ELSE ret # "OK" /\ (ret = "INVALID" => out = s \o Zeros(Len(out) - Len(s)))
      BY DEF NewlineIsRefusedAfterAFullChunk
    <2>1. PICK z \in Nat : /\ t \in Texts /\ t \in Seq(Nat)
                           /\ Octets(t) = s \o Zeros(z)
                           /\ Len(Octets(t)) - Len(s) = z
      BY EncodedText
    <2>2. input = t \o <<Newline>>
      BY <2>1, AppendIsConcat DEF Newline
    <2>3. Decoded(t, <<Newline>>)
      BY <2>1, <2>2 DEF Decode64Inv, Ends
    <2>4. <<Newline>> # <<>>
      OBVIOUS
    <2> QED
      BY <2>1, <2>3, <2>4 DEF Decoded
  <1> QED
    BY <1>3, <1>4, PTL
=============================================================================
