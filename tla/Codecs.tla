------------------------------- MODULE Codecs -------------------------------
(***************************************************************************)
(* What the commands of nvm2 util compute, on sequences of numbers.  Bytes *)
(* are 0 .. 255.  A hexadecimal digit is its value, and 16 stands for any  *)
(* other character.  A character of a base64 text is its value, 64 for =,  *)
(* 65 for a blank, 66 for a newline and 67 for what has no place there.    *)
(* An operator that may refuse its argument returns the set of its results.*)
(***************************************************************************)
EXTENDS Integers, SequencesExt

NoDigit == 16
Pad == 64
Blank == 65
Newline == 66

Bytes == 0 .. 255
-----------------------------------------------------------------------------
\* base16_encode.
Base16Encode(s) ==
    [i \in 1 .. 2 * Len(s) |->
        LET b == s[(i + 1) \div 2] IN IF i % 2 = 1 THEN b \div 16 ELSE b % 16]

\* hex2dec takes what is no digit for a zero.
Hex(c) == IF c = NoDigit THEN 0 ELSE c

\* A slip the properties catch: the low digit comes first.
Base16DecodeSwapped(t, signed) ==
    IF \/ Len(t) % 2 = 1
       \/ signed /\ \E i \in DOMAIN t : i % 2 = 1 /\ 16 * Hex(t[i]) > 127
    THEN {}
    ELSE {[i \in 1 .. Len(t) \div 2 |-> 16 * Hex(t[2 * i]) + Hex(t[2 * i - 1])]}

\* base16_decode: the high digit, shifted, is kept in a char, and refused when that is
\* negative, as it is from 8 on where char is signed.
Base16Decode(t, signed) ==
    IF \/ Len(t) % 2 = 1
       \/ signed /\ \E i \in DOMAIN t : i % 2 = 1 /\ 16 * Hex(t[i]) > 127
    THEN {}
    ELSE {[i \in 1 .. Len(t) \div 2 |-> 16 * Hex(t[2 * i - 1]) + Hex(t[2 * i])]}

\* Three bytes from a place on, as one number; beyond the end there are zeros.
ByteAt(s, i) == IF i <= Len(s) THEN s[i] ELSE 0
Triple(s, g) == ByteAt(s, g + 1) * 65536 + ByteAt(s, g + 2) * 256 + ByteAt(s, g + 3)

\* One of the four characters they make: = when no byte has bits in it.
Sextet(s, g, k) ==
    IF k > Len(s) - g THEN Pad ELSE (Triple(s, g) \div <<262144, 4096, 64, 1>>[k + 1]) % 64

\* EVP_EncodeBlock.
Base64Encode(s) ==
    [i \in 1 .. 4 * ((Len(s) + 2) \div 3) |-> Sextet(s, 3 * ((i - 1) \div 4), (i - 1) % 4)]

Zeros(n) == [i \in 1 .. n |-> 0]

\* Four characters from a place on, as one number, in which = is a zero, and one of the
\* three bytes they make.
Quad(t, g) ==
    (t[g + 1] % 64) * 262144 + (t[g + 2] % 64) * 4096 + (t[g + 3] % 64) * 64 + (t[g + 4] % 64)
Octet(t, g, k) == (Quad(t, g) \div <<65536, 256, 1>>[k + 1]) % 256

\* EVP_DecodeBlock takes blanks off the beginning, blanks and newlines off the end as long
\* as more than three characters are left,
Trimmed(t) ==
    LET u == SubSeq(t, 1 + Max({m \in 0 .. Len(t) : \A i \in 1 .. m : t[i] = Blank}), Len(t))
        few == IF Len(u) < 3 THEN Len(u) ELSE 3
    IN SubSeq(u, 1, Max({few} \cup {i \in DOMAIN u : u[i] \notin {Blank, Newline}}))

\* refuses what is not made of fours, and makes a zero byte of each =.
Octets(t) == [i \in 1 .. 3 * (Len(t) \div 4) |-> Octet(t, 4 * ((i - 1) \div 3), (i - 1) % 3)]

Base64Decode(t) ==
    LET v == Trimmed(t) IN
    IF Len(v) % 4 # 0 \/ \E i \in DOMAIN v : v[i] > Pad THEN {} ELSE {Octets(v)}

-----------------------------------------------------------------------------
(* A zlib stream: a header, units that stand for a byte so many times, and *)
(* a sum.                                                                  *)

Header == 10000
Unit(byte, times) == 256 * times + byte
IsUnit(u) == u >= 256 /\ u < Header
Times(u) == u \div 256
ByteOf(u) == u % 256

\* Adler-32 tells the contents of the streams at hand from one another.
Sum(s) ==
    LET h[i \in 0 .. Len(s)] == IF i = 0 THEN 1 ELSE (3 * h[i - 1] + s[i]) % 4001
    IN Header + 1 + h[Len(s)]

\* deflate may emit a byte as a unit of its own, whatever the level.
Deflated(s) == <<Header>> \o [i \in DOMAIN s |-> Unit(s[i], 1)] \o <<Sum(s)>>

\* What a unit stands for.
Expanded(u) == [j \in 1 .. Times(u) |-> ByteOf(u)]

Content(units) ==
    LET c[i \in 0 .. Len(units)] == IF i = 0 THEN <<>> ELSE c[i - 1] \o Expanded(units[i])
    IN c[Len(units)]

\* What is in a stream, if the text begins with one.
Inflated(t) ==
    {Content(SubSeq(t, 2, m - 1)) : m \in {n \in 2 .. Len(t) :
        /\ t[1] = Header
        /\ \A i \in 2 .. n - 1 : IsUnit(t[i])
        /\ t[n] = Sum(Content(SubSeq(t, 2, n - 1)))}}
=============================================================================
