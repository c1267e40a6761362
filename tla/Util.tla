-------------------------------- MODULE Util --------------------------------
(***************************************************************************)
(* One run of "nvm2 util": what it is given is read in chunks, each is     *)
(* converted by itself, and what comes of it goes to stdout, which holds   *)
(* some of it back.  The sizes of the chunks stand for 1024, 1023, 1024    *)
(* and 16384 bytes.                                                        *)
(***************************************************************************)
EXTENDS Codecs

CONSTANTS
    ChunkPlain,     \* of base16-encode and sha256sum
    ChunkEncode,    \* of base64-encode
    ChunkDecode,    \* of base64-decode
    ChunkZlib,      \* of zlib-deflate and zlib-inflate, read and written
    OutBuf,         \* what stdout may hold back
    Inputs,         \* for each command, what it may be given
    Faults          \* what may go wrong: "read", "disk"

VARIABLES
    cmd,
    signed,     \* char is signed in this build
    given,      \* the input is the command's argument, or for which: PATH is set
    input,      \* all of it
    rest,       \* what has not been read yet
    eof,
    chunk,      \* what has been read and not been converted yet
    pc,         \* the next call
    out,        \* what has been given to stdout
    written,    \* how much of that has left the process
    ret,        \* what the command returns
    held,       \* what was digested, deflated or inflated so far; the list of which
    count,      \* how much deflate has emitted; what is left of the unit inflate is at;
                \* how many entries the list of which has room for
    room,       \* what inflate has put into the output chunk
    mode        \* what inflate expects: "header", "units", or nothing after the "sum"

ioVars == <<rest, eof, chunk>>
outVars == <<out, written>>
workVars == <<held, count, room, mode>>
vars == <<cmd, signed, given, input, ioVars, pc, outVars, ret, workVars>>

Texts16 == {"base16-encode", "base16-decode"}
Texts64 == {"base64-encode", "base64-decode"}
Flates == {"zlib-deflate", "zlib-inflate"}
Whichs == {"which", "which -a"}
Cmds == Texts16 \cup Texts64 \cup Flates \cup Whichs \cup {"sha256sum"}

\* An item of PATH, which strtok skips when it is empty.
Items == {"", "no directory", "without", "with"}

\* What the inputs of a command consist of.
Symbols(c) ==
    CASE c = "base16-decode" -> 0 .. NoDigit
      [] c = "base64-decode" -> 0 .. 67
      [] c = "zlib-inflate"  -> Nat
      [] c \in Whichs        -> Items
      [] OTHER               -> Bytes

\* stdout can hold a digest back.
ASSUME UtilAssumption ==
    /\ {ChunkPlain, ChunkEncode, ChunkDecode, ChunkZlib} \subseteq Nat \ {0}
    /\ ChunkEncode % 3 = 0 /\ ChunkDecode % 4 = 0
    /\ OutBuf \in Nat \ {0}
    /\ DOMAIN Inputs = Cmds /\ \A c \in Cmds : Inputs[c] \subseteq Seq(Symbols(c))
    /\ Faults \subseteq {"read", "disk"}

\* A slip the properties catch: base64-encode reads as much as the others.
ChunkOfAll(c) == IF c \in Flates THEN ChunkZlib ELSE ChunkDecode

\* A slip the properties catch: base64-decode reads as much as base64-encode.
ChunkOfBoth(c) ==
    CASE c \in Texts64 -> ChunkEncode
      [] c \in Flates  -> ChunkZlib
      [] OTHER         -> ChunkPlain

ChunkOf(c) ==
    CASE c = "base64-encode" -> ChunkEncode
      [] c = "base64-decode" -> ChunkDecode
      [] c \in Flates        -> ChunkZlib
      [] OTHER               -> ChunkPlain

\* base16-decode takes only an argument; which takes PATH.
Init ==
    /\ cmd \in Cmds
    /\ signed \in IF cmd = "base16-decode" THEN BOOLEAN ELSE {FALSE}
    /\ given \in IF cmd \in Flates \cup {"sha256sum"} THEN {FALSE} ELSE BOOLEAN
    /\ input \in Inputs[cmd]
    /\ rest = input /\ eof = FALSE /\ chunk = <<>>
    /\ pc = IF cmd \in Whichs THEN "path"
            ELSE IF given \/ cmd = "base16-decode" THEN "argument"
            ELSE "read"
    /\ out = <<>> /\ written = 0
    /\ ret = "none"
    /\ held = <<>> /\ count = 0 /\ room = <<>> /\ mode = "header"
-----------------------------------------------------------------------------
\* The command returns.
Return(r) == pc' = "exit" /\ ret' = r

GoOn(call) == pc' = call /\ UNCHANGED ret

\* fwrite, or printf: what stdout cannot hold back has to be written, and that may fail.
Write(s, good) ==
    /\ out' = out \o s
    /\ IF Len(out') - written <= OutBuf THEN good /\ UNCHANGED written
       ELSE IF good THEN written' \in (Len(out') - OutBuf) .. Len(out')
       ELSE "disk" \in Faults /\ UNCHANGED written

\* After which the loop goes on, or the command ends.
Loop(good) == IF ~good THEN Return("ERROR") ELSE IF eof THEN Return("OK") ELSE GoOn("read")

\* A slip the properties catch: nobody looks at what fwrite returns.
EndAnyway(good) == Return("OK")

End(good) == Return(IF good THEN "OK" ELSE "ERROR")

\* A slip the properties catch: a chunk of nothing is not taken for the end.
ReadOnAndOn ==
    /\ pc = "read"
    /\ LET n == Min({ChunkOf(cmd), Len(rest)}) IN
       /\ chunk' = SubSeq(rest, 1, n)
       /\ rest' = SubSeq(rest, n + 1, Len(rest))
       /\ eof' = (n \in 1 .. ChunkOf(cmd) - 1)
       /\ GoOn(IF cmd = "zlib-inflate" /\ n > 0 THEN "inflate" ELSE "convert")
    /\ UNCHANGED <<cmd, signed, given, input, outVars, workVars>>

\* fread and ferror.  The end is seen only by a read that wants more than there is.
Read ==
    /\ pc = "read"
    /\ LET n == Min({ChunkOf(cmd), Len(rest)}) IN
       \/ /\ chunk' = SubSeq(rest, 1, n)
          /\ rest' = SubSeq(rest, n + 1, Len(rest))
          /\ eof' = (n < ChunkOf(cmd))
          /\ GoOn(IF cmd = "zlib-inflate" /\ n > 0 THEN "inflate" ELSE "convert")
       \/ /\ "read" \in Faults
          /\ Return("ERROR")
          /\ UNCHANGED <<rest, eof, chunk>>
    /\ UNCHANGED <<cmd, signed, given, input, outVars, workVars>>

\* What the codecs make of one piece of text.
Converted(s) ==
    CASE cmd = "base16-encode" -> {Base16Encode(s)}
      [] cmd = "base16-decode" -> Base16Decode(s, signed)
      [] cmd = "base64-encode" -> {Base64Encode(s)}
      [] cmd = "base64-decode" -> Base64Decode(s)

\* A slip the properties catch: what cannot be decoded is left out.
ConvertLenient ==
    /\ pc = "convert" /\ cmd \in Texts16 \cup Texts64
    /\ IF chunk = <<>> \/ Converted(chunk) = {} THEN Loop(TRUE) /\ UNCHANGED outVars
       ELSE \E s \in Converted(chunk), good \in BOOLEAN : Write(s, good) /\ Loop(good)
    /\ chunk' = <<>>
    /\ UNCHANGED <<cmd, signed, given, input, rest, eof, workVars>>

Convert ==
    /\ pc = "convert" /\ cmd \in Texts16 \cup Texts64
    /\ \/ chunk = <<>> /\ Loop(TRUE) /\ UNCHANGED outVars
       \/ /\ chunk # <<>>
          /\ \E s \in Converted(chunk), good \in BOOLEAN : Write(s, good) /\ Loop(good)
       \/ chunk # <<>> /\ Converted(chunk) = {} /\ Return("INVALID") /\ UNCHANGED outVars
    /\ chunk' = <<>>
    /\ UNCHANGED <<cmd, signed, given, input, rest, eof, workVars>>

\* An argument is converted in one piece.
Argument ==
    /\ pc = "argument"
    /\ \/ (~given \/ input = <<>>) /\ Return("NULL") /\ UNCHANGED outVars
       \/ /\ given /\ input # <<>>
          /\ \E s \in Converted(input), good \in BOOLEAN : Write(s, good) /\ End(good)
       \/ /\ given /\ input # <<>> /\ Converted(input) = {}
          /\ Return("INVALID") /\ UNCHANGED outVars
    /\ rest' = <<>>
    /\ UNCHANGED <<cmd, signed, given, input, eof, chunk, workVars>>

\* SHA256_Update; at the end a digest, for which the sum stands here.  Nobody looks at
\* what printf returns.
Digest ==
    /\ pc = "convert" /\ cmd = "sha256sum"
    /\ held' = held \o chunk
    /\ IF eof THEN Return("OK") /\ \E good \in BOOLEAN : Write(<<Sum(held')>>, good)
              ELSE GoOn("read") /\ UNCHANGED outVars
    /\ chunk' = <<>>
    /\ UNCHANGED <<cmd, signed, given, input, rest, eof, count, room, mode>>
-----------------------------------------------------------------------------
\* One call of deflate with a whole chunk to fill: it takes all its input unless the
\* chunk gets full, and emits what it likes of it, at the end everything.  A full chunk
\* means that there may be more.
Deflate ==
    /\ pc = "convert" /\ cmd = "zlib-deflate"
    /\ \E taken \in 0 .. Len(chunk), emitted \in 0 .. ChunkZlib, good \in BOOLEAN :
        LET all == taken = Len(chunk)
            stream == Deflated(held \o SubSeq(chunk, 1, taken))
            ready == Len(stream) - (IF eof /\ all THEN 0 ELSE 1)
        IN /\ count + emitted <= ready
           /\ emitted < ChunkZlib => all /\ (eof => count + emitted = ready)
           /\ held' = held \o SubSeq(chunk, 1, taken)
           /\ chunk' = SubSeq(chunk, taken + 1, Len(chunk))
           /\ count' = count + emitted
           /\ Write(SubSeq(stream, count + 1, count + emitted), good)
           /\ IF good /\ emitted = ChunkZlib THEN GoOn("convert") ELSE Loop(good)
    /\ UNCHANGED <<cmd, signed, given, input, rest, eof, room, mode>>

\* There is no more to read, and the stream has not ended.
InflateNothing ==
    /\ pc = "convert" /\ cmd = "zlib-inflate"
    /\ Return("DATA")
    /\ UNCHANGED <<cmd, signed, given, input, ioVars, outVars, workVars>>

\* One call of inflate: bytes of the unit it is at, while there is room for them,
InflateByte ==
    /\ pc = "inflate" /\ count > 0 /\ Len(room) < ChunkZlib
    /\ room' = Append(room, ByteOf(count))
    /\ held' = Append(held, ByteOf(count))
    /\ count' = IF Times(count) = 1 THEN 0 ELSE count - Unit(0, 1)
    /\ UNCHANGED <<cmd, signed, given, input, ioVars, pc, outVars, ret, mode>>

\* the next unit, or the sum, room or not,
InflateUnit ==
    /\ pc = "inflate" /\ count = 0 /\ chunk # <<>> /\ mode # "sum"
    /\ LET u == Head(chunk) IN
       \/ mode = "header" /\ u = Header /\ mode' = "units" /\ UNCHANGED <<count, pc, ret>>
       \/ mode = "units" /\ IsUnit(u) /\ count' = u /\ UNCHANGED <<mode, pc, ret>>
       \/ mode = "units" /\ u = Sum(held) /\ mode' = "sum" /\ UNCHANGED <<count, pc, ret>>
       \/ /\ IF mode = "header" THEN u # Header ELSE ~IsUnit(u) /\ u # Sum(held)
          /\ Return("DATA")
          /\ UNCHANGED <<count, mode>>
    /\ chunk' = Tail(chunk)
    /\ UNCHANGED <<cmd, signed, given, input, rest, eof, outVars, held, room>>

\* A slip the properties catch: the end of the stream is forgotten when the output chunk
\* is full just then.
InflateReturnsFull ==
    /\ pc = "inflate"
    /\ IF count > 0 THEN Len(room) = ChunkZlib ELSE mode = "sum" \/ chunk = <<>>
    /\ \E good \in BOOLEAN :
        /\ Write(room, good)
        /\ IF ~good THEN Return("ERROR")
           ELSE IF mode = "sum" /\ Len(room) < ChunkZlib THEN Return("OK")
           ELSE GoOn("read")
    /\ room' = <<>>
    /\ UNCHANGED <<cmd, signed, given, input, ioVars, held, count, mode>>

\* and what it has put into the chunk is written.  Full or not decides whether it is
\* called again, then whether the stream has ended.  What follows the sum is ignored.
InflateReturns ==
    /\ pc = "inflate"
    /\ IF count > 0 THEN Len(room) = ChunkZlib ELSE mode = "sum" \/ chunk = <<>>
    /\ \E good \in BOOLEAN :
        /\ Write(room, good)
        /\ IF ~good THEN Return("ERROR")
           ELSE IF Len(room) = ChunkZlib THEN GoOn("inflate")
           ELSE IF mode = "sum" THEN Return("OK")
           ELSE GoOn("read")
    /\ room' = <<>>
    /\ UNCHANGED <<cmd, signed, given, input, ioVars, held, count, mode>>
-----------------------------------------------------------------------------
\* exe_search without a PATH to search.
NoPath ==
    /\ pc = "path"
    /\ \/ ~given /\ Return("UNSET")
       \/ given /\ input = <<>> /\ Return("EMPTY")
    /\ UNCHANGED <<cmd, signed, given, input, ioVars, outVars, workVars>>

Found(item) == item = "with"

\* A slip the properties catch: the list grows by two whenever there is one entry more
\* than a multiple of three.
GrownLate(capacity, entries) == IF entries % 3 = 0 THEN capacity + 2 ELSE capacity

Grown(capacity, entries) == IF capacity = entries THEN capacity + 2 ELSE capacity

\* A slip the properties catch: the first item that can be searched ends the search.
SearchItemOnce ==
    /\ pc = "path" /\ given /\ rest # <<>>
    /\ LET item == Head(rest) IN
       /\ IF Found(item)
          THEN /\ count' = Grown(count, Len(held))
               /\ held' = Append(held, 1 + Len(input) - Len(rest))
          ELSE UNCHANGED <<held, count>>
       /\ rest' = IF cmd = "which" /\ item \in {"with", "without"} THEN <<>> ELSE Tail(rest)
    /\ UNCHANGED <<cmd, signed, given, input, eof, chunk, pc, outVars, ret, room, mode>>

\* exe_search: an item that is a directory with the command in it.
SearchItem ==
    /\ pc = "path" /\ given /\ rest # <<>>
    /\ IF Found(Head(rest))
       THEN /\ count' = Grown(count, Len(held))
            /\ held' = Append(held, 1 + Len(input) - Len(rest))
            /\ rest' = IF cmd = "which" THEN <<>> ELSE Tail(rest)
       ELSE rest' = Tail(rest) /\ UNCHANGED <<held, count>>
    /\ UNCHANGED <<cmd, signed, given, input, eof, chunk, pc, outVars, ret, room, mode>>

\* The list is printed, one or none or more; nobody looks at what printf returns.
PrintList ==
    /\ pc = "path" /\ given /\ input # <<>> /\ rest = <<>>
    /\ Return("OK")
    /\ \E good \in BOOLEAN : Write(held, good)
    /\ UNCHANGED <<cmd, signed, given, input, ioVars, workVars>>
-----------------------------------------------------------------------------
\* stdout is flushed when main has returned, too late for the exit status.
Exit ==
    /\ pc = "exit"
    /\ pc' = "done"
    /\ \/ written' = Len(out)
       \/ "disk" \in Faults /\ UNCHANGED written
    /\ UNCHANGED <<cmd, signed, given, input, ioVars, out, ret, workVars>>

Done == pc = "done" /\ UNCHANGED vars

Step ==
    \/ Read \/ Convert \/ Argument \/ Digest \/ Deflate
    \/ InflateNothing \/ InflateByte \/ InflateUnit \/ InflateReturns
    \/ NoPath \/ SearchItem \/ PrintList \/ Exit

Next == Step \/ Done

Spec == Init /\ [][Next]_vars

\* The process goes on; reading never waits for ever for more input.
FairSpec == Spec /\ WF_vars(Step)
-----------------------------------------------------------------------------
TypeOK ==
    /\ cmd \in Cmds /\ signed \in BOOLEAN /\ given \in BOOLEAN /\ input \in Inputs[cmd]
    /\ IsSuffix(rest, input)
    /\ eof \in BOOLEAN
    /\ chunk \in Seq(Nat) /\ Len(chunk) <= ChunkOf(cmd)
    /\ pc \in {"read", "convert", "argument", "inflate", "path", "exit", "done"}
    /\ out \in Seq(Nat) /\ written \in 0 .. Len(out)
    /\ ret \in {"none", "OK", "ERROR", "INVALID", "NULL", "DATA", "UNSET", "EMPTY"}
    /\ held \in Seq(Nat) /\ count \in Nat
    /\ (cmd \in Whichs) => Len(held) <= count
    /\ room \in Seq(Nat) /\ Len(room) <= ChunkZlib
    /\ mode \in {"header", "units", "sum"}

Succeeded == pc = "done" /\ ret = "OK"

\* Converting chunk by chunk gives what converting everything at once would give, for
\* every length: only because 1023 is a multiple of three (util.c:131).  A digest is of
\* all that was read.
EncodesAsInOnePiece ==
    Succeeded =>
        CASE cmd = "base16-encode" -> out = Base16Encode(input)
          [] cmd = "base64-encode" -> out = Base64Encode(input)
          [] cmd = "sha256sum"     -> out = <<Sum(input)>>
          [] OTHER                 -> TRUE

\* However deflate and inflate spread their work over chunks, full ones and empty ones
\* included: what is deflated can be inflated to what it was, what is inflated is what is
\* in the stream, a stream that is cut or damaged never passes, and one that is whole is
\* never refused, whatever follows it.
FlatesExactly ==
    /\ Succeeded /\ cmd = "zlib-deflate" => Inflated(out) = {input}
    /\ Succeeded /\ cmd = "zlib-inflate" => Inflated(input) = {out}
    /\ pc = "done" /\ ret = "DATA" => Inflated(input) = {}

\* What base16-decode makes of what base16-encode has made is what that was given, and
\* it refuses nothing of it that has no byte from 0x80 on in it; where char is unsigned
\* it refuses nothing (base16.c:83-97).
Base16Inverts ==
    \A s \in Inputs["base16-encode"] \ {<<>>} :
        pc = "done" /\ cmd = "base16-decode" /\ given /\ input = Base16Encode(s) =>
            /\ ret = "OK" => out = s
            /\ ret = "INVALID" => signed /\ \E i \in DOMAIN s : s[i] > 127

\* base16-decode decodes any text of pairs of hexadecimal digits: "nvm2 util base16-decode
\* ABCD" is how the README has it used (README.md:328).
HexadecimalIsDecoded ==
    pc = "done" /\ cmd = "base16-decode" /\ given /\ input # <<>>
        /\ Len(input) % 2 = 0 /\ NoDigit \notin Range(input) => ret # "INVALID"

\* base64-decode gives back what base64-encode was given, chunked or not, with a zero byte
\* for each = (util.c:215 writes as many bytes as EVP_DecodeBlock says).
Base64Inverts ==
    \A s \in Inputs["base64-encode"] \ {<<>>} :
        pc = "done" /\ cmd = "base64-decode" /\ input = Base64Encode(s) =>
            /\ ret # "INVALID"
            /\ ret = "OK" => out = s \o Zeros(3 * (Len(input) \div 4) - Len(s))

\* A newline after the text is taken off with the text's last characters.  When those
\* filled a chunk, it is a chunk of its own on stdin (util.c:204) and is refused, when
\* the text has been written already.
NewlineIsRefusedAfterAFullChunk ==
    \A s \in Inputs["base64-encode"] \ {<<>>} :
        LET t == Base64Encode(s) IN
        pc = "done" /\ cmd = "base64-decode" /\ input = Append(t, Newline) =>
            IF given \/ Len(t) % ChunkDecode # 0 THEN ret # "INVALID"
            ELSE ret # "OK" /\ (ret = "INVALID" => out = s \o Zeros(Len(out) - Len(s)))

\* which -a lists every match of PATH in its order, without -a the first of them, with
\* empty items passed over; to find none is a success too.
WhichListsInOrder ==
    Succeeded /\ cmd \in Whichs =>
        LET matches == {i \in DOMAIN input : Found(input[i])} IN
        /\ \A i, j \in DOMAIN out : i < j => out[i] < out[j]
        /\ Range(out) = IF cmd = "which" THEN {m \in matches : \A i \in matches : m <= i}
                        ELSE matches

\* A command that reports success has lost at most what stdout held back to the end, and
\* that only to a disk that is full: errors of fwrite are reported (util.c:46), the one of
\* the flush at exit is not.  which looks at neither.
SuccessLosesABufferAtMost ==
    Succeeded /\ cmd \notin Whichs =>
        /\ Len(out) - written <= OutBuf
        /\ ("disk" \notin Faults) => written = Len(out)

\* Every command ends: at the end of the input, on whichever boundary, there is a read
\* that sees it, and a deflate or inflate that has nothing to do leaves its chunk empty.
EveryRunEnds == <>(pc = "done")
=============================================================================
