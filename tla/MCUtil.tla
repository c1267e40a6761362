------------------------------- MODULE MCUtil -------------------------------
(***************************************************************************)
(* An instance of Util for TLC: bytes at both ends and in the middle of    *)
(* their range, and lengths around every multiple of every chunk.          *)
(***************************************************************************)
EXTENDS Util, TLC

Some(S, n) == UNION {[1 .. k -> S] : k \in 0 .. n}

\* 255, 144 and more have the top bit set.
Plain == Some({1, 255}, 4) \cup {[i \in 1 .. n |-> 36 * i] : n \in 5 .. 7}

Streams ==
    LET units == Some({Unit(7, 1), Unit(7, 2), Unit(200, 3)}, 2)
        good == {<<Header>> \o u \o <<Sum(Content(u))>> : u \in units}
    IN good \cup {Front(s) : s \in good}
            \cup {Append(s, x) : s \in good, x \in {Header, Unit(7, 1)}}
            \cup {Append(Front(s), Last(s) + 1) : s \in good}
            \cup {<<>>, <<Unit(7, 1)>>, <<Header, Header, Sum(<<>>)>>}

MCInputs == [c \in Cmds |->
    CASE c = "base16-decode" -> {Base16Encode(s) : s \in Plain} \cup Some({1, 10, NoDigit}, 3)
      [] c = "base64-decode" ->
            LET texts == {Base64Encode(s) : s \in Plain} IN
            texts \cup {Append(t, Newline) : t \in texts} \cup {<<Blank>> \o t : t \in texts}
                  \cup Some({1, Pad, Newline, 67}, 4)
      [] c = "zlib-deflate"  -> Some({1, 255}, 5)
      [] c = "zlib-inflate"  -> Streams
      [] c \in Whichs        -> Some(Items, 4) \ {<<"">>}
      [] OTHER               -> Plain]

\* What the README gives base16-decode and base64-decode: ABCD and YQ==.
ReadmeInputs ==
    [MCInputs EXCEPT !["base16-decode"] = {<<10, 11, 12, 13>>},
                     !["base64-decode"] = {<<24, 16, Pad, Pad>>}]
=============================================================================
