---------------------------- MODULE ReceiptFile ----------------------------
(***************************************************************************)
(* The text install writes to receipt.yml and what nvm2_receipt_parse      *)
(* makes of it, or of as much of it as there is.  Four lines, each a key,  *)
(* a colon and a value: a text is told by how many of its lines are        *)
(* complete and where the next is cut.                                     *)
(***************************************************************************)
EXTENDS Naturals, Sequences

\* The line of a tarball of sources begins with sourceurl, the others with binaryurl.
UrlKeys == {"sourceurl", "binaryurl"}

Written(url) == <<url, "sha256sum", "signature", "timestamp">>

\* key: in the key, before its colon.  colon: after it, before the value.  value: in the
\* value.  scheme: after the colon of the URL's "https:".  newline: only that is missing.
Cuts == {"none", "key", "colon", "value", "scheme", "newline"}

Texts ==
    {t \in [url : UrlKeys, lines : 0 .. 4, cut : Cuts] :
        /\ (t.lines = 4) => (t.cut = "none")
        /\ (t.cut = "scheme") => (t.lines = 0)
        /\ ((t.lines = 0) /\ (t.cut = "none")) => (t.url = "binaryurl")}

Empty == [url |-> "binaryurl", lines |-> 0, cut |-> "none"]
Whole(url) == [url |-> url, lines |-> 4, cut |-> "none"]

\* All that anybody could want to read is there.
IsWhole(t) == t.lines = 4 \/ (t.lines = 3 /\ t.cut = "newline")
-----------------------------------------------------------------------------
KeyCodes == UrlKeys \cup {"sha256sum", "timestamp", "signature"}

\* A slip the properties catch: one key is not in the list.
KeyCodeWithoutSum(k) == IF k \in KeyCodes \ {"sha256sum"} THEN k ELSE "unknown"

\* nvm2_receipt_key_code_from_key_name.
KeyCode(k) == IF k \in KeyCodes THEN k ELSE "unknown"

\* calloc: no field is set.
NoReceipt == <<>>
Blank == [k \in KeyCodes |-> "NULL"]

\* nvm2_receipt_set_value, which allocates the receipt before the first value.
SetValue(receipt, k, v) ==
    LET r == IF receipt = NoReceipt THEN Blank ELSE receipt IN
    IF k = "unknown" THEN r ELSE [r EXCEPT ![k] = v]

\* Tokens without a text.  Those for blocks and documents do not tell the parser anything.
KEY == [type |-> "KEY"]
VALUE == [type |-> "VALUE"]
ANOTHER == [type |-> "OTHER"]
ERROR == [type |-> "ERROR"]

\* One token of the loop: the type of the last one that counts, the key of the last
\* scalar after a KEY, the receipt, and whether the scan has failed.
Token(s, token) ==
    IF s.failed THEN s
    ELSE CASE token.type = "ERROR"  -> [s EXCEPT !.failed = TRUE]
           [] token.type = "SCALAR" ->
                  CASE s.last = "KEY"   -> [s EXCEPT !.key = KeyCode(token.is)]
                    [] s.last = "VALUE" -> [s EXCEPT !.receipt = SetValue(@, s.key, token.is)]
                    [] OTHER            -> s
           [] OTHER                 -> [s EXCEPT !.last = token.type]

\* What libyaml's scanner makes of a line, and what the loop makes of that: scalars hold
\* a key or a value.
Scalar(s, is) == Token(s, [type |-> "SCALAR", is |-> is])
Key(s, k) == Scalar(Token(s, KEY), k)
Value(s, v) == Scalar(Token(s, VALUE), v)
Failed(s) == Token(s, ERROR)

\* A line that is cut.  Words without a colon are a scalar when the text begins with
\* them, and an error where a key has to be.
Rest(s, t) ==
    LET k == Written(t.url)[t.lines + 1] IN
    CASE t.cut = "none"    -> s
      [] t.cut = "key"     -> IF t.lines = 0 THEN Scalar(s, "cut") ELSE Failed(s)
      [] t.cut = "colon"   -> Token(Key(s, k), VALUE)
      [] t.cut = "value"   -> Value(Key(s, k), "cut")
      [] t.cut = "scheme"  -> Failed(Value(Key(s, k), "cut"))
      [] t.cut = "newline" -> Value(Key(s, k), "whole")

Scan(t) ==
    LET start == [last |-> "OTHER", key |-> "unknown", receipt |-> NoReceipt, failed |-> FALSE]
        after[i \in 0 .. t.lines] ==
            IF i = 0 THEN Token(start, ANOTHER)
            ELSE Value(Key(after[i - 1], Written(t.url)[i]), "whole")
    IN Token(Rest(after[t.lines], t), ANOTHER)

\* A slip the properties catch: the length of the timestamp is not looked at.
CheckWithoutLength(r) ==
    IF r = NoReceipt THEN "CRASH"
    ELSE IF \A k \in UrlKeys : r[k] = "NULL" THEN "RECEIPT_SCHEME"
    ELSE IF r["sha256sum"] = "NULL" THEN "CRASH"
    ELSE IF r["sha256sum"] # "whole" \/ "NULL" \in {r["signature"], r["timestamp"]}
    THEN "RECEIPT_SCHEME"
    ELSE "OK"

\* nvm2_receipt_check.  It does not ask whether there is a receipt, nor whether there
\* is a sum before it takes its length; the other fields it does ask for.  A timestamp
\* that is cut has fewer than ten digits.
Check(r) ==
    IF r = NoReceipt THEN "CRASH"
    ELSE IF \A k \in UrlKeys : r[k] = "NULL" THEN "RECEIPT_SCHEME"
    ELSE IF r["sha256sum"] = "NULL" THEN "CRASH"
    ELSE IF \/ r["sha256sum"] # "whole"
            \/ "NULL" \in {r["signature"], r["timestamp"]}
            \/ r["timestamp"] # "whole"
    THEN "RECEIPT_SCHEME"
    ELSE "OK"

\* nvm2_receipt_parse, from the first byte of the text on.
Parse(t) == IF Scan(t).failed THEN "RECEIPT_SYNTAX" ELSE Check(Scan(t).receipt)
=============================================================================
