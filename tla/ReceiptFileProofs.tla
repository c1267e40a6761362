------------------------- MODULE ReceiptFileProofs -------------------------
(***************************************************************************)
(* What nvm2_receipt_parse makes of every text there may be.               *)
(***************************************************************************)
EXTENDS ReceiptFile, Inductions

\* A scan that has not failed.
Scanned(last, key, r) == [last |-> last, key |-> key, receipt |-> r, failed |-> FALSE]

\* The lines of a text that are whole, as fields.
Fields(url, i) ==
    [k \in KeyCodes |-> IF \E j \in 1 .. i : Written(url)[j] = k THEN "whole" ELSE "NULL"]

\* What the loop knows after i lines that are whole.
AfterLines(url, i) ==
    IF i = 0 THEN Scanned("OTHER", "unknown", NoReceipt)
    ELSE Scanned("VALUE", Written(url)[i], Fields(url, i))

\* A receipt is not what there is before the first value.
LEMMA ReceiptsAreAllocated ==
    ASSUME NEW r, DOMAIN r = KeyCodes
    PROVE  r # NoReceipt
  <1>1. "sha256sum" \in KeyCodes
    BY DEF KeyCodes
  <1>2. DOMAIN NoReceipt = {}
    BY DEF NoReceipt
  <1> QED
    BY <1>1, <1>2

\* What each token does to a scan that has not failed.
LEMMA OneToken ==
    ASSUME NEW l, NEW key, NEW r
    PROVE  /\ Token(Scanned(l, key, r), KEY) = Scanned("KEY", key, r)
           /\ Token(Scanned(l, key, r), VALUE) = Scanned("VALUE", key, r)
           /\ Token(Scanned(l, key, r), ANOTHER) = Scanned("OTHER", key, r)
  BY DEF Token, Scanned, KEY, VALUE, ANOTHER

\* What has failed stays so.
LEMMA OneFailure ==
    ASSUME NEW l, NEW key, NEW r
    PROVE  Token(Failed(Scanned(l, key, r)), ANOTHER).failed = TRUE
  <1>1. Failed(Scanned(l, key, r)) = [last |-> l, key |-> key, receipt |-> r, failed |-> TRUE]
    BY DEF Token, Scanned, Failed, ERROR
  <1> QED
    BY <1>1 DEF Token

\* A scalar is the key or the value, or nothing.
LEMMA OneScalar ==
    ASSUME NEW key, NEW r, NEW x
    PROVE  /\ Scalar(Scanned("KEY", key, r), x) = Scanned("KEY", KeyCode(x), r)
           /\ Scalar(Scanned("VALUE", key, r), x) = Scanned("VALUE", key, SetValue(r, key, x))
           /\ Scalar(Scanned("OTHER", key, r), x) = Scanned("OTHER", key, r)
  BY DEF Token, Scanned, Scalar

\* A line sets the field its key names, whatever came before.
LEMMA OneLine ==
    ASSUME NEW l, NEW key, NEW r, NEW k \in KeyCodes, NEW v
    PROVE  /\ Token(Key(Scanned(l, key, r), k), VALUE) = Scanned("VALUE", k, r)
           /\ Value(Key(Scanned(l, key, r), k), v) = Scanned("VALUE", k, SetValue(r, k, v))
  <1>1. Key(Scanned(l, key, r), k) = Scanned("KEY", k, r)
    <2>1. Token(Scanned(l, key, r), KEY) = Scanned("KEY", key, r)
      BY OneToken
    <2>2. Scalar(Scanned("KEY", key, r), k) = Scanned("KEY", KeyCode(k), r)
      BY OneScalar
    <2>3. KeyCode(k) = k
      BY DEF KeyCode
    <2> QED
      BY <2>1, <2>2, <2>3 DEF Key
  <1>2. Token(Key(Scanned(l, key, r), k), VALUE) = Scanned("VALUE", k, r)
    BY <1>1, OneToken
  <1>3. Value(Key(Scanned(l, key, r), k), v) = Scanned("VALUE", k, SetValue(r, k, v))
    BY <1>2, OneScalar DEF Value
  <1> QED
    BY <1>2, <1>3

\* The keys of the lines are five of those the parser knows.
LEMMA WrittenKeys ==
    ASSUME NEW url \in UrlKeys
    PROVE  /\ \A i \in 1 .. 4 : Written(url)[i] \in KeyCodes
           /\ Written(url)[1] = url /\ Written(url)[2] = "sha256sum"
           /\ Written(url)[3] = "signature" /\ Written(url)[4] = "timestamp"
  BY DEF Written, KeyCodes, UrlKeys

\* Setting one field more.
LEMMA FieldsStep ==
    ASSUME NEW url \in UrlKeys, NEW i \in 0 .. 3, NEW v
    PROVE  LET r == IF i = 0 THEN NoReceipt ELSE Fields(url, i)
               k == Written(url)[i + 1]
           IN /\ SetValue(r, k, v) = [Fields(url, i) EXCEPT ![k] = v]
              /\ SetValue(r, k, "whole") = Fields(url, i + 1)
  <1> DEFINE r == IF i = 0 THEN NoReceipt ELSE Fields(url, i)
             k == Written(url)[i + 1]
  <1>1. k \in KeyCodes /\ k # "unknown"
    BY WrittenKeys DEF KeyCodes, UrlKeys
  <1>2. Fields(url, 0) = Blank
    BY DEF Fields, Blank
  <1>3. i # 0 => r # NoReceipt
    BY ReceiptsAreAllocated DEF Fields
  <1>4. \A x : SetValue(r, k, x) = [Fields(url, i) EXCEPT ![k] = x]
    BY <1>1, <1>2, <1>3 DEF SetValue
  <1>5. [Fields(url, i) EXCEPT ![k] = "whole"] = Fields(url, i + 1)
    <2>1. \A j \in 1 .. i + 1 : j = i + 1 \/ j \in 1 .. i
      OBVIOUS
    <2>2. \A x : (\E j \in 1 .. i + 1 : Written(url)[j] = x)
                  <=> (x = k \/ \E j \in 1 .. i : Written(url)[j] = x)
      BY <2>1
    <2> HIDE DEF k
    <2> QED
      BY <2>2 DEF Fields
  <1> QED
    BY <1>4, <1>5

\* After the lines that are whole the scan has them all.
LEMMA ScanOfLines ==
    ASSUME NEW t \in Texts
    PROVE  Scan(t) = Token(Rest(AfterLines(t.url, t.lines), t), ANOTHER)
  <1> DEFINE start == Scanned("OTHER", "unknown", NoReceipt)
             Def(g) == [i \in 0 .. t.lines |->
                          IF i = 0 THEN Token(start, ANOTHER)
                          ELSE Value(Key(g[i - 1], Written(t.url)[i]), "whole")]
             after == CHOOSE g : g = Def(g)
             f == [i \in 0 .. t.lines |-> AfterLines(t.url, i)]
  <1>0. t.lines \in 0 .. 4 /\ t.url \in UrlKeys
    BY DEF Texts
  <1>1. f = Def(f)
    <2>1. Token(start, ANOTHER) = AfterLines(t.url, 0)
      BY OneToken DEF AfterLines
    <2>2. ASSUME NEW i \in 0 .. t.lines, i # 0
          PROVE  AfterLines(t.url, i) = Value(Key(f[i - 1], Written(t.url)[i]), "whole")
      <3>1. i - 1 \in 0 .. 3 /\ i - 1 \in 0 .. t.lines /\ i - 1 + 1 = i /\ i \in 1 .. 4
        BY <1>0, <2>2
      <3>2. Written(t.url)[i] \in KeyCodes
        BY <1>0, <3>1, WrittenKeys
      <3> DEFINE r == IF i - 1 = 0 THEN NoReceipt ELSE Fields(t.url, i - 1)
      <3>3. \E l, key : f[i - 1] = Scanned(l, key, r)
        BY <3>1 DEF AfterLines
      <3>4. SetValue(r, Written(t.url)[i], "whole") = Fields(t.url, i)
        BY <1>0, <3>1, FieldsStep
      <3> HIDE DEF r, f
      <3>5. Value(Key(f[i - 1], Written(t.url)[i]), "whole") = Scanned("VALUE", Written(t.url)[i], Fields(t.url, i))
        BY <3>2, <3>3, <3>4, OneLine
      <3> QED
        BY <2>2, <3>5 DEF AfterLines
    <2> QED
      BY <2>1, <2>2
  <1>2. after = Def(after)
    <2> HIDE DEF Def
    <2> QED
      BY <1>1
  <1>3. \A i \in 0 .. t.lines : after[i] = f[i]
    <2> DEFINE S == {i \in 0 .. t.lines : after[i] = f[i]}
    <2>1. 0 \in S
      <3>1. after[0] = Token(start, ANOTHER) /\ f[0] = Token(start, ANOTHER)
        <4> HIDE DEF after, f
        <4> QED
          BY <1>0, <1>1, <1>2
      <3> QED
        BY <1>0, <3>1
    <2>2. ASSUME NEW n \in 0 .. t.lines - 1, n \in S PROVE n + 1 \in S
      <3>1. /\ after[n + 1] = Value(Key(after[n], Written(t.url)[n + 1]), "whole")
            /\ f[n + 1] = Value(Key(f[n], Written(t.url)[n + 1]), "whole")
        <4> HIDE DEF after, f
        <4>1. n + 1 \in 0 .. t.lines /\ n + 1 # 0 /\ n + 1 - 1 = n
          BY <1>0
        <4>2. \A g : Def(g)[n + 1] = Value(Key(g[n], Written(t.url)[n + 1]), "whole")
          BY <4>1
        <4> HIDE DEF Def
        <4> QED
          BY <1>1, <1>2, <4>2
      <3> QED
        BY <1>0, <2>2, <3>1
    <2>3. \A i \in 0 .. t.lines : i \in S
      <3> HIDE DEF S
      <3> QED
        BY <1>0, <2>1, <2>2, InductionUpTo
    <2> QED
      BY <2>3
  <1>4. Scan(t) = Token(Rest(after[t.lines], t), ANOTHER)
    BY DEF Scan, Scanned
  <1>5. after[t.lines] = AfterLines(t.url, t.lines)
    <2> HIDE DEF after
    <2>1. t.lines \in 0 .. t.lines /\ f[t.lines] = AfterLines(t.url, t.lines)
      BY <1>0
    <2> HIDE DEF f
    <2> QED
      BY <1>3, <2>1
  <1> QED
    BY <1>4, <1>5

\* Which fields have been set after i lines, and what nvm2_receipt_check says of them.
LEMMA CheckOfFields ==
    ASSUME NEW url \in UrlKeys, NEW i \in 1 .. 4
    PROVE  /\ DOMAIN Fields(url, i) = KeyCodes
           /\ Fields(url, i)[url] = "whole"
           /\ Fields(url, i)["sha256sum"] = IF 2 <= i THEN "whole" ELSE "NULL"
           /\ Fields(url, i)["signature"] = IF 3 <= i THEN "whole" ELSE "NULL"
           /\ Fields(url, i)["timestamp"] = IF 4 <= i THEN "whole" ELSE "NULL"
           /\ Check(Fields(url, i)) =
                  IF i = 1 THEN "CRASH" ELSE IF i = 4 THEN "OK" ELSE "RECEIPT_SCHEME"
  <1> DEFINE r == Fields(url, i)
  <1>1. /\ DOMAIN r = KeyCodes
        /\ url \in KeyCodes /\ {"sha256sum", "signature", "timestamp"} \subseteq KeyCodes
        /\ \A k \in KeyCodes : r[k] = IF \E j \in 1 .. i : Written(url)[j] = k THEN "whole" ELSE "NULL"
    BY DEF Fields, KeyCodes
  <1>2. url # "sha256sum" /\ url # "signature" /\ url # "timestamp"
    BY DEF UrlKeys
  <1> HIDE DEF r
  <1>3. r[url] = "whole"
    BY <1>1, WrittenKeys
  <1>4. r["sha256sum"] = IF 2 <= i THEN "whole" ELSE "NULL"
    BY <1>1, <1>2, WrittenKeys
  <1>5. r["signature"] = IF 3 <= i THEN "whole" ELSE "NULL"
    BY <1>1, <1>2, WrittenKeys
  <1>6. r["timestamp"] = IF 4 <= i THEN "whole" ELSE "NULL"
    BY <1>1, <1>2, WrittenKeys
  <1>7. r # NoReceipt
    BY <1>1, ReceiptsAreAllocated
  <1>8. Check(r) = IF i = 1 THEN "CRASH" ELSE IF i = 4 THEN "OK" ELSE "RECEIPT_SCHEME"
    <2>1. ~\A k \in UrlKeys : r[k] = "NULL"
      BY <1>3
    <2>2. CASE i = 1
      BY <1>4, <1>7, <2>1, <2>2 DEF Check
    <2>3. CASE i \in {2, 3}
      BY <1>4, <1>5, <1>6, <1>7, <2>1, <2>3 DEF Check
    <2>4. CASE i = 4
      BY <1>4, <1>5, <1>6, <1>7, <2>1, <2>4 DEF Check
    <2> QED
      BY <2>2, <2>3, <2>4
  <1> QED
    BY <1>1, <1>3, <1>4, <1>5, <1>6, <1>8 DEF r

\* The same when the value after them is cut.
LEMMA CheckOfCut ==
    ASSUME NEW url \in UrlKeys, NEW i \in 0 .. 3
    PROVE  Check([Fields(url, i) EXCEPT ![Written(url)[i + 1]] = "cut"]) =
               IF i = 0 THEN "CRASH" ELSE "RECEIPT_SCHEME"
  <1> DEFINE r == [Fields(url, i) EXCEPT ![Written(url)[i + 1]] = "cut"]
  <1> SUFFICES Check(r) = IF i = 0 THEN "CRASH" ELSE "RECEIPT_SCHEME"
    OBVIOUS
  <1>1. DOMAIN Fields(url, i) = KeyCodes /\ DOMAIN r = KeyCodes
    BY DEF Fields
  <1>2. url \in KeyCodes /\ {"sha256sum", "signature", "timestamp"} \subseteq KeyCodes
    BY DEF KeyCodes
  <1>3. url # "sha256sum" /\ url # "signature" /\ url # "timestamp"
    BY DEF UrlKeys
  <1>4. r # NoReceipt
    BY <1>1, ReceiptsAreAllocated
  <1>5. CASE i = 0
    <2>1. r[url] = "cut" /\ r["sha256sum"] = "NULL"
      BY <1>1, <1>2, <1>3, <1>5, WrittenKeys DEF Fields
    <2>2. ~\A k \in UrlKeys : r[k] = "NULL"
      BY <2>1
    <2> HIDE DEF r
    <2> QED
      BY <1>4, <1>5, <2>1, <2>2 DEF Check
  <1>6. CASE i # 0
    <2>1. r[url] = "whole" /\ r["sha256sum"] # "NULL"
      BY <1>1, <1>2, <1>3, <1>6, WrittenKeys, CheckOfFields
    <2>2. \/ r["sha256sum"] = "cut"
          \/ r["timestamp"] = "NULL"
          \/ r["timestamp"] = "cut"
      BY <1>1, <1>2, <1>3, <1>6, WrittenKeys, CheckOfFields
    <2>3. ~\A k \in UrlKeys : r[k] = "NULL"
      BY <2>1
    <2> HIDE DEF r
    <2> QED
      BY <1>4, <1>6, <2>1, <2>2, <2>3 DEF Check
  <1> QED
    BY <1>5, <1>6

\* A receipt is accepted if and only if it is whole, and the parser crashes only on one
\* that is cut before the value of its sum.
THEOREM ParseIsRight ==
    ASSUME NEW t \in Texts
    PROVE  /\ Parse(t) \in {"OK", "RECEIPT_SYNTAX", "RECEIPT_SCHEME", "CRASH"}
           /\ Parse(t) = "OK" <=> IsWhole(t)
           /\ Parse(t) = "CRASH" => t.lines <= 1 /\ ~IsWhole(t)
  <1> DEFINE url == t.url
             n == t.lines
             r == IF n = 0 THEN NoReceipt ELSE Fields(url, n)
             s == AfterLines(url, n)
  <1>0. /\ url \in UrlKeys /\ n \in 0 .. 4 /\ t.cut \in Cuts
        /\ n = 4 => t.cut = "none"
        /\ t.cut = "scheme" => n = 0
    BY DEF Texts
  <1>1. PICK l, key : /\ l \in {"OTHER", "VALUE"}
                      /\ s = Scanned(l, key, r)
                      /\ n = 0 => l = "OTHER"
    BY <1>0 DEF AfterLines
  <1>2. Scan(t) = Token(Rest(s, t), ANOTHER)
    BY ScanOfLines
  <1>3. Check(r) = IF n <= 1 THEN "CRASH" ELSE IF n = 4 THEN "OK" ELSE "RECEIPT_SCHEME"
    BY <1>0, CheckOfFields DEF Check
  <1>4. ASSUME NEW last, NEW k, NEW q, Rest(s, t) = Scanned(last, k, q)
        PROVE  Parse(t) = Check(q)
    <2>1. Scan(t) = Scanned("OTHER", k, q)
      BY <1>2, <1>4, OneToken
    <2> QED
      BY <2>1 DEF Parse, Scanned
  <1>5. ASSUME NEW last, NEW k, NEW q, Rest(s, t) = Failed(Scanned(last, k, q))
        PROVE  Parse(t) = "RECEIPT_SYNTAX"
    BY <1>2, <1>5, OneFailure DEF Parse
  <1> HIDE DEF r, s, url, n
  <1>6. CASE t.cut = "none"
    <2>1. Rest(s, t) = s
      BY <1>6 DEF Rest
    <2>2. Parse(t) = Check(r)
      BY <1>1, <1>4, <2>1
    <2> QED
      BY <1>0, <1>3, <1>6, <2>2 DEF IsWhole, n
  <1>7. CASE t.cut # "none"
    <2> DEFINE k == Written(url)[n + 1]
    <2>0. n \in 0 .. 3 /\ k \in KeyCodes
      BY <1>0, <1>7, WrittenKeys
    <2>1. ~IsWhole(t) <=> ~(n = 3 /\ t.cut = "newline")
      BY <2>0 DEF IsWhole, n
    <2>2. /\ SetValue(r, k, "cut") = [Fields(url, n) EXCEPT ![k] = "cut"]
          /\ SetValue(r, k, "whole") = Fields(url, n + 1)
      BY <1>0, <2>0, FieldsStep DEF r
    <2>3. /\ Token(Key(s, k), VALUE) = Scanned("VALUE", k, r)
          /\ \A v : Value(Key(s, k), v) = Scanned("VALUE", k, SetValue(r, k, v))
      BY <1>1, <2>0, OneLine
    <2> HIDE DEF k
    <2>4. CASE t.cut = "key" /\ n = 0
      <3>1. Rest(s, t) = Scalar(s, "cut")
        BY <2>4 DEF Rest, n
      <3>2. Rest(s, t) = s
        BY <1>1, <2>4, <3>1, OneScalar
      <3>3. Parse(t) = Check(r)
        BY <1>1, <1>4, <3>2
      <3> QED
        BY <1>3, <2>1, <2>4, <3>3 DEF n
    <2>5. CASE t.cut = "key" /\ n # 0
      <3>1. Rest(s, t) = Failed(s)
        BY <2>5 DEF Rest, n
      <3>2. Parse(t) = "RECEIPT_SYNTAX"
        BY <1>1, <1>5, <3>1
      <3> QED
        BY <2>1, <2>5, <3>2
    <2>6. CASE t.cut = "colon"
      <3>1. Rest(s, t) = Token(Key(s, k), VALUE)
        BY <2>6 DEF Rest, n, k, url
      <3>2. Parse(t) = Check(r)
        BY <1>4, <2>3, <3>1
      <3> QED
        BY <1>3, <2>0, <2>1, <2>6, <3>2 DEF n
    <2>7. CASE t.cut = "value"
      <3>1. Rest(s, t) = Value(Key(s, k), "cut")
        BY <2>7 DEF Rest, n, k, url
      <3>2. Parse(t) = Check([Fields(url, n) EXCEPT ![k] = "cut"])
        BY <1>4, <2>2, <2>3, <3>1
      <3>3. Parse(t) = IF n = 0 THEN "CRASH" ELSE "RECEIPT_SCHEME"
        BY <1>0, <2>0, <3>2, CheckOfCut DEF k
      <3> QED
        BY <2>1, <2>7, <3>3 DEF n
    <2>8. CASE t.cut = "scheme"
      <3>1. Rest(s, t) = Failed(Value(Key(s, k), "cut"))
        BY <2>8 DEF Rest, n, k, url
      <3>2. Parse(t) = "RECEIPT_SYNTAX"
        BY <1>5, <2>3, <3>1
      <3> QED
        BY <2>1, <2>8, <3>2
    <2>9. CASE t.cut = "newline"
      <3>1. Rest(s, t) = Value(Key(s, k), "whole")
        BY <2>9 DEF Rest, n, k, url
      <3>2. Parse(t) = Check(Fields(url, n + 1))
        BY <1>4, <2>2, <2>3, <3>1
      <3>3. Parse(t) = IF n = 0 THEN "CRASH" ELSE IF n = 3 THEN "OK" ELSE "RECEIPT_SCHEME"
        BY <1>0, <2>0, <3>2, CheckOfFields
      <3> QED
        BY <2>0, <2>1, <2>9, <3>3 DEF n
    <2> QED
      BY <1>0, <1>7, <2>4, <2>5, <2>6, <2>7, <2>8, <2>9 DEF Cuts
  <1> QED
    BY <1>6, <1>7
=============================================================================
