----------------------------- MODULE WireProofs -----------------------------
(***************************************************************************)
(* Theorems about Wire, for any calls, answers and events and any size of  *)
(* the chunks that are read.                                               *)
(***************************************************************************)
EXTENDS TextProofs

LEMMA ChunkSize == ReadChunk \in Nat
BY WireAssumption

-----------------------------------------------------------------------------
(* What a text from the server stands for *)

\* The characters that come from the server, in lines and between them.
LineChar ==
    UNION {ToSet(line) : line \in ToSet(Greeting("TS3")) \cup ToSet(Greeting("TS6"))
                                \cup {LineOf(m) : m \in Sendable}}
StreamChar == LineChar \cup {"\n", "\r"}

LineText == Seq(LineChar \ {"\n", "\r"})

\* b is the start of s or the end of a line in it, and p the end of the next.
NextEnd(s, b, p) ==
    /\ b \in 0 .. Len(s) /\ p \in b + 1 .. Len(s)
    /\ b = 0 \/ s[b] = "\n"
    /\ s[p] = "\n" /\ \A i \in b + 1 .. p - 1 : s[i] # "\n"

\* The line between b and p is counted, or it is empty.
Counted(s, ls, blanks, k, b, p) ==
    \/ k[p] = k[b] + 1 /\ Strip(SubSeq(s, b + 1, p - 1)) = ls[k[p]]
    \/ blanks /\ k[p] = k[b] /\ Strip(SubSeq(s, b + 1, p - 1)) = <<>>

\* The text s holds the lines ls, in order, and if blanks are allowed empty
\* lines between them; of a whole text nothing is missing at the end.  The
\* witness k counts the lines of ls that end up to a place in s.
Decodings(s, ls, blanks, whole) ==
    {k \in [0 .. Len(s) -> 0 .. Len(ls)] :
        /\ k[0] = 0
        /\ \A b, p \in 0 .. Len(s) : b <= p => k[b] <= k[p]
        /\ \A b, p \in 0 .. Len(s) :
              b <= p /\ (\A i \in b + 1 .. p : s[i] # "\n") => k[b] = k[p]
        /\ \A b, p \in 0 .. Len(s) : NextEnd(s, b, p) => Counted(s, ls, blanks, k, b, p)
        /\ whole => /\ k[Len(s)] = Len(ls)
                    /\ \A i \in 1 .. Len(s) :
                          s[i] # "\r" => \E p \in i .. Len(s) : s[p] = "\n"}

LEMMA LineTextFacts ==
    ASSUME NEW line \in LineText
    PROVE  /\ line \in Seq(StreamChar) /\ Len(line) \in Nat
           /\ \A i \in 1 .. Len(line) : line[i] # "\r"
           /\ \A i \in 1 .. Len(line) : line[i] # "\n"
<1>1. Len(line) \in Nat /\ \A i \in 1 .. Len(line) : line[i] \in LineChar \ {"\n", "\r"}
  BY DEF LineText
<1>2. line \in Seq(StreamChar)
  <2>1. LineChar \ {"\n", "\r"} \subseteq StreamChar
    BY DEF StreamChar
  <2> QED BY <2>1, SeqMonotonic DEF LineText
<1> QED BY <1>1, <1>2

LEMMA TerminatorFacts ==
    ASSUME NEW t \in Terminator
    PROVE  /\ t \in Seq(StreamChar) /\ (Len(t) = 1 \/ Len(t) = 2)
           /\ t[1] = "\n" /\ (Len(t) = 2 => t[2] = "\r")
<1> USE DEF StreamChar
<1>1. CASE t = <<"\n", "\r">>
  BY <1>1
<1>2. CASE t = <<"\n">>
  BY <1>2
<1> QED BY <1>1, <1>2 DEF Terminator

LEMMA ConcatFacts ==
    ASSUME NEW S, NEW s \in Seq(S), NEW t \in Seq(S)
    PROVE  /\ s \o t \in Seq(S) /\ Len(s \o t) = Len(s) + Len(t)
           /\ \A i \in 1 .. Len(s) : (s \o t)[i] = s[i]
           /\ \A i \in 1 .. Len(t) : (s \o t)[Len(s) + i] = t[i]
  OBVIOUS

\* Where the elements of two sequences are when one follows the other; named,
\* for the lemma below to be cited with.
Parts(s, t) ==
    /\ Len(s \o t) = Len(s) + Len(t)
    /\ \A i \in 1 .. Len(s) : (s \o t)[i] = s[i]
    /\ \A i \in 1 .. Len(t) : (s \o t)[Len(s) + i] = t[i]

LEMMA ConcatParts ==
    ASSUME NEW S, NEW s \in Seq(S), NEW t \in Seq(S)
    PROVE  s \o t \in Seq(S) /\ Parts(s, t)
BY ConcatFacts DEF Parts

\* Four texts are put together in one way; named, for the lemma below to be
\* cited with.
Regrouped(s, t, u, v) == s \o (t \o (u \o v)) = ((s \o t) \o u) \o v

LEMMA ConcatSplit ==
    ASSUME NEW S, NEW s \in Seq(S), NEW t \in Seq(S), NEW u \in Seq(S), NEW v \in Seq(S)
    PROVE  Regrouped(s, t, u, v)
<1>1. s \o (t \o (u \o v)) = ((s \o t) \o u) \o v
  OBVIOUS
<1> QED BY <1>1 DEF Regrouped

Associated(s, t, u) == (s \o t) \o u = s \o (t \o u)

LEMMA ConcatThree ==
    ASSUME NEW S, NEW s \in Seq(S), NEW t \in Seq(S), NEW u \in Seq(S)
    PROVE  Associated(s, t, u)
<1>1. (s \o t) \o u = s \o (t \o u)
  OBVIOUS
<1> QED BY <1>1 DEF Associated

\* What is left of carriage returns in front of a line is the line.
LEMMA StripLine ==
    ASSUME NEW text \in Seq(StreamChar), NEW line \in LineText, NEW a \in Nat,
           Len(text) = a + Len(line), \A i \in 1 .. a : text[i] = "\r",
           \A i \in 1 .. Len(line) : text[a + i] = line[i]
    PROVE  Strip(text) = line
<1> DEFINE T == {i \in DOMAIN text : text[i] # "\r"}
<1>1. line \in Seq(StreamChar) /\ Len(line) \in Nat /\ \A i \in 1 .. Len(line) : line[i] # "\r"
  BY LineTextFacts
<1>2. \A i \in 1 .. Len(text) : i > a => i - a \in 1 .. Len(line) /\ text[i] = line[i - a]
  <2> TAKE i \in 1 .. Len(text)
  <2> HAVE i > a
  <2>1. i - a \in 1 .. Len(line) /\ a + (i - a) = i
    BY <1>1
  <2> QED BY <2>1
<1>3. T = a + 1 .. Len(text)
  <2>1. DOMAIN text = 1 .. Len(text) /\ Len(text) \in Nat
    OBVIOUS
  <2>2. \A i \in 1 .. Len(text) : i > a => text[i] # "\r"
    BY <1>1, <1>2
  <2>3. \A i \in 1 .. Len(text) : i <= a => text[i] = "\r"
    OBVIOUS
  <2> QED BY <2>1, <2>2, <2>3
<1>4. Strip(text) = IF T = {} THEN <<>> ELSE SubSeq(text, Min(T), Max(T))
  BY DEF Strip
<1>5. CASE line = <<>>
  BY <1>1, <1>3, <1>4, <1>5
<1>6. CASE line # <<>>
  <2>1. a + 1 \in T /\ Len(text) \in T
    BY <1>1, <1>3, <1>6
  <2> HIDE DEF T
  <2>2. Min(T) = a + 1
    BY <1>3, <2>1 DEF Min
  <2>3. Max(T) = Len(text)
    BY <1>3, <2>1 DEF Max
  <2>4. Strip(text) = SubSeq(text, a + 1, Len(text))
    BY <1>4, <2>1, <2>2, <2>3
  <2>5. SubSeq(text, a + 1, Len(text)) = line
    <3> DEFINE sub == SubSeq(text, a + 1, Len(text))
    <3>1. sub \in Seq(StreamChar) /\ Len(sub) = Len(line)
      BY <1>1, <1>6
    <3>2. \A i \in 1 .. Len(line) : sub[i] = line[i]
      BY <1>1, <1>6
    <3> QED BY <1>1, <3>1, <3>2, SeqEqual
  <2> QED BY <2>4, <2>5
<1> QED BY <1>5, <1>6

\* The start of a text holds what the text holds, if not all of it.
LEMMA DecodePrefix ==
    ASSUME NEW s \in Seq(StreamChar), NEW ls \in Seq(LineText), NEW blanks, NEW whole,
           Decodings(s, ls, blanks, whole) # {}, NEW n \in 0 .. Len(s)
    PROVE  Decodings(SubSeq(s, 1, n), ls, blanks, FALSE) # {}
<1>1. PICK k \in Decodings(s, ls, blanks, whole) : TRUE
  OBVIOUS
<1>2. PICK u \in Seq(StreamChar) : u = SubSeq(s, 1, n)
  <2>1. \A i \in 1 .. n : s[i] \in StreamChar
    OBVIOUS
  <2>2. SubSeq(s, 1, n) \in Seq(StreamChar)
    BY <2>1
  <2> QED BY <2>2
<1>3. Len(u) = n /\ \A i \in 1 .. n : u[i] = s[i]
  BY <1>2
<1>4. Len(s) \in Nat /\ Len(ls) \in Nat
  OBVIOUS
<1> DEFINE h == [p \in 0 .. n |-> k[p]]
<1>5. /\ k \in [0 .. Len(s) -> 0 .. Len(ls)] /\ k[0] = 0
      /\ \A b, p \in 0 .. Len(s) : b <= p => k[b] <= k[p]
      /\ \A b, p \in 0 .. Len(s) :
            b <= p /\ (\A i \in b + 1 .. p : s[i] # "\n") => k[b] = k[p]
  BY <1>1 DEF Decodings
<1>6. h \in [0 .. n -> 0 .. Len(ls)] /\ h[0] = 0
  BY <1>4, <1>5
<1>7. \A b, p \in 0 .. n : b <= p => h[b] <= h[p]
  BY <1>4, <1>5
<1>8. ASSUME NEW b \in 0 .. n, NEW p \in 0 .. n, b <= p, \A i \in b + 1 .. p : u[i] # "\n"
      PROVE  h[b] = h[p]
  <2>1. \A i \in b + 1 .. p : s[i] # "\n"
    BY <1>3, <1>8
  <2> QED BY <1>4, <1>5, <1>8, <2>1
<1>9. ASSUME NEW b \in 0 .. n, NEW p \in 0 .. n, NextEnd(u, b, p)
      PROVE  Counted(u, ls, blanks, h, b, p)
  <2>1. NextEnd(s, b, p)
    BY <1>3, <1>4, <1>9 DEF NextEnd
  <2>2. SubSeq(u, b + 1, p - 1) = SubSeq(s, b + 1, p - 1)
    <3>1. \A i \in b + 1 .. p - 1 : u[i] = s[i] /\ s[i] \in StreamChar
      BY <1>3, <1>4
    <3> QED BY <3>1
  <2>3. Counted(s, ls, blanks, k, b, p)
    BY <1>1, <1>4, <2>1 DEF Decodings
  <2> QED BY <2>2, <2>3 DEF Counted
<1> HIDE DEF h
<1>10. h \in Decodings(u, ls, blanks, FALSE)
  BY <1>3, <1>6, <1>7, <1>8, <1>9 DEF Decodings
<1> QED BY <1>2, <1>10

\* Behind the first line end of a text is the rest of what it holds.
LEMMA DecodeRest ==
    ASSUME NEW s \in Seq(StreamChar), NEW ls \in Seq(LineText), NEW blanks, NEW whole \in BOOLEAN,
           Decodings(s, ls, blanks, whole) # {}, NEW e \in 1 .. Len(s), NextEnd(s, 0, e)
    PROVE  \/ /\ ls # <<>> /\ Strip(SubSeq(s, 1, e - 1)) = Head(ls)
              /\ Decodings(SubSeq(s, e + 1, Len(s)), Tail(ls), blanks, whole) # {}
           \/ /\ blanks /\ Strip(SubSeq(s, 1, e - 1)) = <<>>
              /\ Decodings(SubSeq(s, e + 1, Len(s)), ls, blanks, whole) # {}
<1>1. PICK k \in Decodings(s, ls, blanks, whole) : TRUE
  OBVIOUS
<1>2. PICK n \in Nat : n = Len(s) - e
  OBVIOUS
<1>3. PICK u \in Seq(StreamChar) : u = SubSeq(s, e + 1, Len(s))
  <2>1. \A i \in e + 1 .. Len(s) : s[i] \in StreamChar
    OBVIOUS
  <2>2. SubSeq(s, e + 1, Len(s)) \in Seq(StreamChar)
    BY <2>1
  <2> QED BY <2>2
<1>4. Len(u) = n /\ \A i \in 1 .. n : u[i] = s[e + i]
  BY <1>2, <1>3
<1>5. Len(s) \in Nat /\ Len(ls) \in Nat /\ Len(s) = e + n /\ s[e] = "\n"
  BY <1>2 DEF NextEnd
<1>6. /\ k \in [0 .. Len(s) -> 0 .. Len(ls)] /\ k[0] = 0
      /\ \A b, p \in 0 .. Len(s) : b <= p => k[b] <= k[p]
      /\ \A b, p \in 0 .. Len(s) :
            b <= p /\ (\A i \in b + 1 .. p : s[i] # "\n") => k[b] = k[p]
  BY <1>1 DEF Decodings
<1>7. \/ k[e] = 1 /\ Strip(SubSeq(s, 1, e - 1)) = ls[1]
      \/ blanks /\ k[e] = 0 /\ Strip(SubSeq(s, 1, e - 1)) = <<>>
  <2>1. Counted(s, ls, blanks, k, 0, e)
    BY <1>1, <1>5 DEF Decodings
  <2> QED BY <1>6, <2>1 DEF Counted
<1> DEFINE h == [p \in 0 .. n |-> k[p + e] - k[e]]
<1>8. \A b \in 0 .. n : b + e \in 0 .. Len(s) /\ k[b + e] \in 0 .. Len(ls) /\ k[e] <= k[b + e]
  <2> TAKE b \in 0 .. n
  <2>1. b + e \in 0 .. Len(s) /\ e \in 0 .. Len(s) /\ e <= b + e
    BY <1>5
  <2> QED BY <1>6, <2>1
<1>9. k[e] \in 0 .. Len(ls)
  BY <1>5, <1>6
<1>10. ASSUME NEW rest \in Seq(LineText), Len(rest) = Len(ls) - k[e],
              \A i \in 1 .. Len(rest) : rest[i] = ls[i + k[e]]
       PROVE  Decodings(u, rest, blanks, whole) # {}
  <2>1. h \in [0 .. n -> 0 .. Len(rest)] /\ h[0] = 0
    <3>1. \A b \in 0 .. n : k[b + e] - k[e] \in 0 .. Len(rest)
      BY <1>5, <1>8, <1>9, <1>10
    <3>2. 0 \in 0 .. n /\ k[0 + e] - k[e] = 0
      BY <1>9
    <3> QED BY <3>1, <3>2
  <2>2. ASSUME NEW b \in 0 .. n, NEW p \in 0 .. n, b <= p PROVE h[b] <= h[p]
    <3>1. k[b + e] <= k[p + e]
      BY <1>5, <1>6, <1>8, <2>2
    <3>2. k[b + e] \in 0 .. Len(ls) /\ k[p + e] \in 0 .. Len(ls)
      BY <1>8, Zenon
    <3>3. k[b + e] \in Int /\ k[p + e] \in Int /\ k[e] \in Int
      BY <1>9, <3>2
    <3> QED BY <3>1, <3>3
  <2>3. ASSUME NEW b \in 0 .. n, NEW p \in 0 .. n, b <= p, \A i \in b + 1 .. p : u[i] # "\n"
        PROVE  h[b] = h[p]
    <3>1. \A i \in b + e + 1 .. p + e : s[i] # "\n"
      <4> TAKE i \in b + e + 1 .. p + e
      <4>1. i - e \in b + 1 .. p /\ i - e \in 1 .. n /\ e + (i - e) = i
        BY <1>5
      <4> QED BY <1>4, <2>3, <4>1
    <3>2. k[b + e] = k[p + e]
      BY <1>5, <1>6, <1>8, <2>3, <3>1
    <3> QED BY <3>2
  <2>4. ASSUME NEW b \in 0 .. n, NEW p \in 0 .. n, NextEnd(u, b, p)
        PROVE  Counted(u, rest, blanks, h, b, p)
    <3>1. NextEnd(s, b + e, p + e)
      <4>1. b + e \in 0 .. Len(s) /\ p + e \in b + e + 1 .. Len(s) /\ b < p
        BY <1>4, <1>5, <2>4 DEF NextEnd
      <4>2. s[b + e] = "\n"
        <5>1. CASE b = 0
          BY <1>5, <5>1
        <5>2. CASE b # 0
          BY <1>4, <2>4, <5>2 DEF NextEnd
        <5> QED BY <5>1, <5>2
      <4>3. s[p + e] = "\n"
        BY <1>4, <2>4, <4>1 DEF NextEnd
      <4>4. ASSUME NEW i \in b + e + 1 .. p + e - 1 PROVE s[i] # "\n"
        <5>1. i - e \in b + 1 .. p - 1 /\ i - e \in 1 .. n /\ e + (i - e) = i
          BY <1>5, <4>1
        <5> QED BY <1>4, <2>4, <5>1 DEF NextEnd
      <4> QED BY <4>1, <4>2, <4>3, <4>4 DEF NextEnd
    <3>2. SubSeq(u, b + 1, p - 1) = SubSeq(s, b + e + 1, p + e - 1)
      <4> DEFINE x == SubSeq(u, b + 1, p - 1)
                 y == SubSeq(s, b + e + 1, p + e - 1)
      <4>1. x \in Seq(StreamChar) /\ Len(x) = p - 1 - b /\ \A i \in 1 .. p - 1 - b : x[i] = u[b + i]
        BY <1>4, <2>4 DEF NextEnd
      <4>2. y \in Seq(StreamChar) /\ Len(y) = p - 1 - b /\ \A i \in 1 .. p - 1 - b : y[i] = s[b + e + i]
        BY <1>5, <2>4, <3>1 DEF NextEnd
      <4>3. \A i \in 1 .. p - 1 - b : u[b + i] = s[b + e + i]
        <5> TAKE i \in 1 .. p - 1 - b
        <5>1. b + i \in 1 .. n /\ e + (b + i) = b + e + i
          BY <1>5
        <5> QED BY <1>4, <5>1
      <4> HIDE DEF x, y
      <4>4. x = y
        BY <4>1, <4>2, <4>3, SeqEqual
      <4> QED BY <4>4 DEF x, y
    <3>3. Counted(s, ls, blanks, k, b + e, p + e)
      BY <1>1, <1>8, <3>1 DEF Decodings
    <3>4. CASE k[p + e] = k[b + e] + 1 /\ Strip(SubSeq(s, b + e + 1, p + e - 1)) = ls[k[p + e]]
      <4>1. h[p] = h[b] + 1 /\ h[p] \in 1 .. Len(rest) /\ h[p] + k[e] = k[p + e]
        <5>1. h[p] = k[p + e] - k[e] /\ h[b] = k[b + e] - k[e]
          OBVIOUS
        <5>2. k[b + e] \in 0 .. Len(ls) /\ k[e] <= k[b + e] /\ k[p + e] \in 0 .. Len(ls)
          BY <1>8
        <5>3. k[p + e] = k[b + e] + 1
          BY <3>4
        <5>4. Len(rest) = Len(ls) - k[e]
          BY <1>10
        <5> HIDE DEF h
        <5>5. h[p] = h[b] + 1 /\ h[p] + k[e] = k[p + e]
          <6>1. \A x, y, z \in Int : z = x + 1 => z - y = (x - y) + 1 /\ (z - y) + y = z
            OBVIOUS
          <6>2. k[e] \in Int /\ k[b + e] \in Int /\ k[p + e] \in Int
            BY <1>5, <1>9, <5>2
          <6>3. k[p + e] - k[e] = (k[b + e] - k[e]) + 1 /\ (k[p + e] - k[e]) + k[e] = k[p + e]
            BY <5>3, <6>1, <6>2
          <6> QED BY <5>1, <6>3
        <5>6. h[b] \in Nat /\ h[p] \in Int /\ h[p] <= Len(rest) /\ Len(rest) \in Nat
          <6>1. \A x, y, z, l \in Int : x >= y /\ z <= l => x - y \in Nat /\ z - y \in Int /\ z - y <= l - y
            OBVIOUS
          <6>2. Len(ls) \in Int /\ k[e] \in Int /\ k[b + e] \in Int /\ k[p + e] \in Int /\ k[p + e] <= Len(ls)
            BY <1>5, <1>9, <5>2
          <6>3. k[b + e] >= k[e]
            BY <5>2, <6>2
          <6>4. /\ k[b + e] - k[e] \in Nat /\ k[p + e] - k[e] \in Int
                /\ k[p + e] - k[e] <= Len(ls) - k[e]
            BY <6>1, <6>2, <6>3
          <6>5. Len(rest) \in Nat
            OBVIOUS
          <6> QED BY <5>1, <5>4, <6>4, <6>5, Zenon
        <5>7. h[p] \in 1 .. Len(rest)
          BY <5>5, <5>6
        <5> QED BY <5>5, <5>7
      <4>2. rest[h[p]] = ls[k[p + e]]
        BY <1>10, <4>1
      <4> HIDE DEF h
      <4> QED BY <3>2, <3>4, <4>1, <4>2 DEF Counted
    <3>5. CASE blanks /\ k[p + e] = k[b + e] /\ Strip(SubSeq(s, b + e + 1, p + e - 1)) = <<>>
      BY <3>2, <3>5 DEF Counted
    <3> QED BY <3>3, <3>4, <3>5 DEF Counted
  <2>5. ASSUME whole
        PROVE  /\ h[Len(u)] = Len(rest)
               /\ \A i \in 1 .. n : u[i] # "\r" => \E p \in i .. n : u[p] = "\n"
    <3>1. k[Len(s)] = Len(ls)
      BY <1>1, <2>5 DEF Decodings
    <3>2. h[n] = Len(rest)
      <4>1. n + e = Len(s) /\ n \in 0 .. n
        BY <1>5
      <4>2. h[n] = k[n + e] - k[e]
        BY <4>1
      <4> QED BY <1>10, <3>1, <4>1, <4>2
    <3>3. ASSUME NEW i \in 1 .. n, u[i] # "\r" PROVE \E p \in i .. n : u[p] = "\n"
      <4>1. e + i \in 1 .. Len(s) /\ s[e + i] # "\r"
        BY <1>4, <1>5, <3>3
      <4>2. PICK p \in e + i .. Len(s) : s[p] = "\n"
        BY <1>1, <2>5, <4>1 DEF Decodings
      <4>3. p - e \in i .. n /\ p - e \in 1 .. n /\ e + (p - e) = p
        BY <1>5
      <4> QED BY <1>4, <4>2, <4>3
    <3> QED BY <1>4, <3>2, <3>3
  <2> HIDE DEF h
  <2>6. h \in Decodings(u, rest, blanks, whole)
    BY <1>4, <2>1, <2>2, <2>3, <2>4, <2>5 DEF Decodings
  <2> QED BY <2>6
<1> HIDE DEF h
<1>11. CASE k[e] = 1 /\ Strip(SubSeq(s, 1, e - 1)) = ls[1]
  <2>1. Len(ls) # 0 /\ ls # <<>>
    BY <1>5, <1>9, <1>11
  <2>2. Tail(ls) \in Seq(LineText) /\ Len(Tail(ls)) = Len(ls) - 1 /\ Head(ls) = ls[1]
    BY <2>1
  <2>3. \A i \in 1 .. Len(Tail(ls)) : Tail(ls)[i] = ls[i + 1]
    BY <2>1
  <2>4. Decodings(u, Tail(ls), blanks, whole) # {}
    BY <1>10, <1>11, <2>2, <2>3
  <2> QED BY <1>3, <1>11, <2>1, <2>2, <2>4
<1>12. CASE blanks /\ k[e] = 0 /\ Strip(SubSeq(s, 1, e - 1)) = <<>>
  <2>1. Len(ls) = Len(ls) - k[e] /\ \A i \in 1 .. Len(ls) : ls[i] = ls[i + k[e]]
    BY <1>5, <1>12
  <2>2. Decodings(u, ls, blanks, whole) # {}
    BY <1>10, <2>1
  <2> QED BY <1>3, <1>12, <2>2
<1> QED BY <1>7, <1>11, <1>12

\* A line and its terminator behind a whole text is one more line.
LEMMA DecodeMore ==
    ASSUME NEW s \in Seq(StreamChar), NEW ls \in Seq(LineText), NEW ms \in Seq(LineText), NEW blanks,
           Decodings(s, ls, blanks, TRUE) # {}, NEW line \in LineText, NEW t \in Terminator,
           ms = Append(ls, line) \/ (blanks /\ line = <<>> /\ ms = ls)
    PROVE  Decodings((s \o line) \o t, ms, blanks, TRUE) # {}
<1>1. PICK k \in Decodings(s, ls, blanks, TRUE) : TRUE
  OBVIOUS
<1>2. PICK n \in Nat, l \in Nat, c \in Nat : n = Len(s) /\ l = Len(line) /\ c = Len(ls)
  BY LineTextFacts
<1>3. line \in Seq(StreamChar) /\ \A i \in 1 .. l : line[i] # "\r" /\ line[i] # "\n"
  BY <1>2, LineTextFacts
<1>4. PICK u : u = (s \o line) \o t
  OBVIOUS
<1>5. PICK e \in Nat : e = n + l + 1
  OBVIOUS
<1>6. /\ u \in Seq(StreamChar)
      /\ Len(u) = e \/ Len(u) = e + 1
      /\ \A i \in 1 .. n : u[i] = s[i]
      /\ \A i \in 1 .. l : u[n + i] = line[i]
      /\ u[e] = "\n"
      /\ \A i \in e + 1 .. Len(u) : u[i] = "\r"
  <2>1. PICK v : v = s \o line
    OBVIOUS
  <2>2. /\ v \in Seq(StreamChar) /\ Len(v) = n + l /\ \A i \in 1 .. n : v[i] = s[i]
        /\ \A i \in 1 .. l : v[n + i] = line[i]
    BY <1>2, <1>3, <2>1, ConcatFacts
  <2>3. /\ t \in Seq(StreamChar) /\ (Len(t) = 1 \/ Len(t) = 2)
        /\ t[1] = "\n" /\ (Len(t) = 2 => t[2] = "\r")
    BY TerminatorFacts
  <2>4. /\ u \in Seq(StreamChar) /\ Len(u) = Len(v) + Len(t)
        /\ \A i \in 1 .. Len(v) : u[i] = v[i]
        /\ \A i \in 1 .. Len(t) : u[Len(v) + i] = t[i]
    <3>1. u = v \o t /\ v \in Seq(StreamChar) /\ t \in Seq(StreamChar)
      BY <1>4, <2>1, <2>2, <2>3
    <3> QED BY <3>1, ConcatFacts
  <2>5. Len(u) = e \/ Len(u) = e + 1
    <3>1. Len(u) = n + l + 1 \/ Len(u) = n + l + 2
      BY <2>2, <2>3, <2>4
    <3> QED BY <1>5, <3>1
  <2>6. \A i \in 1 .. n : u[i] = s[i]
    BY <2>2, <2>4
  <2>7. \A i \in 1 .. l : u[n + i] = line[i]
    <3> TAKE i \in 1 .. l
    <3>1. n + i \in 1 .. Len(v)
      BY <2>2
    <3> QED BY <2>2, <2>4, <3>1
  <2>8. u[e] = "\n"
    <3>1. 1 \in 1 .. Len(t) /\ e = Len(v) + 1
      BY <1>5, <2>2, <2>3
    <3> QED BY <2>3, <2>4, <3>1
  <2>9. \A i \in e + 1 .. Len(u) : u[i] = "\r"
    <3> TAKE i \in e + 1 .. Len(u)
    <3>1. Len(u) = e + 1 /\ i = n + l + 2
      BY <1>5, <2>5
    <3>2. Len(v) = n + l /\ Len(t) = 2
      BY <1>5, <2>2, <2>3, <2>4, <3>1
    <3>3. u[Len(v) + 2] = t[2]
      <4>1. 2 \in 1 .. Len(t)
        BY <3>2
      <4> QED BY <2>4, <4>1
    <3> QED BY <2>3, <3>1, <3>2, <3>3
  <2> QED BY <2>4, <2>5, <2>6, <2>7, <2>8, <2>9
<1>7. PICK d \in Nat : d = Len(ms)
  OBVIOUS
<1>8. \/ d = c + 1 /\ ms[d] = line /\ \A i \in 1 .. c : ms[i] = ls[i]
      \/ d = c /\ blanks /\ line = <<>> /\ \A i \in 1 .. c : ms[i] = ls[i]
  <2>1. CASE ms = Append(ls, line)
    BY <1>2, <1>7, <2>1
  <2>2. CASE blanks /\ line = <<>> /\ ms = ls
    BY <1>2, <1>7, <2>2
  <2> QED BY <2>1, <2>2
<1>9. c <= d /\ \A i \in 1 .. c : ms[i] = ls[i]
  BY <1>8
<1>10. /\ k \in [0 .. n -> 0 .. c] /\ k[0] = 0 /\ k[n] = c
       /\ \A b, p \in 0 .. n : b <= p => k[b] <= k[p]
       /\ \A b, p \in 0 .. n : b <= p /\ (\A i \in b + 1 .. p : s[i] # "\n") => k[b] = k[p]
       /\ \A b, p \in 0 .. n : NextEnd(s, b, p) => Counted(s, ls, blanks, k, b, p)
       /\ \A i \in 1 .. n : s[i] # "\r" => \E p \in i .. n : s[p] = "\n"
  BY <1>1, <1>2 DEF Decodings
<1> DEFINE h == [p \in 0 .. Len(u) |-> IF p <= n THEN k[p] ELSE IF p < e THEN c ELSE d]
<1>11. Len(u) \in Nat /\ n < e /\ e <= Len(u)
  BY <1>5, <1>6
<1>12. \A p \in 0 .. n : h[p] = k[p] /\ h[p] \in 0 .. c
  BY <1>10, <1>11
<1>13. \A p \in n .. e - 1 : h[p] = c
  BY <1>10, <1>11
<1>14. \A p \in e .. Len(u) : h[p] = d
  BY <1>11
<1> HIDE DEF h
<1>15. \A i \in 1 .. Len(u) : (i <= n => u[i] = s[i]) /\ (i > n /\ i < e => u[i] # "\n")
  <2> TAKE i \in 1 .. Len(u)
  <2>1. ASSUME i > n, i < e PROVE u[i] # "\n"
    <3>1. i - n \in 1 .. l /\ n + (i - n) = i
      BY <1>5, <2>1
    <3> QED BY <1>3, <1>6, <3>1
  <2> QED BY <1>6, <2>1
<1>16. h \in [0 .. Len(u) -> 0 .. d] /\ h[0] = 0
  <2>1. \A p \in 0 .. Len(u) : h[p] \in 0 .. d
    <3> TAKE p \in 0 .. Len(u)
    <3>1. CASE p <= n
      <4>1. h[p] \in 0 .. c
        BY <1>12, <3>1
      <4> QED BY <1>9, <4>1
    <3>2. CASE p > n /\ p < e
      BY <1>9, <1>13, <3>2
    <3>3. CASE p >= e
      BY <1>14, <3>3
    <3> QED BY <1>11, <3>1, <3>2, <3>3
  <2>2. h[0] = 0
    BY <1>10, <1>12
  <2> QED BY <2>1, <2>2 DEF h
<1>17. ASSUME NEW b \in 0 .. Len(u), NEW p \in 0 .. Len(u), b <= p PROVE h[b] <= h[p]
  <2>1. CASE p <= n
    <3>1. b \in 0 .. n /\ p \in 0 .. n
      BY <1>17, <2>1
    <3> QED BY <1>10, <1>12, <1>17, <3>1
  <2>2. CASE p > n /\ p < e
    <3>1. h[p] = c
      BY <1>13, <2>2
    <3>2. h[b] <= c
      BY <1>12, <1>13, <1>17, <2>2
    <3> QED BY <3>1, <3>2
  <2>3. CASE p >= e
    <3>1. h[p] = d
      BY <1>14, <2>3
    <3> QED BY <1>16, <3>1
  <2> QED BY <1>11, <2>1, <2>2, <2>3
<1>18. ASSUME NEW b \in 0 .. Len(u), NEW p \in 0 .. Len(u), b <= p,
              \A i \in b + 1 .. p : u[i] # "\n"
       PROVE  h[b] = h[p]
  <2>1. b >= e \/ p < e
    BY <1>6, <1>11, <1>18
  <2>2. CASE b >= e
    BY <1>14, <1>18, <2>2
  <2>3. CASE p < e /\ b >= n
    BY <1>13, <1>18, <2>3
  <2>4. CASE b < n /\ p >= n /\ p < e
    <3>1. \A i \in b + 1 .. n : s[i] # "\n"
      BY <1>15, <1>18, <2>4, <1>11
    <3>2. b \in 0 .. n /\ n \in 0 .. n /\ b <= n
      BY <2>4
    <3>3. k[b] = k[n]
      BY <1>10, <3>1, <3>2
    <3> QED BY <1>10, <1>12, <1>13, <2>4, <3>2, <3>3
  <2>5. CASE p < n
    <3>1. \A i \in b + 1 .. p : s[i] # "\n"
      BY <1>15, <1>18, <2>5, <1>11
    <3>2. b \in 0 .. n /\ p \in 0 .. n
      BY <1>18, <2>5
    <3>3. k[b] = k[p]
      BY <1>10, <1>18, <3>1, <3>2
    <3> QED BY <1>12, <3>2, <3>3
  <2> QED BY <2>1, <2>2, <2>3, <2>4, <2>5
<1>19. ASSUME NEW b \in 0 .. Len(u), NEW p \in 0 .. Len(u), NextEnd(u, b, p)
       PROVE  Counted(u, ms, blanks, h, b, p)
  <2>1. /\ b < p /\ (b = 0 \/ u[b] = "\n") /\ u[p] = "\n"
        /\ \A i \in b + 1 .. p - 1 : u[i] # "\n"
    BY <1>19 DEF NextEnd
  <2>2. p <= n \/ p = e
    BY <1>6, <1>11, <1>15, <2>1
  <2>3. CASE p <= n
    <3>1. b \in 0 .. n /\ p \in 0 .. n
      BY <2>1, <2>3
    <3>2. NextEnd(s, b, p)
      <4>1. b = 0 \/ s[b] = "\n"
        BY <1>15, <2>1, <2>3, <3>1
      <4>2. s[p] = "\n"
        BY <1>15, <2>1, <2>3
      <4>3. ASSUME NEW i \in b + 1 .. p - 1 PROVE s[i] # "\n"
        <5>1. i \in 1 .. Len(u) /\ i <= n
          BY <1>11, <2>1, <2>3, <3>1
        <5> QED BY <1>15, <2>1, <5>1
      <4> QED BY <1>2, <2>1, <3>1, <4>1, <4>2, <4>3 DEF NextEnd
    <3>3. Counted(s, ls, blanks, k, b, p)
      BY <1>10, <3>1, <3>2
    <3>4. SubSeq(u, b + 1, p - 1) = SubSeq(s, b + 1, p - 1)
      <4>1. ASSUME NEW i \in b + 1 .. p - 1 PROVE u[i] = s[i] /\ u[i] \in StreamChar
        <5>1. i \in 1 .. Len(u) /\ i <= n
          BY <1>11, <2>1, <2>3, <3>1
        <5> QED BY <1>6, <1>15, <5>1
      <4> QED BY <4>1
    <3>5. h[b] = k[b] /\ h[p] = k[p] /\ k[p] \in 0 .. c /\ k[b] \in 0 .. c
      BY <1>12, <3>1
    <3>6. k[p] = k[b] + 1 => ms[k[p]] = ls[k[p]]
      BY <1>9, <3>5
    <3> QED BY <3>3, <3>4, <3>5, <3>6 DEF Counted
  <2>4. CASE p = e
    <3>1. b \in 0 .. n
      <4>1. b = 0 \/ ~(b > n /\ b < e)
        BY <1>15, <2>1
      <4> QED BY <2>1, <2>4, <4>1
    <3>2. \A i \in b + 1 .. n : s[i] # "\n"
      BY <1>11, <1>15, <2>1, <2>4
    <3>3. h[b] = c
      <4>1. n \in 0 .. n /\ b <= n
        BY <3>1
      <4>2. k[b] = k[n]
        BY <1>10, <3>1, <3>2, <4>1
      <4> QED BY <1>10, <1>12, <3>1, <4>2
    <3>4. \A i \in b + 1 .. n : u[i] = "\r"
      <4> TAKE i \in b + 1 .. n
      <4> SUFFICES ASSUME u[i] # "\r" PROVE FALSE
        OBVIOUS
      <4>1. i \in 1 .. n /\ s[i] # "\r"
        BY <1>6, <3>1
      <4>2. PICK x \in i .. n : s[x] = "\n"
        BY <1>10, <4>1
      <4> QED BY <3>1, <3>2, <4>2
    <3> DEFINE x == SubSeq(u, b + 1, e - 1)
               a == n - b
    <3>5. a \in Nat /\ e - 1 - b = a + l
      BY <1>5, <3>1
    <3>6. /\ x \in Seq(StreamChar) /\ Len(x) = a + l
          /\ \A i \in 1 .. a + l : x[i] = u[b + i]
      <4>1. \A i \in b + 1 .. e - 1 : u[i] \in StreamChar
        <5> TAKE i \in b + 1 .. e - 1
        <5>1. i \in 1 .. Len(u)
          BY <1>11, <3>1
        <5> QED BY <1>6, <5>1
      <4>2. x \in Seq(StreamChar)
        BY <4>1
      <4>3. Len(x) = a + l /\ \A i \in 1 .. a + l : x[i] = u[b + i]
        BY <3>1, <3>5
      <4> QED BY <4>2, <4>3
    <3> HIDE DEF x
    <3>7. \A i \in 1 .. a : x[i] = "\r"
      <4> TAKE i \in 1 .. a
      <4>1. i \in 1 .. a + l /\ b + i \in b + 1 .. n
        BY <3>1, <3>5
      <4> HIDE DEF a
      <4> QED BY <3>4, <3>6, <4>1
    <3>8. \A i \in 1 .. l : x[a + i] = line[i]
      <4> TAKE i \in 1 .. l
      <4>1. a + i \in 1 .. a + l /\ b + (a + i) = n + i
        BY <3>1, <3>5
      <4> QED BY <1>6, <3>6, <4>1
    <3> HIDE DEF a
    <3>9. Strip(x) = line
      BY <1>2, <3>5, <3>6, <3>7, <3>8, StripLine
    <3>10. h[e] = d
      BY <1>11, <1>14
    <3> QED BY <1>8, <2>4, <3>3, <3>9, <3>10 DEF Counted, x
  <2> QED BY <2>2, <2>3, <2>4
<1>20. h[Len(u)] = d
  BY <1>11, <1>14
<1>21. ASSUME NEW i \in 1 .. Len(u), u[i] # "\r" PROVE \E p \in i .. Len(u) : u[p] = "\n"
  <2>1. i <= e
    BY <1>6, <1>11, <1>21
  <2>2. e \in i .. Len(u)
    BY <1>11, <2>1
  <2> QED BY <1>6, <2>2
<1>22. h \in Decodings(u, ms, blanks, TRUE)
  BY <1>7, <1>16, <1>17, <1>18, <1>19, <1>20, <1>21 DEF Decodings
<1> QED BY <1>4, <1>22

\* Lines and their terminators behind a whole text are as many lines more.
LEMMA DecodeLines ==
    ASSUME NEW s \in Seq(StreamChar), NEW ls \in Seq(LineText), NEW ns \in Seq(LineText), NEW blanks,
           Decodings(s, ls, blanks, TRUE) # {}, NEW t \in Terminator
    PROVE  /\ Terminated(ns, t) \in Seq(StreamChar)
           /\ Decodings(s \o Terminated(ns, t), ls \o ns, blanks, TRUE) # {}
<1>1. PICK n \in Nat : n = Len(ns)
  OBVIOUS
<1>2. t \in Seq(StreamChar)
  BY TerminatorFacts
<1>3. \A i \in 1 .. n : ns[i] \in LineText /\ ns[i] \in Seq(StreamChar)
  BY <1>1, LineTextFacts
<1>4. PICK seqs : seqs = [i \in 1 .. n |-> ns[i] \o t]
  OBVIOUS
<1>5. seqs \in Seq(Seq(StreamChar)) /\ Len(seqs) = n /\ \A i \in 1 .. n : seqs[i] = ns[i] \o t
  <2>1. \A i \in 1 .. n : ns[i] \o t \in Seq(StreamChar)
    BY <1>2, <1>3, ConcatFacts
  <2> QED BY <1>4, <2>1
<1>6. Terminated(ns, t) = FlattenSeq(seqs)
  <2>1. DOMAIN ns = 1 .. n
    BY <1>1
  <2> QED BY <1>4, <2>1, Zenon DEF Terminated
<1>7. PICK p \in Joins(StreamChar, seqs) : TRUE
  BY <1>5, FlattenJoins
<1>8. /\ p \in [0 .. n -> Seq(StreamChar)] /\ p[0] = <<>> /\ p[n] = Terminated(ns, t)
      /\ \A i \in 1 .. n : p[i] = p[i - 1] \o seqs[i]
  BY <1>5, <1>6, <1>7, Zenon DEF Joins
<1> DEFINE Sent(i) == ls \o SubSeq(ns, 1, i)
           Fits(i) == Decodings(s \o p[i], Sent(i), blanks, TRUE) # {}
<1>9. Fits(0)
  <2>1. s \o p[0] = s
    BY <1>8, ConcatEmptySeq
  <2>2. SubSeq(ns, 1, 0) = <<>>
    BY SubSeqEmpty
  <2>3. Sent(0) = ls
    BY <2>2, ConcatEmptySeq
  <2> HIDE DEF Sent
  <2> QED BY <2>1, <2>3
<1>10. ASSUME NEW i \in 0 .. n, NEW j \in 1 .. n, j = i + 1, Fits(i) PROVE Fits(j)
  <2>1. p[j] = p[i] \o (ns[j] \o t)
    <3>1. j - 1 = i
      BY <1>10
    <3> QED BY <1>5, <1>8, <3>1
  <2>2. PICK x, q, line : x = p[i] /\ q = s \o x /\ line = ns[j]
    OBVIOUS
  <2>3. x \in Seq(StreamChar) /\ q \in Seq(StreamChar) /\ line \in Seq(StreamChar) /\ line \in LineText
    BY <1>3, <1>8, <2>2, ConcatFacts
  <2>4. s \o p[j] = (q \o line) \o t
    <3>1. s \o (x \o (line \o t)) = ((s \o x) \o line) \o t
      <4>1. Regrouped(s, x, line, t)
        BY <1>2, <2>3, ConcatSplit
      <4> QED BY <4>1, Zenon DEF Regrouped
    <3> QED BY <2>1, <2>2, <3>1
  <2>5. Sent(i) \in Seq(LineText) /\ Sent(j) = Append(Sent(i), line)
    <3>1. PICK a : a = SubSeq(ns, 1, i)
      OBVIOUS
    <3>2. a \in Seq(LineText)
      <4>1. \A k \in 1 .. i : ns[k] \in LineText
        BY <1>3
      <4> QED BY <3>1, <4>1
    <3>3. SubSeq(ns, 1, j) = a \o <<line>>
      <4>1. j - 1 = i /\ 1 \in 1 .. Len(ns) /\ j \in 1 .. Len(ns)
        BY <1>1, <1>10
      <4> QED BY <2>2, <3>1, <4>1, SubSeqRecursiveSecond
    <3>4. ls \o (a \o <<line>>) = (ls \o a) \o <<line>>
      <4>1. <<line>> \in Seq(LineText)
        BY <2>3
      <4> QED BY <3>2, <4>1, ConcatAssociative
    <3>5. ls \o a \in Seq(LineText)
      BY <3>2, ConcatFacts
    <3>6. Append(ls \o a, line) = (ls \o a) \o <<line>>
      BY <2>3, <3>5, AppendIsConcat
    <3> QED BY <3>1, <3>3, <3>4, <3>5, <3>6
  <2> HIDE DEF Sent
  <2>6. Decodings(q, Sent(i), blanks, TRUE) # {}
    BY <1>10, <2>2
  <2>7. Append(Sent(i), line) \in Seq(LineText)
    BY <2>3, <2>5
  <2>8. Decodings((q \o line) \o t, Append(Sent(i), line), blanks, TRUE) # {}
    BY <2>3, <2>5, <2>6, <2>7, DecodeMore
  <2> QED BY <2>4, <2>5, <2>8
<1>11. Sent(n) = ls \o ns
  BY <1>1, SubSeqFull
<1> HIDE DEF Sent
<1>12. Fits(n)
  <2> HIDE DEF Fits
  <2> DEFINE T == {i \in Nat : i <= n => Fits(i)}
  <2>1. 0 \in T
    BY <1>9
  <2>2. ASSUME NEW i \in Nat, i \in T PROVE i + 1 \in T
    <3>1. CASE i + 1 <= n
      <4>1. i \in 0 .. n /\ i + 1 \in 1 .. n /\ Fits(i)
        BY <2>2, <3>1
      <4>2. Fits(i + 1)
        BY <1>10, <4>1
      <4> QED BY <4>2
    <3>2. CASE ~(i + 1 <= n)
      BY <3>2
    <3> QED BY <3>1, <3>2
  <2>3. n \in T
    <3> HIDE DEF T
    <3> QED BY <2>1, <2>2, NatSetInduction
  <2> QED BY <2>3
<1>13. p[n] \in Seq(StreamChar)
  BY <1>8
<1> QED BY <1>8, <1>11, <1>12, <1>13

\* The beginning of a text that nothing has been sent in.
LEMMA DecodeNothing ==
    ASSUME NEW blanks
    PROVE  Decodings(<<>>, <<>>, blanks, TRUE) # {}
<1> DEFINE k == [p \in 0 .. 0 |-> 0]
<1>1. k \in [0 .. 0 -> 0 .. 0] /\ k[0] = 0 /\ Len(<<>>) = 0
  OBVIOUS
<1>2. \A b, p \in 0 .. 0 : ~NextEnd(<<>>, b, p)
  BY DEF NextEnd
<1> HIDE DEF k
<1>3. k \in Decodings(<<>>, <<>>, blanks, TRUE)
  BY <1>1, <1>2 DEF Decodings
<1> QED BY <1>3

\* Where empty lines are not allowed there are none.
LEMMA DecodeBlanks ==
    ASSUME NEW s, NEW ls, NEW whole, Decodings(s, ls, FALSE, whole) # {}
    PROVE  Decodings(s, ls, TRUE, whole) # {}
<1>1. PICK k \in Decodings(s, ls, FALSE, whole) : TRUE
  OBVIOUS
<1>2. \A b, p : Counted(s, ls, FALSE, k, b, p) => Counted(s, ls, TRUE, k, b, p)
  BY DEF Counted
<1>3. k \in Decodings(s, ls, TRUE, whole)
  BY <1>1, <1>2, Zenon DEF Decodings
<1> QED BY <1>3

\* A whole text without a line end holds no line.
LEMMA DecodeEmpty ==
    ASSUME NEW s \in Seq(StreamChar), NEW ls \in Seq(LineText), NEW blanks,
           Decodings(s, ls, blanks, TRUE) # {}, \A i \in 1 .. Len(s) : s[i] # "\n"
    PROVE  ls = <<>>
<1>1. PICK k \in Decodings(s, ls, blanks, TRUE) : TRUE
  OBVIOUS
<1>2. k[0] = k[Len(s)]
  BY <1>1 DEF Decodings
<1>3. Len(ls) = 0
  BY <1>1, <1>2 DEF Decodings
<1> QED BY <1>3, EmptySeq

-----------------------------------------------------------------------------
(* Reading from the stream *)

\* What is not in the buffer yet follows what is.
LEMMA ChunkText ==
    ASSUME NEW s \in Seq(StreamChar), NEW r \in Seq(StreamChar), NEW n \in 1 .. Len(r)
    PROVE  /\ s \o SubSeq(r, 1, n) \in Seq(StreamChar) /\ SubSeq(r, n + 1, Len(r)) \in Seq(StreamChar)
           /\ (s \o SubSeq(r, 1, n)) \o SubSeq(r, n + 1, Len(r)) = s \o r
<1>1. PICK a, b : a = SubSeq(r, 1, n) /\ b = SubSeq(r, n + 1, Len(r))
  OBVIOUS
<1>2. a \in Seq(StreamChar) /\ b \in Seq(StreamChar) /\ r = a \o b
  BY <1>1
<1>3. (s \o a) \o b = s \o (a \o b)
  BY <1>2, ConcatAssociative
<1>4. s \o a \in Seq(StreamChar)
  BY <1>2, ConcatFacts
<1> QED BY <1>1, <1>2, <1>3, <1>4

\* The first line end of the buffer is the first of all that is to be read.
LEMMA FirstLineEnd ==
    ASSUME NEW s \in Seq(StreamChar), "\n" \in ToSet(s)
    PROVE  LET e == SelectInSeq(s, LAMBDA c : c = "\n")
           IN e \in 1 .. Len(s) /\ s[e] = "\n" /\ \A i \in 1 .. e - 1 : s[i] # "\n"
<1> DEFINE I == {i \in 1 .. Len(s) : s[i] = "\n"}
           e == SelectInSeq(s, LAMBDA c : c = "\n")
<1>1. I # {} /\ I \subseteq Nat
  BY DEF ToSet
<1>2. e = Min(I)
  BY <1>1 DEF SelectInSeq
<1>3. e \in I /\ \A y \in I : e <= y
  <2> HIDE DEF I, e
  <2>1. \E x \in I : \A y \in I : x <= y
    BY <1>1, LeastNumber
  <2> QED BY <1>2, <2>1 DEF Min
<1> HIDE DEF e
<1> QED BY <1>3 DEF e

LEMMA CutText ==
    ASSUME NEW s \in Seq(StreamChar), NEW r \in Seq(StreamChar), NEW e \in 1 .. Len(s), s[e] = "\n",
           \A i \in 1 .. e - 1 : s[i] # "\n"
    PROVE  /\ s \o r \in Seq(StreamChar) /\ e \in 1 .. Len(s \o r) /\ NextEnd(s \o r, 0, e)
           /\ SubSeq(s \o r, 1, e - 1) = SubSeq(s, 1, e - 1)
           /\ SubSeq(s, e + 1, Len(s)) \in Seq(StreamChar)
           /\ SubSeq(s \o r, e + 1, Len(s \o r)) = SubSeq(s, e + 1, Len(s)) \o r
<1>1. PICK x : x = s \o r
  OBVIOUS
<1>2. PICK n \in Nat, m \in Nat : n = Len(s) /\ m = Len(r)
  OBVIOUS
<1>3. /\ x \in Seq(StreamChar) /\ Len(x) = n + m
      /\ \A i \in 1 .. n : x[i] = s[i]
      /\ \A i \in 1 .. m : x[n + i] = r[i]
  BY <1>1, <1>2, ConcatFacts
<1>4. NextEnd(x, 0, e) /\ e \in 1 .. Len(x)
  BY <1>2, <1>3 DEF NextEnd
<1>5. SubSeq(x, 1, e - 1) = SubSeq(s, 1, e - 1)
  <2>1. \A i \in 1 .. e - 1 : x[i] = s[i] /\ s[i] \in StreamChar
    BY <1>2, <1>3
  <2> QED BY <1>2, <2>1
<1>6. PICK d \in Nat : d = n - e
  <2>1. n - e \in Nat
    BY <1>2
  <2> QED BY <2>1
<1>7. n = e + d /\ n + m = e + (d + m)
  BY <1>2, <1>6
<1>8. PICK u : u = SubSeq(s, e + 1, n)
  OBVIOUS
<1>9. u \in Seq(StreamChar) /\ Len(u) = d /\ \A i \in 1 .. d : u[i] = s[e + i]
  <2>1. \A i \in e + 1 .. n : s[i] \in StreamChar
    BY <1>2
  <2>2. u \in Seq(StreamChar)
    BY <1>8, <2>1
  <2>3. Len(u) = d /\ \A i \in 1 .. d : u[i] = s[e + i]
    BY <1>2, <1>7, <1>8
  <2> QED BY <2>2, <2>3
<1>10. PICK v, w : v = SubSeq(x, e + 1, n + m) /\ w = u \o r
  OBVIOUS
<1>11. v \in Seq(StreamChar) /\ Len(v) = d + m /\ \A i \in 1 .. d + m : v[i] = x[e + i]
  <2>1. PICK q \in Nat : q = n + m
    BY <1>2
  <2>2. \A i \in e + 1 .. q : x[i] \in StreamChar
    <3>1. Len(x) = q
      BY <1>3, <2>1
    <3> QED BY <1>3, <3>1
  <2>3. v = SubSeq(x, e + 1, q) /\ q = e + (d + m)
    BY <1>7, <1>10, <2>1
  <2>4. v \in Seq(StreamChar)
    BY <2>2, <2>3
  <2>5. Len(v) = d + m /\ \A i \in 1 .. d + m : v[i] = x[e + i]
    <3>1. Len(x) = q
      BY <1>3, <2>1
    <3> QED BY <1>3, <2>3, <3>1
  <2> QED BY <2>4, <2>5
<1>12. u \o r \in Seq(StreamChar) /\ Parts(u, r)
  BY <1>9, ConcatParts, Zenon
<1>13. w \in Seq(StreamChar) /\ Len(w) = d + m
  BY <1>2, <1>9, <1>10, <1>12, Zenon DEF Parts
<1>14. (\A i \in 1 .. d : w[i] = u[i]) /\ \A i \in 1 .. m : w[d + i] = r[i]
  BY <1>2, <1>9, <1>10, <1>12, Zenon DEF Parts
<1>15. ASSUME NEW i \in 1 .. d + m PROVE v[i] = w[i]
  <2>1. CASE i <= d
    <3>1. i \in 1 .. d /\ e + i \in 1 .. n
      BY <1>7, <2>1
    <3> QED BY <1>3, <1>9, <1>11, <1>14, <3>1
  <2>2. CASE i > d
    <3>1. PICK j \in 1 .. m : i = d + j
      <4>1. i - d \in 1 .. m /\ i = d + (i - d)
        BY <2>2
      <4> QED BY <4>1
    <3>2. e + i = n + j
      BY <1>7, <3>1
    <3> QED BY <1>3, <1>11, <1>14, <3>1, <3>2
  <2> QED BY <2>1, <2>2
<1>16. v = w
  <2>1. PICK z \in Nat : z = d + m
    BY <1>2
  <2> QED BY <1>11, <1>13, <1>15, <2>1, SeqEqual
<1>17. Len(s) = n /\ Len(x) = n + m
  BY <1>2, <1>3
<1> QED BY <1>1, <1>3, <1>4, <1>5, <1>8, <1>9, <1>10, <1>16, <1>17

\* What read_line() cuts off is the next line, or one that may be skipped.
LEMMA CutLine ==
    ASSUME NEW s \in Seq(StreamChar), NEW r \in Seq(StreamChar), NEW ls \in Seq(LineText), NEW blanks,
           NEW whole \in BOOLEAN, Decodings(s \o r, ls, blanks, whole) # {},
           "\n" \in ToSet(s)
    PROVE  LET e == SelectInSeq(s, LAMBDA c : c = "\n")
               line == Strip(SubSeq(s, 1, e - 1))
               u == SubSeq(s, e + 1, Len(s))
           IN /\ u \in Seq(StreamChar)
              /\ \/ ls # <<>> /\ line = Head(ls) /\ Decodings(u \o r, Tail(ls), blanks, whole) # {}
                 \/ blanks /\ line = <<>> /\ Decodings(u \o r, ls, blanks, whole) # {}
<1> DEFINE e == SelectInSeq(s, LAMBDA c : c = "\n")
<1>1. e \in 1 .. Len(s) /\ s[e] = "\n" /\ \A i \in 1 .. e - 1 : s[i] # "\n"
  BY FirstLineEnd
<1> HIDE DEF e
<1>2. /\ s \o r \in Seq(StreamChar) /\ e \in 1 .. Len(s \o r) /\ NextEnd(s \o r, 0, e)
      /\ SubSeq(s \o r, 1, e - 1) = SubSeq(s, 1, e - 1)
      /\ SubSeq(s, e + 1, Len(s)) \in Seq(StreamChar)
      /\ SubSeq(s \o r, e + 1, Len(s \o r)) = SubSeq(s, e + 1, Len(s)) \o r
  BY <1>1, CutText, Zenon
<1>3. PICK x : x = s \o r
  OBVIOUS
<1>4. \/ /\ ls # <<>> /\ Strip(SubSeq(x, 1, e - 1)) = Head(ls)
         /\ Decodings(SubSeq(x, e + 1, Len(x)), Tail(ls), blanks, whole) # {}
      \/ /\ blanks /\ Strip(SubSeq(x, 1, e - 1)) = <<>>
         /\ Decodings(SubSeq(x, e + 1, Len(x)), ls, blanks, whole) # {}
  <2>1. x \in Seq(StreamChar) /\ e \in 1 .. Len(x) /\ NextEnd(x, 0, e) /\ Decodings(x, ls, blanks, whole) # {}
    BY <1>2, <1>3, Zenon
  <2> SUFFICES ASSUME Decodings(x, ls, blanks, whole) # {}, x \in Seq(StreamChar), e \in 1 .. Len(x),
                      NextEnd(x, 0, e)
               PROVE  \/ /\ ls # <<>> /\ Strip(SubSeq(x, 1, e - 1)) = Head(ls)
                         /\ Decodings(SubSeq(x, e + 1, Len(x)), Tail(ls), blanks, whole) # {}
                      \/ /\ blanks /\ Strip(SubSeq(x, 1, e - 1)) = <<>>
                         /\ Decodings(SubSeq(x, e + 1, Len(x)), ls, blanks, whole) # {}
    BY <2>1
  <2> QED BY DecodeRest
<1>5. /\ SubSeq(s, e + 1, Len(s)) \in Seq(StreamChar)
      /\ \/ /\ ls # <<>> /\ Strip(SubSeq(s, 1, e - 1)) = Head(ls)
            /\ Decodings(SubSeq(s, e + 1, Len(s)) \o r, Tail(ls), blanks, whole) # {}
         \/ /\ blanks /\ Strip(SubSeq(s, 1, e - 1)) = <<>>
            /\ Decodings(SubSeq(s, e + 1, Len(s)) \o r, ls, blanks, whole) # {}
  BY <1>2, <1>3, <1>4, Zenon
<1> QED BY <1>5, Zenon DEF e

\* What is lost when the channel ends is the end of the text.
LEMMA DropText ==
    ASSUME NEW s \in Seq(StreamChar), NEW r \in Seq(StreamChar), NEW ls \in Seq(LineText), NEW blanks,
           NEW whole \in BOOLEAN, Decodings(s \o r, ls, blanks, whole) # {}
    PROVE  Decodings(s \o <<>>, ls, blanks, FALSE) # {}
<1>1. PICK x : x = s \o r
  OBVIOUS
<1>2. PICK n \in Nat, m \in Nat : n = Len(s) /\ m = Len(r)
  OBVIOUS
<1>3. x \in Seq(StreamChar) /\ Len(x) = n + m /\ \A i \in 1 .. n : x[i] = s[i]
  BY <1>1, <1>2, ConcatFacts
<1>4. n \in 0 .. Len(x)
  BY <1>3
<1>5. SubSeq(x, 1, n) = s
  <2>1. \A i \in 1 .. n : x[i] = s[i] /\ s[i] \in StreamChar
    BY <1>2, <1>3
  <2> QED BY <1>2, <1>3, <2>1
<1>6. Decodings(SubSeq(x, 1, n), ls, blanks, FALSE) # {}
  BY <1>1, <1>3, <1>4, DecodePrefix
<1>7. s \o <<>> = s
  BY ConcatEmptySeq
<1> QED BY <1>5, <1>6, <1>7

-----------------------------------------------------------------------------
(* The greeting *)

Generation == {"TS3", "TS6"}

\* Until the receive loop starts nothing but the greeting is on the stream,
\* without empty lines; what has been taken of it is a beginning of it, and
\* what follows is the rest.
GreetingRead ==
    /\ underway = <<>> /\ outbound = <<>>
    /\ dialect \in {"AUTO", generation}
    /\ buffer \in Seq(StreamChar) /\ inbound \in Seq(StreamChar)
    /\ \/ /\ greeting = <<>>
          /\ Decodings(buffer \o inbound, Greeting(generation), FALSE, up) # {}
       \/ /\ greeting = <<Greeting(generation)[1]>>
          /\ Decodings(buffer \o inbound, <<Greeting(generation)[2]>>, FALSE, up) # {}

GreetInv ==
    /\ recv \in {"greeting", "loop", "closed", "crashed"}
    /\ generation \in Generation /\ up \in BOOLEAN
    /\ recv = "greeting" => GreetingRead
    /\ DialectKnown

\* What the receive loop starts with: the stream is read up to here.
LoopStarts ==
    /\ underway = <<>> /\ outbound = <<>> /\ received = None
    /\ buffer \in Seq(StreamChar) /\ inbound \in Seq(StreamChar)
    /\ Decodings(buffer \o inbound, <<>>, FALSE, up) # {}

LEMMA AppendFacts ==
    ASSUME NEW S, NEW s \in Seq(S), NEW b \in S, NEW n \in Nat, n = Len(s)
    PROVE  /\ Append(s, b) \in Seq(S) /\ Len(Append(s, b)) = n + 1
           /\ \A i \in 1 .. n : Append(s, b)[i] = s[i]
           /\ Append(s, b)[n + 1] = b
  BY AppendProperties

LEMMA AppendOne ==
    ASSUME NEW S, NEW a \in S, NEW b \in S
    PROVE  Append(<<a>>, b) = <<a, b>>
<1> DEFINE s == <<a>>
           u == Append(s, b)
           v == <<a, b>>
<1>1. 1 \in Nat /\ s \in Seq(S) /\ 1 = Len(s) /\ s[1] = a
  OBVIOUS
<1> HIDE DEF s
<1>2. u \in Seq(S) /\ Len(u) = 1 + 1 /\ (\A i \in 1 .. 1 : u[i] = s[i]) /\ u[1 + 1] = b
  BY <1>1, AppendFacts
<1>3. v \in Seq(S) /\ Len(v) = 2 /\ v[1] = a /\ v[2] = b
  OBVIOUS
<1> HIDE DEF u, v
<1>4. \A i \in 1 .. 2 : u[i] = v[i]
  BY <1>1, <1>2, <1>3
<1>5. u = v
  BY <1>2, <1>3, <1>4, SeqEqual
<1> QED BY <1>5 DEF u, v, s

LEMMA SmallSets ==
    ASSUME NEW a, NEW b
    PROVE  ToSet(<<a>>) = {a} /\ ToSet(<<a, b>>) = {a, b}
<1>1. DOMAIN <<a>> = {1} /\ DOMAIN <<a, b>> = {1, 2}
  OBVIOUS
<1>2. <<a>>[1] = a /\ <<a, b>>[1] = a /\ <<a, b>>[2] = b
  OBVIOUS
<1> QED BY <1>1, <1>2, Zenon DEF ToSet

LEMMA GreetingText ==
    ASSUME NEW g \in Generation
    PROVE  \E a, b \in LineText : Greeting(g) = <<a, b>> /\ SniffDialect(<<a, b>>) = g
<1>1. PICK welcome : welcome = IF g = "TS3" THEN Welcome3 ELSE "Welcome to the TeamSpeak "
  OBVIOUS
<1>2. PICK a, b : a = <<"TS3">> /\ b = <<welcome, "...">>
  OBVIOUS
<1>3. Greeting(g) = <<a, b>>
  BY <1>1, <1>2, Zenon DEF Greeting
<1>4. ToSet(a) \cup ToSet(b) \subseteq LineChar
  <2>1. Greeting(g) \in {Greeting("TS3"), Greeting("TS6")}
    BY DEF Generation
  <2>2. {a, b} \subseteq ToSet(Greeting(g))
    BY <1>3, SmallSets
  <2>3. {a, b} \subseteq ToSet(Greeting("TS3")) \cup ToSet(Greeting("TS6"))
    BY <2>1, <2>2
  <2> QED BY <2>3 DEF LineChar
<1>5. "TS3" \notin {"\n", "\r"} /\ welcome \notin {"\n", "\r"} /\ "..." \notin {"\n", "\r"}
  BY <1>1 DEF Welcome3
<1>6. ToSet(a) = {"TS3"} /\ ToSet(b) = {welcome, "..."}
  BY <1>2, SmallSets
<1>7. {"TS3", welcome, "..."} \subseteq LineChar \ {"\n", "\r"}
  BY <1>4, <1>5, <1>6
<1>8. a \in LineText /\ b \in LineText
  BY <1>2, <1>7 DEF LineText
<1>9. a # <<>> /\ b # <<>> /\ a[1] = "TS3" /\ b[1] = welcome
  BY <1>2
<1>10. (\E i \in DOMAIN <<a, b>> : <<a, b>>[i] # <<>> /\ <<a, b>>[i][1] = Welcome3) <=> g = "TS3"
  <2>1. DOMAIN <<a, b>> = {1, 2} /\ <<a, b>>[1] = a /\ <<a, b>>[2] = b
    OBVIOUS
  <2>2. "TS3" # Welcome3 /\ (welcome = Welcome3 <=> g = "TS3")
    BY <1>1 DEF Welcome3
  <2> QED BY <1>9, <2>1, <2>2
<1>11. SniffDialect(<<a, b>>) = g
  BY <1>10 DEF SniffDialect, Generation
<1> QED BY <1>3, <1>8, <1>11

LEMMA GreetInit == Init => GreetInv
<1> SUFFICES ASSUME Init PROVE GreetInv
  OBVIOUS
<1> USE DEF Init
<1>1. PICK t \in Terminator : inbound = Terminated(Greeting(generation), t)
  OBVIOUS
<1>2. generation \in Generation /\ up = TRUE /\ recv = "greeting"
  BY DEF Generation
<1>3. Greeting(generation) \in Seq(LineText)
  <2>1. PICK a, b \in LineText : Greeting(generation) = <<a, b>>
    BY <1>2, GreetingText
  <2> QED BY <2>1
<1>4. <<>> \in Seq(StreamChar) /\ <<>> \in Seq(LineText)
  OBVIOUS
<1>5. /\ inbound \in Seq(StreamChar)
      /\ Decodings(<<>> \o inbound, <<>> \o Greeting(generation), FALSE, TRUE) # {}
  <2>1. Decodings(<<>>, <<>>, FALSE, TRUE) # {}
    BY DecodeNothing
  <2> QED BY <1>1, <1>3, <1>4, <2>1, DecodeLines, Zenon
<1>6. <<>> \o Greeting(generation) = Greeting(generation)
  BY <1>3, ConcatEmptySeq
<1>7. GreetingRead
  BY <1>2, <1>4, <1>5, <1>6 DEF GreetingRead
<1> QED BY <1>2, <1>7 DEF GreetInv, DialectKnown

LEMMA GreetStep ==
    GreetInv /\ [Next]_vars =>
        /\ GreetInv'
        /\ recv = "greeting" /\ recv' = "loop" => LoopStarts'
<1> SUFFICES ASSUME GreetInv, [Next]_vars
             PROVE  GreetInv' /\ (recv = "greeting" /\ recv' = "loop" => LoopStarts')
  OBVIOUS
<1>0. /\ recv \in {"greeting", "loop", "closed", "crashed"}
      /\ generation \in Generation /\ up \in BOOLEAN
      /\ recv = "greeting" => GreetingRead
      /\ recv = "loop" => dialect = generation
  BY DEF GreetInv, DialectKnown
<1>1. CASE recv # "greeting" /\ UNCHANGED <<generation, dialect>> /\ recv' \in {recv, "closed", "crashed"}
           /\ up' \in BOOLEAN
  BY <1>0, <1>1 DEF GreetInv, DialectKnown
<1>2. CASE /\ recv = "greeting" /\ UNCHANGED <<generation, recv>> /\ up' \in BOOLEAN
           /\ GreetingRead'
  BY <1>0, <1>2 DEF GreetInv, DialectKnown
<1>3. CASE UNCHANGED vars
  <2>1. UNCHANGED <<outbound, inbound, up, generation, buffer, recv, greeting, dialect, underway>>
    BY <1>3 DEF vars, wireVars, readerVars, history
  <2>2. CASE recv = "greeting"
    <3>1. GreetingRead'
      BY <1>0, <2>1, <2>2 DEF GreetingRead
    <3> QED BY <1>0, <1>2, <2>1, <2>2, <3>1
  <2> QED BY <1>0, <1>1, <2>1, <2>2
<1>4. CASE ReadMore
  <2>1. UNCHANGED <<underway, outbound, greeting, generation, dialect, up, recv>>
    BY <1>4 DEF ReadMore, history
  <2>2. CASE recv = "greeting"
    <3>1. buffer \in Seq(StreamChar) /\ inbound \in Seq(StreamChar)
      BY <1>0, <2>2 DEF GreetingRead
    <3>2. PICK n \in 1 .. ReadChunk :
             /\ n <= Len(inbound)
             /\ buffer' = buffer \o SubSeq(inbound, 1, n)
             /\ inbound' = SubSeq(inbound, n + 1, Len(inbound))
      BY <1>4 DEF ReadMore
    <3>3. n \in 1 .. Len(inbound)
      <4>1. Len(inbound) \in Nat /\ ReadChunk \in Nat
        BY <3>1, ChunkSize
      <4> QED BY <3>2, <4>1
    <3>4. /\ buffer' \in Seq(StreamChar) /\ inbound' \in Seq(StreamChar)
          /\ buffer' \o inbound' = buffer \o inbound
      BY <3>1, <3>2, <3>3, ChunkText, Zenon
    <3>5. GreetingRead'
      BY <1>0, <2>1, <2>2, <3>4 DEF GreetingRead
    <3> QED BY <1>0, <1>2, <2>1, <2>2, <3>5
  <2> QED BY <1>0, <1>1, <2>1, <2>2
<1>5. CASE ReadEnd
  <2>1. recv' = "closed" /\ UNCHANGED <<generation, up>>
    BY <1>5 DEF ReadEnd, wireVars
  <2> QED BY <1>0, <2>1 DEF GreetInv, DialectKnown
<1>6. CASE ReadLine
  <2>1. CASE recv = "greeting"
    <3> DEFINE e == SelectInSeq(buffer, LAMBDA c : c = "\n")
               cut == Strip(SubSeq(buffer, 1, e - 1))
               rest == SubSeq(buffer, e + 1, Len(buffer))
    <3>1. /\ "\n" \in ToSet(buffer) /\ buffer' = rest /\ TakeGreeting(cut)
          /\ UNCHANGED <<outbound, inbound, up, generation>>
      BY <1>6, <2>1 DEF ReadLine, HasLine, wireVars
    <3>2. /\ buffer \in Seq(StreamChar) /\ inbound \in Seq(StreamChar)
          /\ underway = <<>> /\ outbound = <<>> /\ up \in BOOLEAN
      BY <1>0, <2>1 DEF GreetingRead
    <3>3. ASSUME NEW ls \in Seq(LineText), Decodings(buffer \o inbound, ls, FALSE, up) # {}
          PROVE  /\ rest \in Seq(StreamChar) /\ ls # <<>> /\ cut = Head(ls)
                 /\ Decodings(rest \o inbound, Tail(ls), FALSE, up) # {}
      BY <3>1, <3>2, <3>3, CutLine, Zenon
    <3>4. PICK line, u : line = cut /\ u = rest
      OBVIOUS
    <3> HIDE DEF e, cut, rest
    <3>5. PICK a, b \in LineText : Greeting(generation) = <<a, b>> /\ SniffDialect(<<a, b>>) = generation
      BY <1>0, GreetingText
    <3>6. underway' = <<>> /\ outbound' = <<>> /\ inbound' \in Seq(StreamChar) /\ received' = None
      BY <3>1, <3>2 DEF TakeGreeting
    <3>7. CASE greeting = <<>> /\ Decodings(buffer \o inbound, <<a, b>>, FALSE, up) # {}
      <4>1. <<a, b>> \in Seq(LineText) /\ Head(<<a, b>>) = a /\ Tail(<<a, b>>) = <<b>>
        OBVIOUS
      <4>2. u \in Seq(StreamChar) /\ line = a /\ Decodings(u \o inbound, <<b>>, FALSE, up) # {}
        BY <3>3, <3>4, <3>7, <4>1
      <4>3. greeting' = <<a>> /\ recv' = recv
        <5>1. Append(<<>>, a) = <<a>> /\ Len(<<a>>) = 1
          OBVIOUS
        <5>2. greeting' = <<a>>
          BY <3>1, <3>4, <3>7, <4>2, <5>1 DEF TakeGreeting
        <5> QED BY <3>1, <5>1, <5>2 DEF TakeGreeting, GreetingLines
      <4>4. GreetingRead'
        <5>1. buffer' \in Seq(StreamChar) /\ Decodings(buffer' \o inbound', <<b>>, FALSE, up') # {}
          BY <3>1, <3>4, <4>2
        <5>2. Greeting(generation')[1] = a /\ Greeting(generation')[2] = b
          BY <3>1, <3>5
        <5>3. dialect' \in {"AUTO", generation'}
          <6>1. dialect \in {"AUTO", generation} /\ generation' = generation
            BY <1>0, <2>1, <3>1 DEF GreetingRead
          <6>2. Len(greeting') # GreetingLines
            BY <4>3 DEF GreetingLines
          <6> QED BY <3>1, <6>1, <6>2 DEF TakeGreeting
        <5> QED BY <3>6, <4>3, <5>1, <5>2, <5>3 DEF GreetingRead
      <4> QED BY <1>0, <1>2, <2>1, <3>1, <4>3, <4>4
    <3>8. CASE greeting = <<a>> /\ Decodings(buffer \o inbound, <<b>>, FALSE, up) # {}
      <4>1. <<b>> \in Seq(LineText) /\ Head(<<b>>) = b /\ Tail(<<b>>) = <<>> /\ <<>> \in Seq(LineText)
        OBVIOUS
      <4>2. u \in Seq(StreamChar) /\ line = b /\ Decodings(u \o inbound, <<>>, FALSE, up) # {}
        BY <3>3, <3>4, <3>8, <4>1
      <4>3. greeting' = <<a, b>>
        <5>1. Append(<<a>>, b) = <<a, b>>
          BY AppendOne
        <5> QED BY <3>1, <3>4, <3>8, <4>2, <5>1 DEF TakeGreeting
      <4>4. recv' = "loop" /\ dialect' = generation
        <5>1. Len(<<a, b>>) = 2
          OBVIOUS
        <5>2. dialect \in {"AUTO", generation}
          BY <1>0, <2>1 DEF GreetingRead
        <5>3. /\ recv' = "loop"
              /\ dialect' = IF dialect = "AUTO" THEN SniffDialect(greeting') ELSE dialect
          BY <3>1, <4>3, <5>1 DEF TakeGreeting, GreetingLines
        <5>4. SniffDialect(greeting') = generation
          BY <3>5, <4>3
        <5> QED BY <5>2, <5>3, <5>4
      <4>5. LoopStarts'
        <5>1. buffer' \in Seq(StreamChar) /\ Decodings(buffer' \o inbound', <<>>, FALSE, up') # {}
          BY <3>1, <3>4, <4>2
        <5> QED BY <3>6, <5>1 DEF LoopStarts
      <4>6. GreetInv'
        BY <1>0, <3>1, <4>4 DEF GreetInv, DialectKnown
      <4> QED BY <4>5, <4>6
    <3>9. <<a, b>>[1] = a /\ <<a, b>>[2] = b
      OBVIOUS
    <3> QED BY <1>0, <2>1, <3>5, <3>7, <3>8, <3>9 DEF GreetingRead
  <2>2. CASE recv # "greeting"
    <3>1. UNCHANGED <<generation, dialect, up>> /\ recv' \in {recv, "crashed"}
      BY <1>6, <2>2, Zenon DEF ReadLine, wireVars, TakeEvent, TakeData, TakeEnd, Crash
    <3> QED BY <1>0, <1>1, <2>2, <3>1
  <2> QED BY <2>1, <2>2
<1>7. CASE ServerAnswers
  <2>1. recv # "greeting"
    BY <1>0, <1>7 DEF ServerAnswers, GreetingRead
  <2>2. UNCHANGED <<generation, dialect, recv, up>>
    BY <1>7, Zenon DEF ServerAnswers, Send, readerVars
  <2> QED BY <1>0, <1>1, <2>1, <2>2
<1>8. CASE ServerNotifies
  <2>1. recv # "greeting"
    BY <1>8 DEF ServerNotifies
  <2>2. UNCHANGED <<generation, dialect, recv, up>>
    BY <1>8, Zenon DEF ServerNotifies, Send, readerVars
  <2> QED BY <1>0, <1>1, <2>1, <2>2
<1>9. CASE ServerBlanks
  <2>1. recv = "loop" /\ UNCHANGED <<generation, dialect, recv, up>>
    BY <1>9 DEF ServerBlanks, readerVars
  <2> QED BY <1>0, <1>1, <2>1
<1>10. CASE ServerDrops
  <2>1. /\ UNCHANGED <<underway, outbound, greeting, generation, recv, dialect, buffer>>
        /\ up' = FALSE /\ inbound' = <<>>
    BY <1>10 DEF ServerDrops, readerVars, history
  <2>2. CASE recv = "greeting"
    <3>1. buffer \in Seq(StreamChar) /\ inbound \in Seq(StreamChar) /\ inbound' \in Seq(StreamChar)
      BY <1>0, <2>1, <2>2 DEF GreetingRead
    <3>2. ASSUME NEW ls \in Seq(LineText), Decodings(buffer \o inbound, ls, FALSE, up) # {}
          PROVE  Decodings(buffer' \o inbound', ls, FALSE, up') # {}
      <4>1. Decodings(buffer \o <<>>, ls, FALSE, FALSE) # {}
        BY <1>0, <3>1, <3>2, DropText
      <4> QED BY <2>1, <4>1
    <3>3. PICK a, b \in LineText : Greeting(generation) = <<a, b>>
      BY <1>0, GreetingText
    <3>4. /\ <<a, b>> \in Seq(LineText) /\ <<b>> \in Seq(LineText)
          /\ <<a, b>>[1] = a /\ <<a, b>>[2] = b
      OBVIOUS
    <3>5. GreetingRead'
      <4>1. CASE greeting = <<>> /\ Decodings(buffer \o inbound, <<a, b>>, FALSE, up) # {}
        <5>1. Decodings(buffer' \o inbound', <<a, b>>, FALSE, up') # {}
          BY <3>2, <3>4, <4>1
        <5> QED BY <1>0, <2>1, <2>2, <3>1, <3>3, <4>1, <5>1 DEF GreetingRead
      <4>2. CASE greeting = <<a>> /\ Decodings(buffer \o inbound, <<b>>, FALSE, up) # {}
        <5>1. Decodings(buffer' \o inbound', <<b>>, FALSE, up') # {}
          BY <3>2, <3>4, <4>2
        <5> QED BY <1>0, <2>1, <2>2, <3>1, <3>3, <3>4, <4>2, <5>1 DEF GreetingRead
      <4> QED BY <1>0, <2>2, <3>3, <3>4, <4>1, <4>2 DEF GreetingRead
    <3> QED BY <1>0, <1>2, <2>1, <2>2, <3>5
  <2> QED BY <1>0, <1>1, <2>1, <2>2
<1>11. ASSUME NEW c \in Call, Exec(c)
       PROVE  GreetInv' /\ (recv = "greeting" /\ recv' = "loop" => LoopStarts')
  <2>1. recv = "loop" /\ UNCHANGED <<generation, dialect, recv, up>>
    BY <1>11 DEF Exec, readerVars
  <2> QED BY <1>0, <1>1, <2>1
<1>12. CASE Return
  <2>1. UNCHANGED <<outbound, inbound, up, generation, buffer, recv, greeting, dialect, underway>>
    BY <1>12 DEF Return, wireVars, readerVars
  <2>2. CASE recv = "greeting"
    <3>1. GreetingRead'
      BY <1>0, <2>1, <2>2 DEF GreetingRead
    <3> QED BY <1>0, <1>2, <2>1, <2>2, <3>1
  <2> QED BY <1>0, <1>1, <2>1, <2>2
<1> QED
  BY <1>3, <1>4, <1>5, <1>6, <1>7, <1>8, <1>9, <1>10, <1>11, <1>12 DEF Next, Reader, Server

\* The generation of the server is known when the receive loop starts: the
\* two lines of the greeting, in whatever chunks they come, are what start()
\* takes and looks at.
THEOREM GreetingDecides == Spec => []DialectKnown
<1>1. GreetInv /\ [Next]_vars => GreetInv'
  BY GreetStep
<1>2. GreetInv => DialectKnown
  BY DEF GreetInv
<1> QED BY <1>1, <1>2, GreetInit, PTL DEF Spec

-----------------------------------------------------------------------------
(* The messages behind the greeting *)

LinesOf(ms) == [i \in DOMAIN ms |-> LineOf(ms[i])]

LEMMA LinesOfFacts ==
    ASSUME NEW ms \in Seq(Sendable)
    PROVE  Len(LinesOf(ms)) = Len(ms) /\ \A i \in 1 .. Len(ms) : LinesOf(ms)[i] = LineOf(ms[i])
<1>1. DOMAIN ms = 1 .. Len(ms) /\ Len(ms) \in Nat
  OBVIOUS
<1> QED BY <1>1 DEF LinesOf

\* A message that can be read back comes in a line of its own.
LEMMA LineReadable ==
    ASSUME NEW m \in Sendable
    PROVE  LineOf(m) \in LineText /\ LineOf(m) # <<>>
<1>1. PICK line : line = LineOf(m)
  OBVIOUS
<1>2. line \in Seq(ToSet(line) \ {"\n", "\r"}) /\ line # <<>>
  BY <1>1, LinesRead DEF LinesReadable, Readable
<1>3. ToSet(line) \subseteq LineChar
  BY <1>1 DEF LineChar
<1>4. ToSet(line) \ {"\n", "\r"} \subseteq LineChar \ {"\n", "\r"}
  BY <1>3
<1>5. line \in LineText
  BY <1>2, <1>4, SeqMonotonic DEF LineText
<1> QED BY <1>1, <1>2, <1>5

LEMMA LinesAreText ==
    ASSUME NEW ms \in Seq(Sendable)
    PROVE  LinesOf(ms) \in Seq(LineText)
<1>1. PICK n \in Nat : n = Len(ms)
  OBVIOUS
<1>2. \A i \in 1 .. n : ms[i] \in Sendable
  BY <1>1
<1>3. \A i \in 1 .. n : LineOf(ms[i]) \in LineText
  BY <1>2, LineReadable
<1>4. LinesOf(ms) = [i \in 1 .. n |-> LineOf(ms[i])]
  BY <1>1 DEF LinesOf
<1> QED BY <1>3, <1>4

LEMMA LinesOfMore ==
    ASSUME NEW ms \in Seq(Sendable), NEW ns \in Seq(Sendable)
    PROVE  LinesOf(ms \o ns) = LinesOf(ms) \o LinesOf(ns)
<1>1. PICK x, a, b, c : x = ms \o ns /\ a = LinesOf(ms) /\ b = LinesOf(ns) /\ c = LinesOf(x)
  OBVIOUS
<1>2. PICK n \in Nat, m \in Nat : n = Len(ms) /\ m = Len(ns)
  OBVIOUS
<1>3. /\ x \in Seq(Sendable) /\ Len(x) = n + m
      /\ \A i \in 1 .. n : x[i] = ms[i]
      /\ \A i \in 1 .. m : x[n + i] = ns[i]
  BY <1>1, <1>2, ConcatFacts
<1>4. a \in Seq(LineText) /\ Len(a) = n /\ \A i \in 1 .. n : a[i] = LineOf(ms[i])
  BY <1>1, <1>2, LinesOfFacts, LinesAreText
<1>5. b \in Seq(LineText) /\ Len(b) = m /\ \A i \in 1 .. m : b[i] = LineOf(ns[i])
  BY <1>1, <1>2, LinesOfFacts, LinesAreText
<1>6. c \in Seq(LineText) /\ Len(c) = n + m /\ \A i \in 1 .. n + m : c[i] = LineOf(x[i])
  BY <1>1, <1>3, LinesOfFacts, LinesAreText
<1>7. PICK d : d = a \o b
  OBVIOUS
<1>8. /\ d \in Seq(LineText) /\ Len(d) = n + m
      /\ \A i \in 1 .. n : d[i] = a[i]
      /\ \A i \in 1 .. m : d[n + i] = b[i]
  <2>1. a \in Seq(LineText) /\ Len(a) = n
    BY <1>4
  <2>2. b \in Seq(LineText) /\ Len(b) = m
    BY <1>5
  <2>3. d \in Seq(LineText) /\ Len(d) = n + m
    <3>1. d \in Seq(LineText) /\ Len(d) = Len(a) + Len(b)
      BY <1>7, <2>1, <2>2, ConcatFacts
    <3> QED BY <2>1, <2>2, <3>1
  <2>4. \A i \in 1 .. n : d[i] = a[i]
    BY <1>7, <2>1, <2>2
  <2>5. \A i \in 1 .. m : d[n + i] = b[i]
    BY <1>7, <2>1, <2>2
  <2> QED BY <2>3, <2>4, <2>5
<1>9. ASSUME NEW i \in 1 .. n + m PROVE c[i] = d[i]
  <2>1. CASE i <= n
    <3>1. i \in 1 .. n
      BY <2>1
    <3> QED BY <1>3, <1>4, <1>6, <1>8, <3>1
  <2>2. CASE i > n
    <3>1. PICK j \in 1 .. m : i = n + j
      <4>1. i - n \in 1 .. m /\ i = n + (i - n)
        BY <2>2
      <4> QED BY <4>1
    <3> QED BY <1>3, <1>5, <1>6, <1>8, <3>1
  <2> QED BY <2>1, <2>2
<1>10. c = d
  <2>1. PICK z \in Nat : z = n + m
    BY <1>2
  <2> QED BY <1>6, <1>8, <1>9, <2>1, SeqEqual
<1> QED BY <1>1, <1>7, <1>10

LEMMA LinesOfRest ==
    ASSUME NEW ms \in Seq(Sendable), ms # <<>>
    PROVE  /\ Head(ms) \in Sendable /\ Tail(ms) \in Seq(Sendable)
           /\ Head(LinesOf(ms)) = LineOf(Head(ms))
           /\ Tail(LinesOf(ms)) = LinesOf(Tail(ms))
<1>1. PICK n \in Nat : Len(ms) = n + 1
  <2>1. Len(ms) \in Nat /\ Len(ms) # 0
    BY EmptySeq
  <2>2. Len(ms) - 1 \in Nat /\ Len(ms) = Len(ms) - 1 + 1
    BY <2>1
  <2> QED BY <2>2
<1>2. PICK a, rest, b, c :
         a = LinesOf(ms) /\ rest = Tail(ms) /\ b = LinesOf(rest) /\ c = Tail(a)
  OBVIOUS
<1>3. ms[1] \in Sendable /\ Head(ms) = ms[1]
  BY <1>1
<1>4. rest \in Seq(Sendable) /\ Len(rest) = n /\ \A i \in 1 .. n : rest[i] = ms[i + 1]
  BY <1>1, <1>2
<1>5. a \in Seq(LineText) /\ Len(a) = n + 1 /\ \A i \in 1 .. n + 1 : a[i] = LineOf(ms[i])
  BY <1>1, <1>2, LinesOfFacts, LinesAreText
<1>6. b \in Seq(LineText) /\ Len(b) = n /\ \A i \in 1 .. n : b[i] = LineOf(rest[i])
  BY <1>2, <1>4, LinesOfFacts, LinesAreText
<1>7. c \in Seq(LineText) /\ Len(c) = n /\ \A i \in 1 .. n : c[i] = a[i + 1]
  <2>1. a \in Seq(LineText) /\ Len(a) = n + 1
    BY <1>5
  <2>2. a # <<>>
    BY <2>1
  <2> QED BY <1>2, <2>1, <2>2
<1>8. \A i \in 1 .. n : c[i] = b[i]
  <2> TAKE i \in 1 .. n
  <2>1. i + 1 \in 1 .. n + 1
    OBVIOUS
  <2> QED BY <1>4, <1>5, <1>6, <1>7, <2>1
<1>9. c = b
  BY <1>6, <1>7, <1>8, SeqEqual
<1>10. Head(a) = LineOf(ms[1])
  <2>1. a \in Seq(LineText) /\ Len(a) = n + 1 /\ a[1] = LineOf(ms[1])
    <3>1. 1 \in 1 .. n + 1
      OBVIOUS
    <3> QED BY <1>5, <3>1
  <2> QED BY <2>1
<1> QED BY <1>2, <1>3, <1>4, <1>9, <1>10

\* The messages for the rows of an answer, and the whole answer.
LEMMA AnswerSendable ==
    ASSUME NEW c \in Call, Renderable(c),
           NEW m \in Meaning(ServerReads(RenderCommand(c))), NEW together \in BOOLEAN,
           NEW notices \in {<<>>} \cup {<<EventMessage(event)>> : event \in Event}
    PROVE  /\ RowMessages(m, together) \o notices \o <<m.end>> \in Seq(Sendable)
           /\ RowMessages(m, together) \o notices \o <<m.end>> # <<>>
<1>1. m \in Answerable
  BY DEF Answerable
<1>2. PICK rows, r : rows = m.rows /\ r = RowMessages(m, together)
  OBVIOUS
<1>3. rows \in Seq(ToSet(rows)) /\ DOMAIN rows = 1 .. Len(rows) /\ Len(rows) \in Nat
  <2>1. rows \in Seq(ToSet(rows))
    BY <1>2, AnswerAssumption
  <2>2. PICK S : S = ToSet(rows)
    OBVIOUS
  <2>3. rows \in Seq(S)
    BY <2>1, <2>2
  <2>4. DOMAIN rows = 1 .. Len(rows) /\ Len(rows) \in Nat
    BY <2>3
  <2> QED BY <2>1, <2>4
<1>4. \E S : r \in Seq(S)
  <2> DEFINE S == {r[i] : i \in DOMAIN r}
  <2>1. \/ r = <<>> \/ r = <<DataMessage(rows)>>
        \/ r = [i \in DOMAIN rows |-> DataMessage(<<rows[i]>>)]
    BY <1>2, Zenon DEF RowMessages
  <2>2. CASE r = <<>>
    BY <2>2
  <2>3. CASE r = <<DataMessage(rows)>>
    <3>1. r \in Seq({DataMessage(rows)})
      BY <2>3
    <3> QED BY <3>1
  <2>4. CASE r = [i \in DOMAIN rows |-> DataMessage(<<rows[i]>>)]
    <3>1. r = [i \in 1 .. Len(rows) |-> DataMessage(<<rows[i]>>)]
      BY <1>3, <2>4
    <3>2. r \in Seq({DataMessage(<<rows[i]>>) : i \in 1 .. Len(rows)})
      BY <1>3, <3>1
    <3> QED BY <3>2
  <2> QED BY <2>1, <2>2, <2>3, <2>4
<1>5. r \in Seq(Sendable)
  <2>1. ToSet(r) \subseteq Sendable
    BY <1>1, <1>2 DEF Sendable
  <2>2. PICK S : r \in Seq(S)
    BY <1>4
  <2>3. Len(r) \in Nat /\ DOMAIN r = 1 .. Len(r) /\ r = [i \in 1 .. Len(r) |-> r[i]]
    BY <2>2
  <2>4. \A i \in 1 .. Len(r) : r[i] \in Sendable
    BY <2>1, <2>3 DEF ToSet
  <2> QED BY <2>3, <2>4
<1>6. notices \in Seq(Sendable)
  <2>1. CASE notices = <<>>
    BY <2>1
  <2>2. CASE notices \in {<<EventMessage(event)>> : event \in Event}
    <3>1. PICK event \in Event : notices = <<EventMessage(event)>>
      BY <2>2
    <3>2. EventMessage(event) \in Sendable
      BY DEF Sendable
    <3> QED BY <3>1, <3>2
  <2> QED BY <2>1, <2>2
<1>7. PICK end : end = m.end
  OBVIOUS
<1>8. end \in Sendable
  BY <1>1, <1>7 DEF Sendable
<1>9. r \o notices \o <<end>> \in Seq(Sendable) /\ r \o notices \o <<end>> # <<>>
  <2>1. r \o notices \in Seq(Sendable)
    BY <1>5, <1>6, ConcatFacts
  <2>2. PICK s \in Seq(Sendable) : s = r \o notices
    BY <2>1
  <2>3. s \o <<end>> \in Seq(Sendable) /\ s \o <<end>> # <<>>
    BY <1>8
  <2> QED BY <2>2, <2>3
<1> QED BY <1>2, <1>7, <1>9

\* The receive loop has before it the lines of the messages under way, and
\* perhaps empty ones; what the server is to read is a command.
StreamRead ==
    /\ buffer \in Seq(StreamChar) /\ inbound \in Seq(StreamChar)
    /\ Decodings(buffer \o inbound, LinesOf(underway), TRUE, up) # {}

StreamInv ==
    /\ underway \in Seq(Sendable)
    /\ outbound # <<>> => \E c \in Call : Renderable(c) /\ outbound = RenderCommand(c)
    /\ recv = "loop" => StreamRead

LEMMA StreamInit == Init => StreamInv /\ Channel!Init
<1> SUFFICES ASSUME Init PROVE StreamInv /\ Channel!Init
  OBVIOUS
<1>1. underway = <<>> /\ outbound = <<>> /\ recv = "greeting" /\ received = None
  BY DEF Init
<1>2. ~(recv \in {"closed", "crashed"})
  BY <1>1
<1>3. StreamInv
  BY <1>1 DEF StreamInv
<1>4. (recv \in {"closed", "crashed"}) = FALSE
  BY <1>2
<1> QED BY <1>1, <1>3, <1>4, Zenon DEF Channel!Init

\* Messages are sent behind those that are under way.
LEMMA StreamSend ==
    ASSUME StreamInv, up \in BOOLEAN, NEW ms \in Seq(Sendable), ms # <<>>,
           Send(ms), received' = None, UNCHANGED <<recv, buffer>>, outbound' \in {outbound, <<>>}
    PROVE  StreamInv' /\ Channel!Send
<1>1. underway \in Seq(Sendable) /\ underway' = underway \o ms
  BY DEF StreamInv, Send
<1>2. underway' \in Seq(Sendable)
  BY <1>1, ConcatFacts
<1>3. ASSUME recv = "loop" PROVE StreamRead'
  <2>1. PICK t \in Terminator : inbound' = inbound \o Terminated(LinesOf(ms), t)
    BY Zenon DEF Send, LinesOf
  <2>2. StreamRead /\ up = TRUE /\ up' = TRUE
    BY <1>3 DEF StreamInv, Send
  <2>3. PICK text, x, ls, ns : /\ text = Terminated(LinesOf(ms), t) /\ x = buffer \o inbound
                               /\ ls = LinesOf(underway) /\ ns = LinesOf(ms)
    OBVIOUS
  <2>4. ls \in Seq(LineText) /\ ns \in Seq(LineText)
    BY <1>1, <2>3, LinesAreText
  <2>5. buffer \in Seq(StreamChar) /\ inbound \in Seq(StreamChar) /\ x \in Seq(StreamChar)
    BY <2>2, <2>3, ConcatFacts DEF StreamRead
  <2>6. Decodings(x, ls, TRUE, TRUE) # {}
    BY <2>2, <2>3 DEF StreamRead
  <2>7. text \in Seq(StreamChar) /\ Decodings(x \o text, ls \o ns, TRUE, TRUE) # {}
    BY <2>3, <2>4, <2>5, <2>6, DecodeLines
  <2>8. ls \o ns = LinesOf(underway')
    BY <1>1, <2>3, LinesOfMore
  <2>9. (buffer \o inbound) \o text = buffer \o (inbound \o text)
    <3>1. Associated(buffer, inbound, text)
      BY <2>5, <2>7, ConcatThree
    <3> QED BY <3>1, Zenon DEF Associated
  <2>10. buffer' \in Seq(StreamChar) /\ inbound' \in Seq(StreamChar)
    BY <2>1, <2>3, <2>5, <2>7, ConcatFacts
  <2>11. Decodings(buffer' \o inbound', LinesOf(underway'), TRUE, up') # {}
    BY <2>1, <2>2, <2>3, <2>7, <2>8, <2>9
  <2> QED BY <2>10, <2>11 DEF StreamRead
<1>4. StreamInv'
  BY <1>2, <1>3 DEF StreamInv
<1>5. Len(underway') > Len(underway) /\ SubSeq(underway', 1, Len(underway)) = underway
  <2>1. PICK n \in Nat, m \in Nat, x \in {underway \o ms} : n = Len(underway) /\ m = Len(ms) /\ x = underway \o ms
    BY <1>1
  <2>2. m # 0
    BY <2>1, EmptySeq
  <2>3. x \in Seq(Sendable) /\ Len(x) = n + m /\ \A i \in 1 .. n : x[i] = underway[i]
    BY <1>1, <2>1, ConcatFacts
  <2>4. SubSeq(x, 1, n) = underway
    <3>1. \A i \in 1 .. n : x[i] = underway[i] /\ underway[i] \in Sendable
      BY <1>1, <2>1, <2>3
    <3> QED BY <1>1, <2>1, <2>3, <3>1
  <2>5. n + m > n
    BY <2>2
  <2> QED BY <1>1, <2>1, <2>3, <2>4, <2>5
<1>6. Channel!Send
  BY <1>5 DEF Channel!Send
<1> QED BY <1>4, <1>6

\* The receive loop makes of a message what it was sent as, or it ends.
MessageTaken(m) ==
    \/ /\ m.kind = "event" /\ received' = m /\ underway' = Tail(underway)
       /\ UNCHANGED <<recv, dataBuf, answer>>
    \/ /\ m.kind = "data" /\ received' = m /\ underway' = Tail(underway)
       /\ \E line \in LineText : ParseDataLine(line) = m.rows /\ dataBuf' = Append(dataBuf, line)
       /\ UNCHANGED <<recv, answer>>
    \/ /\ m.kind = "end" /\ received' = m /\ underway' = Tail(underway)
       /\ dataBuf' = <<>> /\ Resolve(Typed(call.via, Outcome(dataBuf, m)))
       /\ UNCHANGED recv
    \/ /\ m.kind = "end" /\ received' = None /\ recv' = "crashed" /\ UNCHANGED underway
       /\ Resolve(Closed)

\* A line is read in the loop: a message is taken, or an empty line skipped.
LEMMA LineTaken ==
    ASSUME StreamInv, up \in BOOLEAN, ReadLine, recv = "loop"
    PROVE  /\ UNCHANGED <<outbound, inbound, up>> /\ buffer' \in Seq(StreamChar)
           /\ \/ /\ received' = None /\ UNCHANGED <<recv, dataBuf, answer, underway>>
                 /\ Decodings(buffer' \o inbound, LinesOf(underway), TRUE, up) # {}
              \/ /\ underway # <<>> /\ Head(underway) \in Sendable /\ Tail(underway) \in Seq(Sendable)
                 /\ MessageTaken(Head(underway))
                 /\ Decodings(buffer' \o inbound, LinesOf(Tail(underway)), TRUE, up) # {}
<1> DEFINE e == SelectInSeq(buffer, LAMBDA c : c = "\n")
           cut == Strip(SubSeq(buffer, 1, e - 1))
           rest == SubSeq(buffer, e + 1, Len(buffer))
<1>1. /\ "\n" \in ToSet(buffer) /\ buffer' = rest
      /\ IF cut = <<>>
         THEN received' = None /\ UNCHANGED <<recv, dataBuf, answer, underway>>
         ELSE TakeEvent(cut) \/ TakeData(cut) \/ TakeEnd(cut) \/ Crash(cut)
      /\ UNCHANGED <<outbound, inbound, up>>
  BY DEF ReadLine, HasLine, wireVars
<1>2. buffer \in Seq(StreamChar) /\ inbound \in Seq(StreamChar) /\ underway \in Seq(Sendable)
  BY DEF StreamInv, StreamRead
<1>3. LinesOf(underway) \in Seq(LineText)
  BY <1>2, LinesAreText
<1>4. /\ rest \in Seq(StreamChar)
      /\ \/ /\ LinesOf(underway) # <<>> /\ cut = Head(LinesOf(underway))
            /\ Decodings(rest \o inbound, Tail(LinesOf(underway)), TRUE, up) # {}
         \/ cut = <<>> /\ Decodings(rest \o inbound, LinesOf(underway), TRUE, up) # {}
  <2>1. PICK ls \in Seq(LineText) : ls = LinesOf(underway)
    BY <1>3
  <2>2. Decodings(buffer \o inbound, ls, TRUE, up) # {}
    BY <2>1 DEF StreamInv, StreamRead
  <2>3. PICK blanks : blanks = TRUE
    OBVIOUS
  <2>4. "\n" \in ToSet(buffer) /\ up \in BOOLEAN /\ Decodings(buffer \o inbound, ls, blanks, up) # {}
    BY <1>1, <2>2, <2>3
  <2>5. /\ rest \in Seq(StreamChar)
        /\ \/ ls # <<>> /\ cut = Head(ls) /\ Decodings(rest \o inbound, Tail(ls), blanks, up) # {}
           \/ blanks /\ cut = <<>> /\ Decodings(rest \o inbound, ls, blanks, up) # {}
    BY <1>2, <2>4, CutLine
  <2> HIDE DEF e, cut, rest
  <2> QED BY <2>1, <2>3, <2>5
<1>5. PICK line, u : line = cut /\ u = rest
  OBVIOUS
<1> HIDE DEF e, cut, rest
<1>6. CASE line = <<>> /\ Decodings(u \o inbound, LinesOf(underway), TRUE, up) # {}
  BY <1>1, <1>4, <1>5, <1>6
<1>7. CASE /\ LinesOf(underway) # <<>> /\ line = Head(LinesOf(underway))
           /\ Decodings(u \o inbound, Tail(LinesOf(underway)), TRUE, up) # {}
  <2>1. underway # <<>>
    <3>1. Len(LinesOf(underway)) = Len(underway) /\ Len(LinesOf(underway)) # 0
      BY <1>2, <1>3, <1>7, LinesOfFacts, EmptySeq
    <3> QED BY <3>1
  <2>2. PICK m, more : m = Head(underway) /\ more = Tail(underway)
    OBVIOUS
  <2>3. /\ m \in Sendable /\ more \in Seq(Sendable) /\ line = LineOf(m)
        /\ Decodings(u \o inbound, LinesOf(more), TRUE, up) # {}
    BY <1>2, <1>7, <2>1, <2>2, LinesOfRest
  <2>4. line \in LineText /\ line # <<>>
    BY <2>3, LineReadable
  <2>5. \/ m.kind = "event" /\ IsEventLine(line) /\ EventFromLine(line) = m
        \/ /\ m.kind = "data" /\ ~IsEventLine(line) /\ ~IsErrorLine(line)
           /\ DataMessage(ParseDataLine(line)) = m
        \/ /\ m.kind = "end" /\ ~IsEventLine(line) /\ IsErrorLine(line)
           /\ ErrorLineParses(line) => ParseErrorLine(line) = m
    BY <2>3, LinesRead DEF LinesReadable, Readable
  <2>6. TakeEvent(line) \/ TakeData(line) \/ TakeEnd(line) \/ Crash(line)
    BY <1>1, <1>5, <2>4
  <2>7. MessageTaken(m)
    <3>1. CASE m.kind = "event" /\ IsEventLine(line) /\ EventFromLine(line) = m /\ TakeEvent(line)
      BY <2>1, <2>2, <3>1 DEF TakeEvent, Take, MessageTaken
    <3>2. CASE /\ m.kind = "data" /\ ~IsEventLine(line) /\ ~IsErrorLine(line) /\ TakeData(line)
               /\ DataMessage(ParseDataLine(line)) = m
      <4>1. ParseDataLine(line) = m.rows
        BY <3>2 DEF DataMessage
      <4>2. /\ received' = m /\ underway' = Tail(underway) /\ UNCHANGED <<recv, answer>>
            /\ dataBuf' = Append(dataBuf, line)
        BY <2>1, <2>2, <3>2 DEF TakeData, Take
      <4> QED BY <2>4, <3>2, <4>1, <4>2 DEF MessageTaken
    <3>3. CASE m.kind = "end" /\ IsErrorLine(line) /\ ParseErrorLine(line) = m /\ TakeEnd(line)
      BY <2>1, <2>2, <3>3 DEF TakeEnd, Take, MessageTaken
    <3>4. CASE m.kind = "end" /\ Crash(line)
      BY <3>4 DEF Crash, MessageTaken
    <3>5. /\ TakeEvent(line) => IsEventLine(line)
          /\ TakeData(line) => ~IsEventLine(line) /\ ~IsErrorLine(line)
          /\ TakeEnd(line) => IsErrorLine(line) /\ ErrorLineParses(line)
          /\ Crash(line) => IsErrorLine(line)
      BY DEF TakeEvent, TakeData, TakeEnd, Crash
    <3>6. ~(IsEventLine(line) /\ IsErrorLine(line))
      BY DEF IsEventLine, IsErrorLine
    <3> QED BY <2>5, <2>6, <3>1, <3>2, <3>3, <3>4, <3>5, <3>6
  <2> QED BY <1>1, <1>4, <1>5, <2>1, <2>2, <2>3, <2>7
<1> QED BY <1>4, <1>5, <1>6, <1>7

\* Skipping a line keeps the stream, taking a message is receiving it, and
\* the end of the loop ends the session.
LEMMA StreamTake ==
    ASSUME StreamInv, up \in BOOLEAN, ReadLine, recv = "loop"
    PROVE  StreamInv' /\ Channel!Next
<1>1. UNCHANGED <<outbound, inbound, up>> /\ buffer' \in Seq(StreamChar)
  BY LineTaken
<1>2. inbound \in Seq(StreamChar) /\ underway \in Seq(Sendable)
  BY DEF StreamInv, StreamRead
<1>3. outbound' # <<>> => \E c \in Call : Renderable(c) /\ outbound' = RenderCommand(c)
  BY <1>1 DEF StreamInv
<1>4. CASE /\ received' = None /\ UNCHANGED <<recv, underway>>
           /\ Decodings(buffer' \o inbound, LinesOf(underway), TRUE, up) # {}
  <2>1. StreamRead'
    BY <1>1, <1>2, <1>4 DEF StreamRead
  <2>2. StreamInv'
    BY <1>2, <1>3, <1>4, <2>1 DEF StreamInv
  <2>3. Channel!Handle
    BY <1>4 DEF Channel!Handle
  <2> QED BY <2>2, <2>3 DEF Channel!Next
<1>5. CASE /\ underway # <<>> /\ Tail(underway) \in Seq(Sendable)
           /\ received' = Head(underway) /\ underway' = Tail(underway) /\ recv' = recv
           /\ Decodings(buffer' \o inbound, LinesOf(Tail(underway)), TRUE, up) # {}
  <2>1. StreamRead'
    BY <1>1, <1>2, <1>5 DEF StreamRead
  <2>2. StreamInv'
    BY <1>3, <1>5, <2>1 DEF StreamInv
  <2>3. Channel!Receive
    BY <1>5 DEF Channel!Receive
  <2> QED BY <2>2, <2>3 DEF Channel!Next
<1>6. CASE received' = None /\ UNCHANGED underway /\ recv' = "crashed"
  <2>1. StreamInv'
    BY <1>2, <1>3, <1>6 DEF StreamInv
  <2>2. Channel!End
    BY <1>6 DEF Channel!End
  <2> QED BY <2>1, <2>2 DEF Channel!Next
<1>7. ASSUME MessageTaken(Head(underway))
      PROVE  \/ received' = Head(underway) /\ underway' = Tail(underway) /\ recv' = recv
             \/ received' = None /\ UNCHANGED underway /\ recv' = "crashed"
  BY <1>7 DEF MessageTaken
<1> QED BY <1>4, <1>5, <1>6, <1>7, LineTaken

LEMMA StreamStep ==
    GreetInv /\ StreamInv /\ [Next]_vars =>
               StreamInv' /\ [Channel!Next]_<<underway, received, recv \in {"closed", "crashed"}>>
<1> SUFFICES ASSUME GreetInv, StreamInv, [Next]_vars
             PROVE  /\ StreamInv'
                    /\ \/ Channel!Next
                       \/ UNCHANGED <<underway, received, recv \in {"closed", "crashed"}>>
  OBVIOUS
<1>0. /\ recv \in {"greeting", "loop", "closed", "crashed"}
      /\ generation \in Generation /\ up \in BOOLEAN
      /\ recv = "greeting" => GreetingRead
  BY DEF GreetInv
<1>1. CASE UNCHANGED vars
  <2>1. UNCHANGED <<outbound, inbound, up, buffer, recv, underway, received>>
    BY <1>1 DEF vars, wireVars, readerVars, history
  <2>2. StreamInv'
    BY <2>1 DEF StreamInv, StreamRead
  <2> QED BY <2>1, <2>2
<1>2. ASSUME UNCHANGED <<outbound, underway, recv>>, received' = None,
             recv = "loop" /\ StreamRead => StreamRead'
      PROVE  StreamInv' /\ Channel!Next
  <2>1. StreamInv'
    BY <1>2 DEF StreamInv
  <2>2. Channel!Handle
    BY <1>2 DEF Channel!Handle
  <2> QED BY <2>1, <2>2 DEF Channel!Next
<1>3. CASE ReadMore
  <2>1. UNCHANGED <<outbound, underway, up, recv>> /\ received' = None
    BY <1>3 DEF ReadMore, history
  <2>2. ASSUME StreamRead PROVE StreamRead'
    <3>1. buffer \in Seq(StreamChar) /\ inbound \in Seq(StreamChar)
      BY <2>2 DEF StreamRead
    <3>2. PICK n \in 1 .. ReadChunk :
             /\ n <= Len(inbound)
             /\ buffer' = buffer \o SubSeq(inbound, 1, n)
             /\ inbound' = SubSeq(inbound, n + 1, Len(inbound))
      BY <1>3 DEF ReadMore
    <3>3. n \in 1 .. Len(inbound)
      <4>1. Len(inbound) \in Nat /\ ReadChunk \in Nat
        BY <3>1, ChunkSize
      <4> QED BY <3>2, <4>1
    <3>4. /\ buffer' \in Seq(StreamChar) /\ inbound' \in Seq(StreamChar)
          /\ buffer' \o inbound' = buffer \o inbound
      BY <3>1, <3>2, <3>3, ChunkText, Zenon
    <3> QED BY <2>1, <2>2, <3>4 DEF StreamRead
  <2> QED BY <1>2, <2>1, <2>2
<1>4. CASE ReadEnd
  <2>1. /\ recv \in {"greeting", "loop"} /\ recv' = "closed" /\ received' = None
        /\ UNCHANGED <<underway, outbound>>
    BY <1>4 DEF ReadEnd, Reading, history, wireVars
  <2>2. StreamInv'
    BY <2>1 DEF StreamInv
  <2>3. Channel!End
    BY <2>1 DEF Channel!End
  <2> QED BY <2>2, <2>3 DEF Channel!Next
<1>5. CASE ReadLine
  <2>1. CASE recv = "loop"
    BY <1>0, <1>5, <2>1, StreamTake
  <2>2. CASE recv = "greeting"
    <3>1. /\ UNCHANGED <<underway, outbound>> /\ received' = None
          /\ recv' = recv \/ recv' = "loop"
      BY <1>5, <2>2 DEF ReadLine, TakeGreeting, wireVars
    <3>2. CASE recv' = recv
      BY <1>2, <2>2, <3>1, <3>2
    <3>3. CASE recv' = "loop"
      <4>1. LoopStarts'
        BY <2>2, <3>3, GreetStep
      <4>2. Decodings(buffer' \o inbound', <<>>, TRUE, up') # {}
        BY <4>1, DecodeBlanks DEF LoopStarts
      <4>3. underway' = <<>> /\ LinesOf(<<>>) = <<>>
        <5>1. LinesOf(<<>>) = <<>>
          BY DEF LinesOf
        <5> QED BY <4>1, <5>1 DEF LoopStarts
      <4>4. StreamRead'
        BY <4>1, <4>2, <4>3 DEF StreamRead, LoopStarts
      <4>5. StreamInv'
        BY <3>1, <4>4 DEF StreamInv
      <4>6. Channel!Handle
        BY <2>2, <3>1, <3>3 DEF Channel!Handle
      <4> QED BY <4>5, <4>6 DEF Channel!Next
    <3> QED BY <3>1, <3>2, <3>3
  <2> QED BY <1>5, <2>1, <2>2 DEF ReadLine, Reading
<1>6. CASE ServerAnswers
  <2>1. PICK c \in Call : Renderable(c) /\ outbound = RenderCommand(c)
    BY <1>6 DEF ServerAnswers, StreamInv
  <2>2. PICK m \in Meaning(ServerReads(RenderCommand(c))), together \in BOOLEAN,
             notices \in {<<>>} \cup {<<EventMessage(event)>> : event \in Event} :
               Send(RowMessages(m, together) \o notices \o <<m.end>>)
    BY <1>6, <2>1, Zenon DEF ServerAnswers
  <2>3. PICK ms : ms = RowMessages(m, together) \o notices \o <<m.end>>
    OBVIOUS
  <2>4. ms \in Seq(Sendable) /\ ms # <<>>
    BY <2>1, <2>3, AnswerSendable
  <2>5. /\ Send(ms) /\ received' = None /\ UNCHANGED <<recv, buffer>> /\ outbound' = <<>>
    BY <1>6, <2>2, <2>3, Zenon DEF ServerAnswers, readerVars
  <2>6. StreamInv' /\ Channel!Send
    BY <1>0, <2>4, <2>5, StreamSend
  <2> QED BY <2>6 DEF Channel!Next
<1>7. CASE ServerNotifies
  <2>1. PICK event \in Event : Send(<<EventMessage(event)>>)
    BY <1>7 DEF ServerNotifies
  <2>2. <<EventMessage(event)>> \in Seq(Sendable) /\ <<EventMessage(event)>> # <<>>
    <3>1. EventMessage(event) \in Sendable
      BY DEF Sendable
    <3> QED BY <3>1
  <2>3. received' = None /\ UNCHANGED <<recv, buffer, outbound>>
    BY <1>7 DEF ServerNotifies, readerVars
  <2>4. StreamInv' /\ Channel!Send
    BY <1>0, <2>1, <2>2, <2>3, StreamSend
  <2> QED BY <2>4 DEF Channel!Next
<1>8. CASE ServerBlanks
  <2>1. /\ UNCHANGED <<outbound, underway, up, recv, buffer>> /\ received' = None
        /\ up /\ inbound = <<>> /\ inbound' = <<"\n">>
    BY <1>8 DEF ServerBlanks, readerVars, history
  <2>2. ASSUME StreamRead PROVE StreamRead'
    <3>1. PICK s, ls : s = buffer /\ ls = LinesOf(underway)
      OBVIOUS
    <3>2. s \in Seq(StreamChar) /\ ls \in Seq(LineText) /\ <<>> \in Seq(StreamChar) /\ <<>> \in LineText
      BY <2>2, <3>1, LinesAreText DEF StreamRead, StreamInv, LineText
    <3>3. s \o <<>> = s
      BY <3>2, ConcatEmptySeq
    <3>4. up = TRUE /\ up' = TRUE
      BY <1>0, <2>1
    <3>5. Decodings(s, ls, TRUE, TRUE) # {}
      BY <2>1, <2>2, <3>1, <3>3, <3>4 DEF StreamRead
    <3>6. <<"\n">> \in Terminator /\ <<"\n">> \in Seq(StreamChar)
      BY TerminatorFacts DEF Terminator
    <3>7. Decodings((s \o <<>>) \o <<"\n">>, ls, TRUE, TRUE) # {}
      BY <3>2, <3>5, <3>6, DecodeMore
    <3>8. Decodings(buffer' \o inbound', LinesOf(underway'), TRUE, up') # {}
      BY <2>1, <3>1, <3>3, <3>4, <3>7
    <3> QED BY <2>1, <3>1, <3>2, <3>6, <3>8 DEF StreamRead
  <2> QED BY <1>2, <2>1, <2>2
<1>9. CASE ServerDrops
  <2>1. /\ UNCHANGED <<outbound, underway, recv, buffer>> /\ received' = None
        /\ up' = FALSE /\ inbound' = <<>>
    BY <1>9 DEF ServerDrops, readerVars, history
  <2>2. ASSUME StreamRead PROVE StreamRead'
    <3>1. buffer \in Seq(StreamChar) /\ inbound \in Seq(StreamChar) /\ <<>> \in Seq(StreamChar)
      BY <2>2 DEF StreamRead
    <3>2. PICK ls \in Seq(LineText) : ls = LinesOf(underway)
      BY LinesAreText DEF StreamInv
    <3>3. Decodings(buffer \o <<>>, ls, TRUE, FALSE) # {}
      BY <1>0, <2>2, <3>1, <3>2, DropText DEF StreamRead
    <3> QED BY <2>1, <3>1, <3>2, <3>3 DEF StreamRead
  <2> QED BY <1>2, <2>1, <2>2
<1>10. ASSUME NEW c \in Call, Exec(c) PROVE StreamInv' /\ Channel!Next
  <2>1. UNCHANGED <<underway, recv, buffer, inbound, up>> /\ received' = None
    BY <1>10 DEF Exec, readerVars, history
  <2>2. outbound' = outbound \/ (Renderable(c) /\ outbound' = RenderCommand(c))
    BY <1>10, Zenon DEF Exec
  <2>3. StreamInv'
    BY <2>1, <2>2 DEF StreamInv, StreamRead
  <2>4. Channel!Handle
    BY <2>1 DEF Channel!Handle
  <2> QED BY <2>3, <2>4 DEF Channel!Next
<1>11. CASE Return
  <2>1. UNCHANGED <<outbound, inbound, up, buffer, recv, underway>> /\ received' = None
    BY <1>11 DEF Return, wireVars, readerVars
  <2> QED BY <1>2, <2>1 DEF StreamRead
<1> QED
  BY <1>1, <1>3, <1>4, <1>5, <1>6, <1>7, <1>8, <1>9, <1>10, <1>11 DEF Next, Reader, Server

\* Whatever is under way, each line of it can be read back when it has come:
\* what parse_error_line(), parse_data_line() or Event.from_line() makes of it
\* is what was sent.
THEOREM UnderwayRead ==
    Spec => []UnderwayReadable
<1>1. Init => GreetInv /\ StreamInv
  BY GreetInit, StreamInit
<1>2. GreetInv /\ StreamInv /\ [Next]_vars => GreetInv' /\ StreamInv'
  BY GreetStep, StreamStep
<1>3. StreamInv => UnderwayReadable
  <2> SUFFICES ASSUME StreamInv, underway # <<>> PROVE Readable(Head(underway))
    BY DEF UnderwayReadable
  <2>1. Head(underway) \in Sendable
    BY DEF StreamInv
  <2> QED BY <2>1, LinesRead DEF LinesReadable
<1> QED BY <1>1, <1>2, <1>3, PTL DEF Spec

\* Nothing is held back: when all that was
\* sent has been read and no line end is in the buffer, every message has
\* been received.
THEOREM NothingWaits ==
    Spec => []NothingHeldBack
<1>1. Init => GreetInv /\ StreamInv
  BY GreetInit, StreamInit
<1>2. GreetInv /\ StreamInv /\ [Next]_vars => GreetInv' /\ StreamInv'
  BY GreetStep, StreamStep
<1>3. GreetInv /\ StreamInv => NothingHeldBack
  <2> SUFFICES ASSUME GreetInv, StreamInv, recv = "loop", up, inbound = <<>>, ~HasLine
               PROVE  underway = <<>>
    BY DEF NothingHeldBack
  <2>1. up = TRUE /\ StreamRead /\ underway \in Seq(Sendable)
    BY DEF GreetInv, StreamInv
  <2>2. PICK s \in Seq(StreamChar) : s = buffer
    BY <2>1 DEF StreamRead
  <2>3. buffer \o inbound = s
    BY <2>2, ConcatEmptySeq
  <2>4. \A i \in 1 .. Len(s) : s[i] # "\n"
    BY <2>2 DEF HasLine, ToSet
  <2>5. PICK ls \in Seq(LineText) : ls = LinesOf(underway)
    BY <2>1, LinesAreText
  <2>6. Decodings(s, ls, TRUE, TRUE) # {}
    BY <2>1, <2>3, <2>5 DEF StreamRead
  <2>7. ls = <<>>
    BY <2>4, <2>6, DecodeEmpty
  <2>8. Len(underway) = Len(ls)
    BY <2>1, <2>5, LinesOfFacts
  <2> QED BY <2>1, <2>7, <2>8, EmptySeq
<1> QED BY <1>1, <1>2, <1>3, PTL DEF Spec

\* The wire implements the channel of
\* messages: whatever the chunks they are read in and the empty lines between
\* them, messages are received whole, once, in the order they were sent and
\* as what they were sent, until the session ends.
THEOREM WireImplementsChannel ==
    Spec => ImplementsChannel
<1>1. Init => GreetInv /\ StreamInv /\ Channel!Init
  BY GreetInit, StreamInit
<1>2. GreetInv /\ StreamInv /\ [Next]_vars => GreetInv' /\ StreamInv'
  BY GreetStep, StreamStep
<1>3. GreetInv /\ StreamInv /\ [Next]_vars =>
          [Channel!Next]_<<underway, received, recv \in {"closed", "crashed"}>>
  BY StreamStep
<1> QED BY <1>1, <1>2, <1>3, PTL DEF Spec, ImplementsChannel, Channel!Spec
=============================================================================
