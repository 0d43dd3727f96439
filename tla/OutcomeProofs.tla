---------------------------- MODULE OutcomeProofs ----------------------------
(***************************************************************************)
(* Theorems about what the server of Wire understands and what the caller  *)
(* gets, for any calls, answers and events.                                *)
(***************************************************************************)
EXTENDS WireProofs

-----------------------------------------------------------------------------
(* An exchange, by the lines kept in _data_buffer and the messages that are *)
(* under way                                                                *)

\* Nothing of an answer is kept or under way.
Quiet(kept, way) == kept = <<>> /\ \A i \in 1 .. Len(way) : way[i].kind = "event"

\* The rows of the lines kept, and of d messages behind a notifications.
RowsLeft(kept, way, a, d) ==
    [i \in 1 .. Len(kept) + d |->
        IF i <= Len(kept) THEN ParseDataLine(kept[i]) ELSE way[a + (i - Len(kept))].rows]

\* Under way are, between notifications, the rest of the rows of the answer m
\* and its end, which is at e.
Places(way, end, a, d, e) ==
    /\ a \in Nat /\ d \in Nat /\ e \in Nat /\ a + d < e /\ e <= Len(way)
    /\ \A i \in 1 .. a : way[i].kind = "event"
    /\ \A i \in a + 1 .. a + d : way[i].kind = "data"
    /\ \A i \in a + d + 1 .. e - 1 : way[i].kind = "event"
    /\ way[e] = end
    /\ \A i \in e + 1 .. Len(way) : way[i].kind = "event"

Answering(kept, way, m) ==
    \E a, d, e \in Nat :
       Places(way, m.end, a, d, e) /\ FlattenSeq(RowsLeft(kept, way, a, d)) = m.rows

\* Notifications behind an answer leave it as it is.
LEMMA AnsweringMore ==
    ASSUME NEW S, NEW kept, Len(kept) \in Nat, NEW way \in Seq(S), NEW m,
           Answering(kept, way, m), NEW b \in S, b.kind = "event"
    PROVE  Answering(kept, way \o <<b>>, m)
<1>1. PICK a, d, e \in Nat :
         Places(way, m.end, a, d, e) /\ FlattenSeq(RowsLeft(kept, way, a, d)) = m.rows
  BY DEF Answering
<1>2. PICK n \in Nat, k \in Nat, x \in {way \o <<b>>} : x = way \o <<b>> /\ n = Len(way) /\ k = Len(kept)
  <2>1. Len(way) \in Nat
    OBVIOUS
  <2> QED BY <2>1
<1>3. Len(x) = n + 1 /\ (\A i \in 1 .. n : x[i] = way[i]) /\ x[n + 1] = b
  BY <1>2
<1>4. Places(x, m.end, a, d, e)
  <2>1. a + d < e /\ e <= n
    BY <1>1, <1>2 DEF Places
  <2>2. \A i \in e + 1 .. n + 1 : x[i].kind = "event"
    <3> TAKE i \in e + 1 .. n + 1
    <3>1. CASE i = n + 1
      BY <1>3, <3>1
    <3>2. CASE i # n + 1
      BY <1>1, <1>2, <1>3, <3>2 DEF Places
    <3> QED BY <3>1, <3>2
  <2> QED BY <1>1, <1>2, <1>3, <2>1, <2>2 DEF Places
<1>5. RowsLeft(kept, x, a, d) = RowsLeft(kept, way, a, d)
  <2>1. a + d <= n
    BY <1>1, <1>2 DEF Places
  <2>2. \A i \in 1 .. k + d : ~(i <= k) => x[a + (i - k)] = way[a + (i - k)]
    <3> TAKE i \in 1 .. k + d
    <3> HAVE ~(i <= k)
    <3>1. a + (i - k) \in 1 .. n
      BY <2>1
    <3> QED BY <1>3, <3>1
  <2> QED BY <1>2, <2>2 DEF RowsLeft
<1> QED BY <1>1, <1>2, <1>4, <1>5 DEF Answering

\* A notification in front of the answer is taken.
LEMMA AnsweringEvent ==
    ASSUME NEW S, NEW kept, Len(kept) \in Nat, NEW way \in Seq(S), way # <<>>, NEW m,
           Answering(kept, way, m), m.end.kind = "end", way[1].kind = "event"
    PROVE  Answering(kept, Tail(way), m)
<1>1. PICK a, d, e \in Nat :
         Places(way, m.end, a, d, e) /\ FlattenSeq(RowsLeft(kept, way, a, d)) = m.rows
  BY DEF Answering
<1>2. PICK n \in Nat, k \in Nat, x \in {Tail(way)} : n + 1 = Len(way) /\ k = Len(kept) /\ x = Tail(way)
  <2>1. Len(way) \in Nat /\ Len(way) # 0
    BY EmptySeq
  <2>2. Len(way) - 1 \in Nat /\ Len(way) - 1 + 1 = Len(way)
    BY <2>1
  <2> QED BY <2>2
<1>3. Len(x) = n /\ \A i \in 1 .. n : x[i] = way[i + 1]
  BY <1>2
<1>4. a + d < e /\ e <= n + 1
  BY <1>1, <1>2 DEF Places
<1>5. e # 1
  BY <1>1 DEF Places
<1>6. CASE a > 0
  <2>1. PICK c \in Nat, f \in Nat : a = c + 1 /\ e = f + 1
    <3>1. a - 1 \in Nat /\ e - 1 \in Nat /\ a = a - 1 + 1 /\ e = e - 1 + 1
      BY <1>4, <1>6
    <3> QED BY <3>1
  <2>2. Places(x, m.end, c, d, f)
    <3>1. c + d < f /\ f <= n /\ f \in 1 .. n
      BY <1>4, <2>1
    <3>2. \A i \in 1 .. c : x[i].kind = "event"
      <4> TAKE i \in 1 .. c
      <4>1. i + 1 \in 1 .. a /\ i \in 1 .. n
        BY <2>1, <3>1
      <4> QED BY <1>1, <1>3, <4>1 DEF Places
    <3>3. \A i \in c + 1 .. c + d : x[i].kind = "data"
      <4> TAKE i \in c + 1 .. c + d
      <4>1. i + 1 \in a + 1 .. a + d /\ i \in 1 .. n
        BY <2>1, <3>1
      <4> QED BY <1>1, <1>3, <4>1 DEF Places
    <3>4. \A i \in c + d + 1 .. f - 1 : x[i].kind = "event"
      <4> TAKE i \in c + d + 1 .. f - 1
      <4>1. i + 1 \in a + d + 1 .. e - 1 /\ i \in 1 .. n
        BY <2>1, <3>1
      <4> QED BY <1>1, <1>3, <4>1 DEF Places
    <3>5. \A i \in f + 1 .. n : x[i].kind = "event"
      <4> TAKE i \in f + 1 .. n
      <4>1. i + 1 \in e + 1 .. Len(way) /\ i \in 1 .. n
        BY <1>2, <2>1, <3>1
      <4> QED BY <1>1, <1>3, <4>1 DEF Places
    <3>6. x[f] = m.end
      BY <1>1, <1>3, <2>1, <3>1 DEF Places
    <3> QED BY <1>3, <3>1, <3>2, <3>3, <3>4, <3>5, <3>6 DEF Places
  <2>3. RowsLeft(kept, x, c, d) = RowsLeft(kept, way, a, d)
    <3>1. \A i \in 1 .. k + d : ~(i <= k) => x[c + (i - k)] = way[a + (i - k)]
      <4> TAKE i \in 1 .. k + d
      <4> HAVE ~(i <= k)
      <4>1. c + (i - k) \in 1 .. n /\ c + (i - k) + 1 = a + (i - k)
        BY <1>4, <2>1
      <4> QED BY <1>3, <4>1
    <3> QED BY <1>2, <3>1 DEF RowsLeft
  <2> QED BY <1>1, <1>2, <2>2, <2>3 DEF Answering
<1>7. CASE a = 0
  <2>1. d = 0
    <3>1. d > 0 => 1 \in a + 1 .. a + d
      BY <1>7
    <3>2. d > 0 => way[1].kind = "data"
      BY <1>1, <3>1 DEF Places
    <3> QED BY <3>2
  <2>2. PICK f \in Nat : e = f + 1 /\ f \in 1 .. n
    <3>1. e - 1 \in Nat /\ e = e - 1 + 1 /\ e - 1 \in 1 .. n
      BY <1>4, <1>5
    <3> QED BY <3>1
  <2>3. Places(x, m.end, 0, 0, f)
    <3>1. 0 + 0 < f /\ f <= n
      BY <2>2
    <3>2. \A i \in 0 + 0 + 1 .. f - 1 : x[i].kind = "event"
      <4> TAKE i \in 0 + 0 + 1 .. f - 1
      <4>1. i + 1 \in a + d + 1 .. e - 1 /\ i \in 1 .. n
        BY <1>7, <2>1, <2>2
      <4> QED BY <1>1, <1>3, <4>1 DEF Places
    <3>3. \A i \in f + 1 .. n : x[i].kind = "event"
      <4> TAKE i \in f + 1 .. n
      <4>1. i + 1 \in e + 1 .. Len(way) /\ i \in 1 .. n
        BY <1>2, <2>2
      <4> QED BY <1>1, <1>3, <4>1 DEF Places
    <3>4. x[f] = m.end
      BY <1>1, <1>3, <2>2 DEF Places
    <3> QED BY <1>3, <3>1, <3>2, <3>3, <3>4 DEF Places
  <2>4. RowsLeft(kept, x, 0, 0) = RowsLeft(kept, way, a, d)
    <3>1. \A i \in 1 .. k + 0 : i <= k
      OBVIOUS
    <3> QED BY <1>2, <1>7, <2>1, <3>1 DEF RowsLeft
  <2> QED BY <1>1, <1>2, <2>3, <2>4 DEF Answering
<1> QED BY <1>6, <1>7

\* Rows of the answer are taken and kept.
LEMMA AnsweringData ==
    ASSUME NEW S, NEW T, NEW kept \in Seq(T), NEW line \in T, NEW way \in Seq(S), way # <<>>, NEW m,
           Answering(kept, way, m), m.end.kind = "end", way[1].kind = "data",
           ParseDataLine(line) = way[1].rows
    PROVE  Answering(Append(kept, line), Tail(way), m)
<1>1. PICK a, d, e \in Nat :
         Places(way, m.end, a, d, e) /\ FlattenSeq(RowsLeft(kept, way, a, d)) = m.rows
  BY DEF Answering
<1>2. PICK n \in Nat, k \in Nat, x \in {Tail(way)}, y \in {Append(kept, line)} :
         n + 1 = Len(way) /\ k = Len(kept) /\ x = Tail(way) /\ y = Append(kept, line)
  <2>1. Len(way) \in Nat /\ Len(way) # 0
    BY EmptySeq
  <2>2. Len(way) - 1 \in Nat /\ Len(way) - 1 + 1 = Len(way)
    BY <2>1
  <2>3. Len(kept) \in Nat
    OBVIOUS
  <2> QED BY <2>2, <2>3
<1>3. Len(x) = n /\ \A i \in 1 .. n : x[i] = way[i + 1]
  BY <1>2
<1>4. a + d < e /\ e <= n + 1
  BY <1>1, <1>2 DEF Places
<1>5. a = 0
  <2>1. a > 0 => 1 \in 1 .. a
    OBVIOUS
  <2>2. a > 0 => way[1].kind = "event"
    BY <1>1, <2>1 DEF Places
  <2> QED BY <2>2
<1>6. d > 0
  <2>1. d = 0 => e = 1 \/ 1 \in a + d + 1 .. e - 1
    BY <1>4, <1>5
  <2>2. d = 0 => way[1].kind = "end" \/ way[1].kind = "event"
    BY <1>1, <2>1 DEF Places
  <2> QED BY <2>2
<1>7. PICK c \in Nat, f \in Nat : d = c + 1 /\ e = f + 1
  <2>1. d - 1 \in Nat /\ e - 1 \in Nat /\ d = d - 1 + 1 /\ e = e - 1 + 1
    BY <1>4, <1>6
  <2> QED BY <2>1
<1>8. c < f /\ f <= n /\ f \in 1 .. n
  BY <1>4, <1>5, <1>7
<1>9. Places(x, m.end, 0, c, f)
  <2>1. 0 + c < f /\ f <= Len(x)
    BY <1>3, <1>8
  <2>2. \A i \in 0 + 1 .. 0 + c : x[i].kind = "data"
    <3> TAKE i \in 0 + 1 .. 0 + c
    <3>1. i + 1 \in a + 1 .. a + d /\ i \in 1 .. n
      BY <1>5, <1>7, <1>8
    <3> QED BY <1>1, <1>3, <3>1 DEF Places
  <2>3. \A i \in 0 + c + 1 .. f - 1 : x[i].kind = "event"
    <3> TAKE i \in 0 + c + 1 .. f - 1
    <3>1. i + 1 \in a + d + 1 .. e - 1 /\ i \in 1 .. n
      BY <1>5, <1>7, <1>8
    <3> QED BY <1>1, <1>3, <3>1 DEF Places
  <2>4. \A i \in f + 1 .. Len(x) : x[i].kind = "event"
    <3> TAKE i \in f + 1 .. Len(x)
    <3>1. i + 1 \in e + 1 .. Len(way) /\ i \in 1 .. n
      BY <1>2, <1>3, <1>7, <1>8
    <3> QED BY <1>1, <1>3, <3>1 DEF Places
  <2>5. x[f] = m.end
    BY <1>1, <1>3, <1>7, <1>8 DEF Places
  <2> QED BY <2>1, <2>2, <2>3, <2>4, <2>5 DEF Places
<1>10. /\ Len(y) = k + 1 /\ (\A i \in 1 .. k : y[i] = kept[i]) /\ y[k + 1] = line
  BY <1>2, AppendFacts
<1>11. RowsLeft(y, x, 0, c) = RowsLeft(kept, way, a, d)
  <2>1. k + 1 + c = k + d
    BY <1>7
  <2>2. ASSUME NEW i \in 1 .. k + d
        PROVE  (IF i <= k + 1 THEN ParseDataLine(y[i]) ELSE x[0 + (i - (k + 1))].rows)
               = (IF i <= k THEN ParseDataLine(kept[i]) ELSE way[a + (i - k)].rows)
    <3>1. CASE i <= k
      BY <1>10, <3>1
    <3>2. CASE i = k + 1
      <4>1. a + (i - k) = 1 /\ ~(i <= k) /\ i <= k + 1
        BY <1>5, <3>2
      <4> QED BY <1>10, <3>2, <4>1
    <3>3. CASE i > k + 1
      <4>1. /\ ~(i <= k) /\ ~(i <= k + 1) /\ 0 + (i - (k + 1)) \in 1 .. n
            /\ 0 + (i - (k + 1)) + 1 = a + (i - k)
        BY <1>5, <1>7, <1>8, <3>3
      <4> QED BY <1>3, <4>1
    <3> QED BY <3>1, <3>2, <3>3
  <2> QED BY <1>2, <1>10, <2>1, <2>2 DEF RowsLeft
<1> QED BY <1>1, <1>2, <1>9, <1>11 DEF Answering

\* At the end of the answer all of its rows are kept, and nothing of it comes
\* after that.
LEMMA AnsweringEnd ==
    ASSUME NEW S, NEW T, NEW kept \in Seq(T), NEW way \in Seq(S), way # <<>>, NEW m,
           Answering(kept, way, m), way[1].kind = "end"
    PROVE  way[1] = m.end /\ ParseDataBlock(kept) = m.rows /\ Quiet(<<>>, Tail(way))
<1>1. PICK a, d, e \in Nat :
         Places(way, m.end, a, d, e) /\ FlattenSeq(RowsLeft(kept, way, a, d)) = m.rows
  BY DEF Answering
<1>2. a + d < e /\ e <= Len(way)
  BY <1>1 DEF Places
<1>3. a = 0
  <2>1. a > 0 => 1 \in 1 .. a
    OBVIOUS
  <2>2. a > 0 => way[1].kind = "event"
    BY <1>1, <2>1 DEF Places
  <2> QED BY <2>2
<1>4. d = 0
  <2>1. d > 0 => 1 \in a + 1 .. a + d
    BY <1>3
  <2>2. d > 0 => way[1].kind = "data"
    BY <1>1, <2>1 DEF Places
  <2> QED BY <2>2
<1>5. e = 1
  <2>1. e # 1 => 1 \in a + d + 1 .. e - 1
    BY <1>2, <1>3, <1>4
  <2>2. e # 1 => way[1].kind = "event"
    BY <1>1, <2>1 DEF Places
  <2> QED BY <2>2
<1>6. way[1] = m.end
  BY <1>1, <1>5 DEF Places
<1>7. ParseDataBlock(kept) = m.rows
  <2>1. RowsLeft(kept, way, a, d) = [i \in DOMAIN kept |-> ParseDataLine(kept[i])]
    <3>1. DOMAIN kept = 1 .. Len(kept) + 0 /\ \A i \in 1 .. Len(kept) + 0 : i <= Len(kept)
      OBVIOUS
    <3> QED BY <1>4, <3>1 DEF RowsLeft
  <2> QED BY <1>1, <2>1 DEF ParseDataBlock
<1>8. \A i \in 1 .. Len(Tail(way)) : Tail(way)[i].kind = "event"
  <2>1. PICK n \in Nat : Len(way) = n + 1
    <3>1. Len(way) \in Nat /\ Len(way) # 0
      BY EmptySeq
    <3>2. Len(way) - 1 \in Nat /\ Len(way) = Len(way) - 1 + 1
      BY <3>1
    <3> QED BY <3>2
  <2>2. Len(Tail(way)) = n /\ \A i \in 1 .. n : Tail(way)[i] = way[i + 1]
    BY <2>1
  <2>3. \A i \in 1 .. n : way[i + 1].kind = "event"
    <3> TAKE i \in 1 .. n
    <3>1. i + 1 \in e + 1 .. Len(way)
      BY <1>5, <2>1
    <3> QED BY <1>1, <3>1 DEF Places
  <2> QED BY <2>2, <2>3
<1> QED BY <1>6, <1>7, <1>8 DEF Quiet

\* The messages for the rows of an answer hold the rows, in order.
LEMMA RowMessagesFlat ==
    ASSUME NEW m, m.rows \in Seq(ToSet(m.rows)), NEW together \in BOOLEAN
    PROVE  LET r == RowMessages(m, together)
           IN \E n \in Nat :
                /\ r = [i \in 1 .. n |-> r[i]] /\ \A i \in 1 .. n : r[i].kind = "data"
                /\ FlattenSeq([i \in 1 .. n |-> r[i].rows]) = m.rows
<1>1. PICK rows, S, r : rows = m.rows /\ S = ToSet(m.rows) /\ r = RowMessages(m, together)
  OBVIOUS
<1>2. rows \in Seq(S)
  BY <1>1
<1>3. /\ rows = <<>> => r = <<>>
      /\ rows # <<>> /\ together => r = <<DataMessage(rows)>>
      /\ rows # <<>> /\ ~together => r = [i \in DOMAIN rows |-> DataMessage(<<rows[i]>>)]
  BY <1>1, Zenon DEF RowMessages
<1>4. \E n \in Nat :
         /\ r = [i \in 1 .. n |-> r[i]] /\ \A i \in 1 .. n : r[i].kind = "data"
         /\ FlattenSeq([i \in 1 .. n |-> r[i].rows]) = rows
  <2>1. CASE rows = <<>>
    <3>1. r = [i \in 1 .. 0 |-> r[i]] /\ [i \in 1 .. 0 |-> r[i].rows] = <<>>
      BY <1>3, <2>1
    <3>2. FlattenSeq([i \in 1 .. 0 |-> r[i].rows]) = rows
      BY <2>1, <3>1, FlattenNone
    <3> QED BY <3>1, <3>2
  <2>2. CASE rows # <<>> /\ together
    <3>1. PICK b : b = DataMessage(rows)
      OBVIOUS
    <3>2. b.kind = "data" /\ b.rows = rows
      BY <3>1 DEF DataMessage
    <3>3. r = <<b>>
      BY <1>3, <2>2, <3>1
    <3>4. r = [i \in 1 .. 1 |-> r[i]] /\ [i \in 1 .. 1 |-> r[i].rows] = <<rows>>
      BY <3>2, <3>3
    <3>5. FlattenSeq([i \in 1 .. 1 |-> r[i].rows]) = rows
      BY <1>2, <3>4, FlattenOne
    <3>6. \A i \in 1 .. 1 : r[i].kind = "data"
      BY <3>2, <3>3
    <3> QED BY <3>4, <3>5, <3>6
  <2>3. CASE rows # <<>> /\ ~together
    <3>1. PICK n \in Nat : n = Len(rows) /\ DOMAIN rows = 1 .. n
      BY <1>2
    <3>2. r = [i \in 1 .. n |-> DataMessage(<<rows[i]>>)]
      BY <1>3, <2>3, <3>1
    <3>3. r = [i \in 1 .. n |-> r[i]] /\ \A i \in 1 .. n : r[i].kind = "data"
      BY <3>2 DEF DataMessage
    <3>4. PICK seqs : seqs = [i \in 1 .. n |-> r[i].rows]
      OBVIOUS
    <3>5. seqs = [i \in 1 .. Len(rows) |-> <<rows[i]>>]
      BY <3>1, <3>2, <3>4 DEF DataMessage
    <3>6. FlattenSeq(seqs) = rows
      BY <1>2, <3>5, FlattenSingles
    <3> QED BY <3>3, <3>4, <3>6
  <2> QED BY <2>1, <2>2, <2>3
<1> QED BY <1>1, <1>4

\* An answer begins behind the notifications that are under way.
LEMMA AnsweringStarts ==
    ASSUME NEW S, NEW way \in Seq(S), Quiet(<<>>, way), NEW m, m.rows \in Seq(ToSet(m.rows)),
           NEW together \in BOOLEAN, RowMessages(m, together) \in Seq(S),
           NEW notices \in Seq(S), \A i \in 1 .. Len(notices) : notices[i].kind = "event",
           m.end \in S
    PROVE  Answering(<<>>, way \o ((RowMessages(m, together) \o notices) \o <<m.end>>), m)
<1>1. PICK r \in Seq(S), end \in S : r = RowMessages(m, together) /\ end = m.end
  OBVIOUS
<1>2. PICK q \in Nat :
         /\ r = [i \in 1 .. q |-> r[i]] /\ \A i \in 1 .. q : r[i].kind = "data"
         /\ FlattenSeq([i \in 1 .. q |-> r[i].rows]) = m.rows
  <2>1. LET r0 == RowMessages(m, together)
        IN \E n \in Nat :
             /\ r0 = [i \in 1 .. n |-> r0[i]] /\ \A i \in 1 .. n : r0[i].kind = "data"
             /\ FlattenSeq([i \in 1 .. n |-> r0[i].rows]) = m.rows
    BY RowMessagesFlat
  <2> QED BY <1>1, <2>1
<1>3. PICK w \in Nat, p \in Nat : w = Len(way) /\ p = Len(notices)
  OBVIOUS
<1>4. Len(r) = q
  BY <1>2
<1>5. PICK u : u = r \o notices
  OBVIOUS
<1>6. /\ u \in Seq(S) /\ Len(u) = q + p /\ (\A i \in 1 .. q : u[i] = r[i])
      /\ \A i \in 1 .. p : u[q + i] = notices[i]
  <2>1. r \o notices \in Seq(S) /\ Parts(r, notices)
    BY ConcatParts, Zenon
  <2> QED BY <1>3, <1>4, <1>5, <2>1, Zenon DEF Parts
<1>7. PICK k \in Nat, v \in {u \o <<end>>} : v = u \o <<end>> /\ k = q + p
  <2>1. q + p \in Nat
    OBVIOUS
  <2> QED BY <2>1
<1>8. v \in Seq(S) /\ Len(v) = k + 1 /\ (\A i \in 1 .. k : v[i] = u[i]) /\ v[k + 1] = end
  <2>1. u \in Seq(S) /\ Len(u) = k
    BY <1>6, <1>7
  <2>2. v = Append(u, end)
    BY <1>7, <2>1, AppendIsConcat
  <2> QED BY <2>1, <2>2, AppendFacts
<1>9. PICK e \in Nat, x \in {way \o v} : x = way \o v /\ e = w + (k + 1)
  <2>1. w + (k + 1) \in Nat
    OBVIOUS
  <2> QED BY <2>1
<1>10. /\ Len(x) = e /\ (\A i \in 1 .. w : x[i] = way[i])
       /\ \A i \in 1 .. k + 1 : x[w + i] = v[i]
  <2>1. way \in Seq(S) /\ v \in Seq(S)
    BY <1>8
  <2>2. Parts(way, v)
    BY <2>1, ConcatParts, Zenon
  <2>3. /\ Len(x) = w + (k + 1) /\ (\A i \in 1 .. w : x[i] = way[i])
        /\ \A i \in 1 .. k + 1 : x[w + i] = v[i]
    BY <1>3, <1>8, <1>9, <2>2, Zenon DEF Parts
  <2> QED BY <1>9, <2>3
<1>11. \A i \in 1 .. q : x[w + i] = r[i]
  <2> TAKE i \in 1 .. q
  <2>1. i \in 1 .. k /\ i \in 1 .. k + 1
    BY <1>7
  <2> QED BY <1>6, <1>8, <1>10, <2>1
<1>12. Places(x, end, w, q, e)
  <2>1. w + q < e /\ e <= Len(x)
    BY <1>7, <1>9, <1>10
  <2>2. \A i \in 1 .. w : x[i].kind = "event"
    BY <1>3, <1>10 DEF Quiet
  <2>3. \A i \in w + 1 .. w + q : x[i].kind = "data"
    <3> TAKE i \in w + 1 .. w + q
    <3>1. i - w \in 1 .. q /\ i = w + (i - w)
      OBVIOUS
    <3> QED BY <1>2, <1>11, <3>1
  <2>4. \A i \in w + q + 1 .. e - 1 : x[i].kind = "event"
    <3> TAKE i \in w + q + 1 .. e - 1
    <3>1. PICK j \in 1 .. p : i = w + (q + j)
      <4>1. i - (w + q) \in 1 .. p /\ i = w + (q + (i - (w + q)))
        BY <1>7, <1>9
      <4> QED BY <4>1
    <3>2. q + j \in 1 .. k /\ q + j \in 1 .. k + 1
      BY <1>7
    <3>3. x[i] = notices[j]
      BY <1>6, <1>8, <1>10, <3>1, <3>2
    <3> QED BY <1>3, <3>3
  <2>5. x[e] = end
    <3>1. k + 1 \in 1 .. k + 1
      OBVIOUS
    <3> QED BY <1>8, <1>9, <1>10, <3>1
  <2>6. \A i \in e + 1 .. Len(x) : x[i].kind = "event"
    BY <1>10
  <2> QED BY <2>1, <2>2, <2>3, <2>4, <2>5, <2>6 DEF Places
<1>13. RowsLeft(<<>>, x, w, q) = [i \in 1 .. q |-> r[i].rows]
  <2>1. Len(<<>>) = 0 /\ 0 + q = q /\ \A i \in 1 .. q : ~(i <= 0) /\ w + (i - 0) = w + i
    OBVIOUS
  <2> QED BY <1>11, <2>1 DEF RowsLeft
<1>14. Answering(<<>>, x, m)
  <2>1. Places(x, m.end, w, q, e) /\ FlattenSeq(RowsLeft(<<>>, x, w, q)) = m.rows
    BY <1>1, <1>2, <1>12, <1>13
  <2> QED BY <2>1, Zenon DEF Answering
<1> QED BY <1>1, <1>5, <1>7, <1>9, <1>14

-----------------------------------------------------------------------------
(* What the typed methods make of an answer *)

\* OutcomeExact, of a call c that was answered with m and has the outcome out.
Exact(c, m, out) ==
    LET accepted == m.end.id = "0"
        rows == m.rows
    IN /\ out.kind = "rows" =>
             CASE c.via = "exec"  -> accepted /\ out.rows = rows
               [] c.via = "list"  -> /\ accepted \/ m.end.id = EmptyResultSet
                                     /\ out.rows = rows
               [] c.via = "first" -> accepted /\ out.rows = <<rows[1]>>
               [] c.via = "init"  -> /\ accepted /\ out.rows = <<rows[1]>>
                                     /\ <<"ftkey">> \in DOMAIN rows[1]
       /\ out.kind = "text" => accepted /\ out.text = rows[1][<<c.via>>]
       /\ out.kind = "IndexError" => accepted /\ rows = <<>>
       /\ out.kind = "error" =>
             IF accepted
             THEN c.via = "init" /\ \A row \in ToSet(rows) : <<"ftkey">> \notin DOMAIN row
             ELSE /\ out.id = m.end.id /\ out.msg = m.end.msg
                  /\ \A n \in Number : m.end = Flood(n) => out.wait = n

LEMMA ExactNothing ==
    ASSUME NEW c, NEW m, NEW out, out.kind \in {"idle", "waiting", "closed", "ValueError"}
    PROVE  Exact(c, m, out)
  BY DEF Exact

LEMMA PairAt ==
    ASSUME NEW S, NEW s \in Seq(S), NEW i \in Nat, NEW j \in Nat, j = i + 1, 1 <= i, j <= Len(s)
    PROVE  SubSeq(s, i, j) = <<s[i], s[j]>>
<1>1. PICK u, a, b : u = SubSeq(s, i, j) /\ a = s[i] /\ b = s[j]
  OBVIOUS
<1>2. a \in S /\ b \in S
  BY <1>1
<1>3. u \in Seq(S) /\ Len(u) = 2 /\ u[1] = a /\ u[2] = b
  <2>1. \A k \in i .. j : s[k] \in S
    OBVIOUS
  <2>2. u \in Seq(S)
    BY <1>1, <2>1
  <2>3. Len(u) = 2
    BY <1>1
  <2>4. u[1] = s[i] /\ u[2] = s[i + 1]
    BY <1>1
  <2> QED BY <1>1, <2>2, <2>3, <2>4
<1>4. <<a, b>> \in Seq(S) /\ Len(<<a, b>>) = 2 /\ <<a, b>>[1] = a /\ <<a, b>>[2] = b
  BY <1>2
<1>5. u = <<a, b>>
  <2>1. \A k \in 1 .. 2 : u[k] = <<a, b>>[k]
    <3>1. \A k \in 1 .. 2 : k = 1 \/ k = 2
      OBVIOUS
    <3> QED BY <1>3, <1>4, <3>1
  <2> QED BY <1>3, <1>4, <2>1, SeqEqual
<1> QED BY <1>1, <1>5

\* A flooded client is told the number that stands in the text.
LEMMA FloodWait ==
    ASSUME NEW n \in Number
    PROVE  Flood(n).id = FloodErrorId /\ RetryAfter(Flood(n).extra) = n
<1> DEFINE phrase == <<"please", " ", "wait", " ", n, " ", "second", "s">>
<1>1. Flood(n).id = FloodErrorId /\ Get(Flood(n).extra, "extra_msg", <<>>) = phrase
  BY DEF Flood, EndMessage, Get
<1>2. PICK S : S = {"please", " ", "wait", n, "second", "s"}
  OBVIOUS
<1>3. "please" \in S /\ " " \in S /\ "wait" \in S /\ n \in S /\ "second" \in S /\ "s" \in S
  BY <1>2
<1>4. phrase \in Seq(S) /\ Len(phrase) = 8
  <2>1. PICK c1, c2, c3, c4, c5 \in S :
           "please" = c1 /\ " " = c2 /\ "wait" = c3 /\ "second" = c4 /\ "s" = c5
    BY <1>3
  <2>2. <<c1, c2, c3, c2, n, c2, c4, c5>> \in Seq(S) /\ Len(<<c1, c2, c3, c2, n, c2, c4, c5>>) = 8
    <3>1. n \in S
      BY <1>3
    <3> HIDE DEF phrase
    <3> QED BY <3>1
  <2>3. phrase = <<c1, c2, c3, c2, n, c2, c4, c5>>
    BY <2>1, Zenon
  <2> HIDE DEF phrase
  <2> QED BY <2>2, <2>3
<1>5. /\ phrase[1] = "please" /\ phrase[2] = " " /\ phrase[3] = "wait" /\ phrase[4] = " "
      /\ phrase[5] = n /\ phrase[6] = " " /\ phrase[7] = "second"
  OBVIOUS
<1> HIDE DEF phrase
<1>6. PICK text \in Seq(S), l \in Nat : text = phrase /\ l = Len(text) /\ l = 8
  <2>1. PICK x \in Seq(S) : x = phrase
    BY <1>4
  <2>2. Len(x) \in Nat
    OBVIOUS
  <2> QED BY <1>4, <2>1, <2>2
<1>7. \A i, j \in 1 .. 8 : j = i + 1 => SubSeq(text, i, j) = <<text[i], text[j]>>
  <2> TAKE i, j \in 1 .. 8
  <2> HAVE j = i + 1
  <2>1. i \in Nat /\ j \in Nat /\ 1 <= i /\ j <= Len(text)
    BY <1>6
  <2> QED BY <2>1, PairAt
<1>8. \A i \in 1 .. 4 : i \in 1 .. 8 /\ i + 1 \in 1 .. 8
  OBVIOUS
<1> DEFINE Matches(i) == /\ SubSeq(text, i, i + 1) = <<"wait", " ">>
                         /\ text[i + 2] \in Number
                         /\ SubSeq(text, i + 3, i + 4) = <<" ", "second">>
           found == {i \in 1 .. Len(text) - 4 : Matches(i)}
<1>9. Matches(3)
  <2>1. 3 + 1 = 4 /\ 3 + 2 = 5 /\ 3 + 3 = 6 /\ 3 + 4 = 7
    OBVIOUS
  <2>2. SubSeq(text, 3, 4) = <<text[3], text[4]>> /\ SubSeq(text, 6, 7) = <<text[6], text[7]>>
    <3>1. /\ 3 \in 1 .. 8 /\ 4 \in 1 .. 8 /\ 6 \in 1 .. 8 /\ 7 \in 1 .. 8
          /\ 4 = 3 + 1 /\ 7 = 6 + 1
      OBVIOUS
    <3> QED BY <1>7, <3>1
  <2>3. <<text[3], text[4]>> = <<"wait", " ">> /\ <<text[6], text[7]>> = <<" ", "second">>
    BY <1>5, <1>6, Zenon
  <2>4. text[5] \in Number
    BY <1>5, <1>6, Zenon
  <2> QED BY <2>1, <2>2, <2>3, <2>4, Zenon
<1>10. \A i \in 1 .. 4 : Matches(i) => text[i] = "wait"
  <2> SUFFICES ASSUME NEW i \in 1 .. 4, SubSeq(text, i, i + 1) = <<"wait", " ">>
               PROVE  text[i] = "wait"
    OBVIOUS
  <2>1. PICK x, y : x = text[i] /\ y = text[i + 1]
    OBVIOUS
  <2>2. SubSeq(text, i, i + 1) = <<x, y>>
    BY <1>7, <2>1, <1>8, Zenon
  <2>3. <<x, y>> = <<"wait", " ">>
    BY <2>2
  <2>4. <<x, y>>[1] = x /\ <<"wait", " ">>[1] = "wait"
    OBVIOUS
  <2> QED BY <2>1, <2>3, <2>4
<1> HIDE DEF Matches
<1>11. 1 .. Len(text) - 4 = 1 .. 4 /\ 3 \in 1 .. 4
  <2>1. l - 4 = 4
    BY <1>6
  <2> QED BY <1>6, <2>1
<1>12. \A i \in 1 .. 4 : text[i] = "wait" => i = 3
  <2>1. \A i \in 1 .. 4 : i = 1 \/ i = 2 \/ i = 3 \/ i = 4
    OBVIOUS
  <2>2. text[1] # "wait" /\ text[2] # "wait" /\ text[4] # "wait"
    BY <1>5, <1>6
  <2> QED BY <2>1, <2>2
<1>13. found = {3}
  BY <1>9, <1>10, <1>11, <1>12
<1>14. Min(found) = 3
  <2> HIDE DEF found
  <2> QED BY <1>13 DEF Min
<1>15. RetryAfter(Flood(n).extra) = IF found = {} THEN "1" ELSE text[Min(found) + 2]
  <2>1. PICK extra : extra = Flood(n).extra
    OBVIOUS
  <2>2. Get(extra, "extra_msg", <<>>) = text
    BY <1>1, <1>6, <2>1
  <2>3. RetryAfter(extra) = IF found = {} THEN "1" ELSE text[Min(found) + 2]
    BY <2>2, Zenon DEF RetryAfter, Matches, found
  <2> QED BY <2>1, <2>3
<1>16. RetryAfter(Flood(n).extra) = n
  <2> HIDE DEF found
  <2>1. 3 + 2 = 5
    OBVIOUS
  <2> QED BY <1>5, <1>6, <1>13, <1>14, <1>15, <2>1, Zenon
<1> QED BY <1>1, <1>16

\* Every typed method makes of the rows and the end of an answer what the
\* answer means.
LEMMA TypedExact ==
    ASSUME NEW c \in Call, Renderable(c), NEW m \in Meaning(ServerReads(RenderCommand(c))),
           NEW kept, ParseDataBlock(kept) = m.rows, NEW out,
           out = Typed(c.via, Outcome(kept, m.end))
    PROVE  Exact(c, m, out) /\ out # Waiting
<1>1. /\ c.via \in {"exec", "first", "cldbid", "cid", "list", "init"}
      /\ m.rows \in Seq(ToSet(m.rows)) /\ m.end.kind = "end"
      /\ m.end.id # "0" => m.rows = <<>>
      /\ c.via = "init" => Len(m.rows) <= 1
  BY AnswerAssumption
<1>2. PICK rows, end : rows = m.rows /\ end = m.end
  OBVIOUS
<1>3. PICK from : from = Outcome(kept, end)
  OBVIOUS
<1>4. CASE end.id = "0"
  <2>1. from = Returns(rows)
    BY <1>2, <1>3, <1>4 DEF Outcome
  <2>2. from.kind = "rows" /\ from.rows = rows
    BY <2>1 DEF Returns
  <2>3. CASE c.via = "exec"
    <3>1. out = from
      BY <1>2, <1>3, <2>3 DEF Typed
    <3> QED BY <1>2, <1>4, <2>2, <2>3, <3>1 DEF Exact, Waiting
  <2>4. CASE c.via = "list"
    <3>1. out = from
      BY <1>2, <1>3, <2>2, <2>4 DEF Typed, FileListOf
    <3> QED BY <1>2, <1>4, <2>2, <2>4, <3>1 DEF Exact, Waiting
  <2>5. CASE c.via = "first"
    <3>1. out = FirstRow(rows)
      BY <1>2, <1>3, <2>2, <2>5 DEF Typed
    <3>2. CASE rows = <<>>
      <4>1. out = [kind |-> "IndexError"]
        BY <3>1, <3>2 DEF FirstRow
      <4> QED BY <1>2, <1>4, <3>2, <4>1 DEF Exact, Waiting
    <3>3. CASE rows # <<>>
      <4>1. out.kind = "rows" /\ out.rows = <<rows[1]>>
        BY <3>1, <3>3 DEF FirstRow, Returns
      <4> QED BY <1>2, <1>4, <2>5, <4>1 DEF Exact, Waiting
    <3> QED BY <3>2, <3>3
  <2>6. CASE c.via \in {"cldbid", "cid"}
    <3>1. out = FirstField(rows, c.via)
      BY <1>2, <1>3, <2>2, <2>6 DEF Typed
    <3>2. CASE rows = <<>>
      <4>1. out = [kind |-> "IndexError"]
        BY <3>1, <3>2 DEF FirstField
      <4> QED BY <1>2, <1>4, <3>2, <4>1 DEF Exact, Waiting
    <3>3. CASE rows # <<>> /\ <<c.via>> \in DOMAIN rows[1]
      <4>1. out.kind = "text" /\ out.text = rows[1][<<c.via>>]
        BY <3>1, <3>3 DEF FirstField
      <4> QED BY <1>2, <1>4, <4>1 DEF Exact, Waiting
    <3>4. CASE rows # <<>> /\ <<c.via>> \notin DOMAIN rows[1]
      <4>1. out = [kind |-> "KeyError"]
        BY <3>1, <3>4 DEF FirstField
      <4> QED BY <4>1 DEF Exact, Waiting
    <3> QED BY <3>2, <3>3, <3>4
  <2>7. CASE c.via = "init"
    <3>1. out = Granted(rows)
      BY <1>2, <1>3, <2>2, <2>7 DEF Typed
    <3>2. CASE rows # <<>> /\ <<"ftkey">> \in DOMAIN rows[1]
      <4>1. out.kind = "rows" /\ out.rows = <<rows[1]>>
        BY <3>1, <3>2 DEF Granted, Returns
      <4> QED BY <1>2, <1>4, <2>7, <3>2, <4>1 DEF Exact, Waiting
    <3>3. CASE rows = <<>> \/ <<"ftkey">> \notin DOMAIN rows[1]
      <4>1. out.kind = "error"
        BY <3>1, <3>3 DEF Granted, Raises
      <4>2. \A row \in ToSet(rows) : <<"ftkey">> \notin DOMAIN row
        <5>1. PICK S : S = ToSet(rows)
          OBVIOUS
        <5>2. rows \in Seq(S) /\ Len(rows) <= 1
          BY <1>1, <1>2, <2>7, <5>1
        <5>3. \A i \in DOMAIN rows : i = 1 /\ rows # <<>>
          BY <5>2
        <5> QED BY <3>3, <5>3 DEF ToSet
      <4> QED BY <1>2, <1>4, <2>7, <4>1, <4>2 DEF Exact, Waiting
    <3> QED BY <3>2, <3>3
  <2> QED BY <1>1, <2>3, <2>4, <2>5, <2>6, <2>7
<1>5. CASE end.id # "0"
  <2>1. rows = <<>>
    BY <1>1, <1>2, <1>5
  <2>2. from.kind = "error" /\ from.id = end.id /\ from.msg = end.msg
    BY <1>3, <1>5 DEF Outcome, Raises
  <2>3. ASSUME NEW n \in Number, end = Flood(n) PROVE from.wait = n
    <3>1. end.id = FloodErrorId /\ RetryAfter(end.extra) = n
      BY <2>3, FloodWait
    <3> QED BY <1>3, <1>5, <3>1 DEF Outcome, Raises
  <2>4. CASE c.via = "list" /\ end.id = EmptyResultSet
    <3>1. out.kind = "rows" /\ out.rows = <<>>
      BY <1>2, <1>3, <2>2, <2>4 DEF Typed, FileListOf, Returns
    <3> QED BY <1>2, <2>1, <2>4, <3>1 DEF Exact, Waiting
  <2>5. CASE ~(c.via = "list" /\ end.id = EmptyResultSet)
    <3>1. out = from
      <4>1. CASE c.via = "list"
        BY <1>2, <1>3, <2>2, <2>5, <4>1 DEF Typed, FileListOf
      <4>2. CASE c.via # "list"
        BY <1>2, <1>3, <2>2, <4>2 DEF Typed
      <4> QED BY <4>1, <4>2
    <3>2. /\ out.kind = "error" /\ out.id = m.end.id /\ out.msg = m.end.msg
          /\ \A n \in Number : m.end = Flood(n) => out.wait = n
      BY <1>2, <2>2, <2>3, <3>1
    <3>3. m.end.id # "0" /\ out.kind \notin {"rows", "text", "IndexError"}
      BY <1>2, <1>5, <3>2
    <3>4. Exact(c, m, out)
      <4> HIDE DEF Flood
      <4> QED BY <3>2, <3>3, Zenon DEF Exact
    <3> QED BY <3>2, <3>4 DEF Waiting
  <2> QED BY <2>4, <2>5
<1> QED BY <1>4, <1>5

-----------------------------------------------------------------------------
(* The exchange in the state of Wire *)

\* The call in progress is answered by what the server meant.
Answered ==
    /\ meant \in Meaning(ServerReads(RenderCommand(call)))
    /\ Answering(dataBuf, underway, meant)

\* While the session lives a command is on its way, or answered, only if a
\* caller waits for it, and nothing is left of those before.
ExchangeInv ==
    /\ dataBuf \in Seq(LineText)
    /\ answer = Waiting =>
          call \in Call /\ Renderable(call) /\ (Quiet(dataBuf, underway) \/ Answered)
    /\ answer # Waiting => Quiet(dataBuf, underway) /\ outbound = <<>>
    /\ outbound # <<>> => Quiet(dataBuf, underway) /\ outbound = RenderCommand(call)

OutcomeInv ==
    /\ recv = "greeting" => answer = Idle /\ dataBuf = <<>>
    /\ recv = "loop" => ExchangeInv
    /\ outbound # <<>> => answer \in {Waiting, Closed, Idle}
    /\ OutcomeExact

LEMMA ExactOutcome == OutcomeExact <=> Exact(call, meant, answer)
  BY DEF OutcomeExact, Exact

LEMMA OutcomeInit == Init => OutcomeInv
<1> SUFFICES ASSUME Init PROVE OutcomeInv
  OBVIOUS
<1>1. recv = "greeting" /\ answer = Idle /\ dataBuf = <<>> /\ outbound = <<>>
  BY DEF Init
<1>2. OutcomeExact
  BY <1>1, ExactNothing, ExactOutcome DEF Idle
<1> QED BY <1>1, <1>2 DEF OutcomeInv

\* A message that the loop takes keeps the exchange in order; the end of the
\* answer is what the caller gets.
LEMMA ExchangeTake ==
    ASSUME ExchangeInv, OutcomeInv, underway \in Seq(Sendable), underway # <<>>, recv = "loop",
           MessageTaken(Head(underway)), UNCHANGED <<call, meant, outbound>>
    PROVE  OutcomeInv'
<1>1. PICK m : m = Head(underway) /\ m = underway[1] /\ MessageTaken(m)
  OBVIOUS
<1>2. dataBuf \in Seq(LineText) /\ Len(dataBuf) \in Nat
  BY DEF ExchangeInv
<1>3. ASSUME OutcomeExact', answer' \in {answer, Closed}, recv' \in {"loop", "crashed"},
             recv' = "loop" => ExchangeInv'
      PROVE  OutcomeInv'
  <2>1. outbound' # <<>> => answer' \in {Waiting, Closed, Idle}
    BY <1>3 DEF OutcomeInv
  <2> QED BY <1>3, <2>1 DEF OutcomeInv
<1>4. Quiet(dataBuf, underway) => m.kind = "event" /\ Quiet(dataBuf, Tail(underway))
  <2> HAVE Quiet(dataBuf, underway)
  <2>1. PICK n \in Nat : Len(underway) = n + 1
    <3>1. Len(underway) \in Nat /\ Len(underway) # 0
      BY EmptySeq
    <3>2. Len(underway) - 1 \in Nat /\ Len(underway) = Len(underway) - 1 + 1
      BY <3>1
    <3> QED BY <3>2
  <2>2. 1 \in 1 .. Len(underway)
    BY <2>1
  <2>3. \A i \in 1 .. Len(Tail(underway)) : Tail(underway)[i].kind = "event"
    <3> TAKE i \in 1 .. Len(Tail(underway))
    <3>1. i + 1 \in 1 .. Len(underway) /\ Tail(underway)[i] = underway[i + 1]
      BY <2>1
    <3> QED BY <3>1 DEF Quiet
  <2> QED BY <1>1, <2>2, <2>3 DEF Quiet
<1>5. Answered => meant.end.kind = "end" \/ answer # Waiting
  BY AnswerAssumption DEF Answered, ExchangeInv
<1>6. CASE /\ m.kind = "event" /\ underway' = Tail(underway)
           /\ UNCHANGED <<recv, dataBuf, answer>>
  <2>1. ASSUME answer = Waiting, Answered PROVE Answered'
    <3>1. Answering(dataBuf, Tail(underway), meant)
      BY <1>1, <1>2, <1>5, <1>6, <2>1, AnsweringEvent DEF Answered
    <3> QED BY <1>6, <2>1, <3>1 DEF Answered
  <2>2. Quiet(dataBuf, underway) => Quiet(dataBuf', underway')
    BY <1>4, <1>6
  <2>3. ExchangeInv'
    BY <1>6, <2>1, <2>2 DEF ExchangeInv
  <2>4. OutcomeExact'
    BY <1>6 DEF OutcomeInv, OutcomeExact
  <2> QED BY <1>3, <1>6, <2>3, <2>4
<1>7. CASE /\ m.kind = "data" /\ underway' = Tail(underway)
           /\ \E line \in LineText : ParseDataLine(line) = m.rows /\ dataBuf' = Append(dataBuf, line)
           /\ UNCHANGED <<recv, answer>>
  <2>1. ~Quiet(dataBuf, underway)
    BY <1>4, <1>7
  <2>2. answer = Waiting /\ Answered /\ outbound = <<>>
    BY <2>1 DEF ExchangeInv
  <2>3. PICK line \in LineText : ParseDataLine(line) = m.rows /\ dataBuf' = Append(dataBuf, line)
    BY <1>7
  <2>4. Answering(Append(dataBuf, line), Tail(underway), meant)
    BY <1>1, <1>2, <1>5, <1>7, <2>2, <2>3, AnsweringData DEF Answered
  <2>5. Answered'
    BY <1>7, <2>2, <2>3, <2>4 DEF Answered
  <2>6. dataBuf' \in Seq(LineText)
    BY <1>2, <2>3
  <2>7. ExchangeInv'
    BY <1>7, <2>2, <2>5, <2>6 DEF ExchangeInv
  <2>8. OutcomeExact'
    BY <1>7 DEF OutcomeInv, OutcomeExact
  <2> QED BY <1>3, <1>7, <2>7, <2>8
<1>8. CASE /\ m.kind = "end" /\ underway' = Tail(underway) /\ dataBuf' = <<>>
           /\ Resolve(Typed(call.via, Outcome(dataBuf, m))) /\ UNCHANGED recv
  <2>1. ~Quiet(dataBuf, underway)
    BY <1>4, <1>8
  <2>2. answer = Waiting /\ Answered /\ outbound = <<>> /\ call \in Call /\ Renderable(call)
    BY <2>1 DEF ExchangeInv
  <2>3. /\ m = meant.end /\ ParseDataBlock(dataBuf) = meant.rows
        /\ Quiet(<<>>, Tail(underway))
    BY <1>1, <1>2, <1>8, <2>2, AnsweringEnd DEF Answered
  <2>4. answer' = Typed(call.via, Outcome(dataBuf, meant.end))
    BY <1>8, <2>2, <2>3 DEF Resolve
  <2>5. Exact(call, meant, answer') /\ answer' # Waiting
    BY <2>2, <2>3, <2>4, TypedExact DEF Answered
  <2>6. OutcomeExact'
    BY <2>5 DEF Exact, OutcomeExact
  <2>7. ExchangeInv'
    <3>1. Quiet(dataBuf', underway') /\ outbound' = <<>> /\ answer' # Waiting
      BY <1>8, <2>2, <2>3, <2>5
    <3>2. dataBuf' \in Seq(LineText)
      BY <1>8
    <3> QED BY <3>1, <3>2 DEF ExchangeInv
  <2>8. outbound' = <<>> /\ recv' = "loop"
    BY <1>8, <2>2
  <2> QED BY <2>6, <2>7, <2>8 DEF OutcomeInv
<1>9. CASE recv' = "crashed" /\ UNCHANGED underway /\ Resolve(Closed)
  <2>1. answer' = answer \/ answer' = Closed
    BY <1>9 DEF Resolve
  <2>2. OutcomeExact'
    <3>1. CASE answer' = answer
      BY <3>1 DEF OutcomeInv, OutcomeExact
    <3>2. CASE answer' = Closed
      <4>1. Exact(call', meant', answer')
        BY <3>2, ExactNothing DEF Closed
      <4> QED BY <4>1 DEF Exact, OutcomeExact
    <3> QED BY <2>1, <3>1, <3>2
  <2> QED BY <1>3, <1>9, <2>1, <2>2
<1> QED BY <1>1, <1>6, <1>7, <1>8, <1>9 DEF MessageTaken

LEMMA EventSendable ==
    ASSUME NEW event \in Event
    PROVE  EventMessage(event) \in Sendable /\ EventMessage(event).kind = "event"
<1>1. EventMessage(event) \in Sendable
  BY DEF Sendable
<1>2. EventMessage(event).kind = "event"
  BY DEF EventMessage
<1> QED BY <1>1, <1>2

\* Notifications that are sent leave the exchange as it is.
LEMMA ExchangeNotified ==
    ASSUME ExchangeInv, underway \in Seq(Sendable), NEW b \in Sendable, b.kind = "event",
           underway' = underway \o <<b>>, UNCHANGED <<outbound, dataBuf, call, answer, meant>>
    PROVE  ExchangeInv'
<1>1. Len(dataBuf) \in Nat
  BY DEF ExchangeInv
<1>2. Answered => Answered'
  BY <1>1, AnsweringMore DEF Answered
<1>3. Quiet(dataBuf, underway) => Quiet(dataBuf', underway')
  <2> HAVE Quiet(dataBuf, underway)
  <2>1. PICK n \in Nat, x \in {underway \o <<b>>} : n = Len(underway) /\ x = underway \o <<b>>
    OBVIOUS
  <2>2. Len(x) = n + 1 /\ (\A i \in 1 .. n : x[i] = underway[i]) /\ x[n + 1] = b
    BY <2>1
  <2>3. \A i \in 1 .. n + 1 : x[i].kind = "event"
    <3> TAKE i \in 1 .. n + 1
    <3>1. CASE i = n + 1
      BY <2>2, <3>1
    <3>2. CASE i # n + 1
      <4>1. i \in 1 .. n
        BY <3>2
      <4> QED BY <2>1, <2>2, <4>1 DEF Quiet
    <3> QED BY <3>1, <3>2
  <2> QED BY <2>1, <2>2, <2>3 DEF Quiet
<1> QED BY <1>2, <1>3 DEF ExchangeInv

\* The command that is on its way is answered.
LEMMA ExchangeAnswered ==
    ASSUME ExchangeInv, underway \in Seq(Sendable), outbound # <<>>,
           answer \in {Waiting, Closed, Idle}, ServerAnswers
    PROVE  ExchangeInv'
<1>1. /\ answer = Waiting /\ call \in Call /\ Renderable(call) /\ outbound = RenderCommand(call)
      /\ Quiet(dataBuf, underway) /\ dataBuf = <<>>
  BY DEF ExchangeInv, Quiet
<1>2. PICK m \in Meaning(ServerReads(RenderCommand(call))), together \in BOOLEAN,
           notices \in {<<>>} \cup {<<EventMessage(event)>> : event \in Event} :
             /\ meant' = m
             /\ Send(RowMessages(m, together) \o notices \o <<m.end>>)
  BY <1>1, Zenon DEF ServerAnswers
<1>3. UNCHANGED <<dataBuf, call, answer>> /\ outbound' = <<>>
  BY Zenon DEF ServerAnswers, readerVars, callVars
<1>4. m \in Answerable
  BY <1>1 DEF Answerable
<1>5. RowMessages(m, together) \in Seq(Sendable)
  <2>1. PICK r : r = RowMessages(m, together)
    OBVIOUS
  <2>2. ToSet(r) \subseteq Sendable
    BY <1>4, <2>1 DEF Sendable
  <2>3. m.rows \in Seq(ToSet(m.rows))
    BY <1>1, AnswerAssumption
  <2>4. \E n \in Nat : r = [i \in 1 .. n |-> r[i]]
    <3>1. LET r0 == RowMessages(m, together)
          IN \E n \in Nat :
               /\ r0 = [i \in 1 .. n |-> r0[i]] /\ \A i \in 1 .. n : r0[i].kind = "data"
               /\ FlattenSeq([i \in 1 .. n |-> r0[i].rows]) = m.rows
      BY <2>3, RowMessagesFlat
    <3> QED BY <2>1, <3>1
  <2>5. PICK n \in Nat : r = [i \in 1 .. n |-> r[i]]
    BY <2>4
  <2>6. \A i \in 1 .. n : r[i] \in Sendable
    BY <2>2, <2>5 DEF ToSet
  <2> QED BY <2>1, <2>5, <2>6
<1>6. notices \in Seq(Sendable) /\ \A i \in 1 .. Len(notices) : notices[i].kind = "event"
  <2>1. CASE notices = <<>>
    BY <2>1
  <2>2. CASE notices \in {<<EventMessage(event)>> : event \in Event}
    <3>1. PICK event \in Event : notices = <<EventMessage(event)>>
      BY <2>2
    <3>2. PICK b : b = EventMessage(event)
      OBVIOUS
    <3>3. b \in Sendable /\ b.kind = "event"
      BY <3>2, EventSendable
    <3>4. notices = <<b>>
      BY <3>1, <3>2
    <3> QED BY <3>3, <3>4
  <2> QED BY <2>1, <2>2
<1>7. m.end \in Sendable
  BY <1>4 DEF Sendable
<1>8. Answering(<<>>, underway \o ((RowMessages(m, together) \o notices) \o <<m.end>>), m)
  <2>1. m.rows \in Seq(ToSet(m.rows))
    BY <1>1, AnswerAssumption
  <2> QED BY <1>1, <1>5, <1>6, <1>7, <2>1, AnsweringStarts
<1>9. underway' = underway \o ((RowMessages(m, together) \o notices) \o <<m.end>>)
  BY <1>2, Zenon DEF Send
<1>10. Answered'
  BY <1>1, <1>2, <1>3, <1>8, <1>9, Zenon DEF Answered
<1>11. dataBuf' \in Seq(LineText)
  BY <1>3 DEF ExchangeInv
<1> QED BY <1>1, <1>3, <1>10, <1>11 DEF ExchangeInv

LEMMA OutcomeStep ==
    GreetInv /\ StreamInv /\ OutcomeInv /\ [Next]_vars => OutcomeInv'
<1> SUFFICES ASSUME GreetInv, StreamInv, OutcomeInv, [Next]_vars PROVE OutcomeInv'
  OBVIOUS
<1>0. /\ recv \in {"greeting", "loop", "closed", "crashed"}
      /\ up \in BOOLEAN /\ underway \in Seq(Sendable)
      /\ recv = "greeting" => underway = <<>> /\ outbound = <<>>
  BY DEF GreetInv, GreetingRead, StreamInv
<1>1. ASSUME UNCHANGED <<call, answer, meant>> PROVE OutcomeExact'
  BY <1>1 DEF OutcomeInv, OutcomeExact
<1>2. ASSUME answer'.kind \in {"idle", "waiting", "closed", "ValueError"} PROVE OutcomeExact'
  <2>1. Exact(call', meant', answer')
    BY <1>2, ExactNothing
  <2> QED BY <2>1 DEF Exact, OutcomeExact
<1>3. ASSUME UNCHANGED <<outbound, recv, dataBuf, call, answer, meant, underway>> PROVE OutcomeInv'
  <2>1. ExchangeInv => ExchangeInv'
    BY <1>3 DEF ExchangeInv, Answered
  <2> QED BY <1>1, <1>3, <2>1 DEF OutcomeInv
<1>4. CASE UNCHANGED vars
  BY <1>3, <1>4 DEF vars, wireVars, readerVars, callVars, history
<1>5. CASE ReadMore
  BY <1>3, <1>5 DEF ReadMore, callVars, history
<1>6. CASE ReadEnd
  <2>1. recv' = "closed" /\ UNCHANGED <<outbound, call, meant>> /\ Resolve(Closed)
    BY <1>6 DEF ReadEnd, wireVars, history
  <2>2. answer' = answer \/ answer' = Closed
    BY <2>1 DEF Resolve
  <2>3. OutcomeExact'
    BY <1>1, <1>2, <2>1, <2>2 DEF Closed
  <2> QED BY <2>1, <2>2, <2>3 DEF OutcomeInv
<1>7. CASE ReadLine
  <2>1. CASE recv = "loop"
    <3>1. UNCHANGED <<call, meant>>
      BY <1>7 DEF ReadLine
    <3>2. UNCHANGED outbound
      BY <1>7 DEF ReadLine, wireVars
    <3>3. \/ UNCHANGED <<recv, dataBuf, answer, underway>>
          \/ underway # <<>> /\ MessageTaken(Head(underway))
      BY <1>0, <1>7, <2>1, LineTaken
    <3>4. ExchangeInv
      BY <2>1 DEF OutcomeInv
    <3> QED BY <1>0, <1>3, <2>1, <3>1, <3>2, <3>3, <3>4, ExchangeTake
  <2>2. CASE recv = "greeting"
    <3>1. /\ UNCHANGED <<outbound, call, meant, dataBuf, answer, underway>>
          /\ recv' = recv \/ recv' = "loop"
      BY <1>7, <2>2 DEF ReadLine, TakeGreeting, wireVars
    <3>2. answer = Idle /\ dataBuf = <<>> /\ underway = <<>> /\ outbound = <<>>
      BY <1>0, <2>2 DEF OutcomeInv
    <3>3. CASE recv' = recv
      BY <1>3, <3>1, <3>3
    <3>4. CASE recv' = "loop"
      <4>1. dataBuf' \in Seq(LineText) /\ Quiet(dataBuf', underway')
        BY <3>1, <3>2 DEF Quiet
      <4>2. answer' # Waiting /\ outbound' = <<>>
        BY <3>1, <3>2 DEF Idle, Waiting
      <4>3. ExchangeInv'
        BY <4>1, <4>2 DEF ExchangeInv
      <4> QED BY <1>1, <3>1, <3>4, <4>2, <4>3 DEF OutcomeInv
    <3> QED BY <3>1, <3>3, <3>4
  <2> QED BY <1>7, <2>1, <2>2 DEF ReadLine, Reading
<1>8. CASE ServerAnswers
  <2>1. /\ outbound # <<>> /\ outbound' = <<>> /\ UNCHANGED <<recv, dataBuf, call, answer>>
    BY <1>8, Zenon DEF ServerAnswers, readerVars, callVars
  <2>2. answer \in {Waiting, Closed, Idle} /\ recv # "greeting"
    BY <1>0, <2>1 DEF OutcomeInv
  <2>3. OutcomeExact'
    BY <1>2, <2>1, <2>2 DEF Waiting, Closed, Idle
  <2>4. recv' = "loop" => ExchangeInv'
    <3> HAVE recv' = "loop"
    <3>1. ExchangeInv
      BY <2>1 DEF OutcomeInv
    <3> QED BY <1>0, <1>8, <2>1, <2>2, <3>1, ExchangeAnswered
  <2> QED BY <2>1, <2>2, <2>3, <2>4 DEF OutcomeInv
<1>9. CASE ServerNotifies
  <2>1. PICK event \in Event : Send(<<EventMessage(event)>>)
    BY <1>9 DEF ServerNotifies
  <2>2. recv # "greeting" /\ UNCHANGED <<outbound, recv, dataBuf, call, answer, meant>>
    BY <1>9 DEF ServerNotifies, readerVars, callVars
  <2>3. PICK b \in Sendable : b = EventMessage(event) /\ b.kind = "event"
    <3>1. PICK b : b = EventMessage(event)
      OBVIOUS
    <3>2. b \in Sendable /\ b.kind = "event"
      BY <3>1, EventSendable
    <3> QED BY <3>1, <3>2
  <2>4. underway' = underway \o <<b>>
    BY <2>1, <2>3, Zenon DEF Send
  <2>5. ExchangeInv => ExchangeInv'
    BY <1>0, <2>2, <2>3, <2>4, ExchangeNotified
  <2> QED BY <1>1, <2>2, <2>5 DEF OutcomeInv
<1>10. CASE ServerBlanks
  BY <1>3, <1>10 DEF ServerBlanks, readerVars, callVars, history
<1>11. CASE ServerDrops
  BY <1>3, <1>11 DEF ServerDrops, readerVars, callVars, history
<1>12. ASSUME NEW c \in Call, Exec(c) PROVE OutcomeInv'
  <2>1. /\ recv = "loop" /\ answer = Idle /\ call' = c
        /\ UNCHANGED <<recv, dataBuf, underway, meant>>
    BY <1>12 DEF Exec, readerVars, history
  <2>2. \/ Renderable(c) /\ outbound' = RenderCommand(c) /\ answer' = Waiting
        \/ UNCHANGED outbound /\ answer' = [kind |-> "ValueError"]
    BY <1>12, Zenon DEF Exec
  <2>3. answer # Waiting /\ ExchangeInv
    BY <2>1 DEF OutcomeInv, Idle, Waiting
  <2>4. Quiet(dataBuf, underway) /\ outbound = <<>> /\ dataBuf \in Seq(LineText)
    BY <2>3 DEF ExchangeInv
  <2>5. OutcomeExact'
    BY <1>2, <2>2 DEF Waiting
  <2>6. CASE Renderable(c) /\ outbound' = RenderCommand(c) /\ answer' = Waiting
    <3>1. ExchangeInv'
      BY <2>1, <2>4, <2>6 DEF ExchangeInv
    <3> QED BY <2>1, <2>5, <2>6, <3>1 DEF OutcomeInv
  <2>7. CASE UNCHANGED outbound /\ answer' = [kind |-> "ValueError"]
    <3>1. answer' # Waiting
      BY <2>7 DEF Waiting
    <3>2. ExchangeInv'
      BY <2>1, <2>4, <2>7, <3>1 DEF ExchangeInv
    <3> QED BY <2>1, <2>4, <2>5, <2>7, <3>2 DEF OutcomeInv
  <2> QED BY <2>2, <2>6, <2>7
<1>13. CASE Return
  <2>1. /\ answer # Waiting /\ answer' = Idle
        /\ UNCHANGED <<outbound, recv, dataBuf, underway>>
    BY <1>13 DEF Return, wireVars, readerVars
  <2>2. OutcomeExact'
    BY <1>2, <2>1 DEF Idle
  <2>3. answer' # Waiting
    BY <2>1 DEF Idle, Waiting
  <2>4. ExchangeInv => ExchangeInv'
    BY <2>1, <2>3 DEF ExchangeInv
  <2> QED BY <2>1, <2>2, <2>4 DEF OutcomeInv
<1> QED
  BY <1>4, <1>5, <1>6, <1>7, <1>8, <1>9, <1>10, <1>11, <1>12, <1>13 DEF Next, Reader, Server

\* The caller gets what the server meant:
\* the rows of the answer to its own command, all of them and in order, the
\* row or the field of them, or the refusal.
THEOREM OutcomesExact ==
    Spec => []OutcomeExact
<1>1. Init => GreetInv /\ StreamInv /\ OutcomeInv
  BY GreetInit, StreamInit, OutcomeInit
<1>2. GreetInv /\ StreamInv /\ OutcomeInv /\ [Next]_vars => GreetInv' /\ StreamInv' /\ OutcomeInv'
  BY GreetStep, StreamStep, OutcomeStep
<1>3. OutcomeInv => OutcomeExact
  BY DEF OutcomeInv
<1> QED BY <1>1, <1>2, <1>3, PTL DEF Spec

-----------------------------------------------------------------------------
(* What the server understands *)

\* What was read of the call in progress is kept until its caller has the
\* answer, and a command that is on its way after the loop has ended reaches
\* nobody.
UnderstoodInv ==
    /\ understood # None =>
          /\ call \in Call /\ Renderable(call) /\ understood = ServerReads(RenderCommand(call))
    /\ answer = Idle => understood = None
    /\ outbound # <<>> => recv = "loop" \/ ~up

\* No answer a typed method gives is that there is none.
LEMMA TypedGiven ==
    ASSUME NEW c \in Call, Renderable(c), NEW kept, NEW end
    PROVE  Typed(c.via, Outcome(kept, end)) # Idle
<1>1. PICK via : via = c.via
  OBVIOUS
<1>2. via \in {"exec", "first", "cldbid", "cid", "list", "init"}
  BY <1>1, AnswerAssumption
<1>3. PICK from : from = Outcome(kept, end)
  OBVIOUS
<1>4. from.kind = "rows" \/ from.kind = "error"
  BY <1>3 DEF Outcome, Returns, Raises
<1>5. PICK out : out = Typed(via, from)
  OBVIOUS
<1>6. out.kind # "idle"
  <2>1. CASE via = "list"
    BY <1>4, <1>5, <2>1 DEF Typed, FileListOf, Returns
  <2>2. CASE via = "exec" \/ (via # "list" /\ from.kind = "error")
    <3>1. out = from
      BY <1>5, <2>2 DEF Typed
    <3> QED BY <1>4, <3>1
  <2>3. CASE via = "first" /\ from.kind = "rows"
    BY <1>5, <2>3 DEF Typed, FirstRow, Returns
  <2>4. CASE via \in {"cldbid", "cid"} /\ from.kind = "rows"
    <3>1. out = FirstField(from.rows, via)
      BY <1>5, <2>4 DEF Typed
    <3> QED BY <3>1 DEF FirstField
  <2>5. CASE via = "init" /\ from.kind = "rows"
    <3>1. out = Granted(from.rows)
      BY <1>5, <2>5 DEF Typed
    <3> QED BY <3>1 DEF Granted, Returns, Raises
  <2> QED BY <1>2, <1>4, <2>1, <2>2, <2>3, <2>4, <2>5
<1> QED BY <1>1, <1>3, <1>5, <1>6 DEF Idle

LEMMA UnderstoodInit == Init => UnderstoodInv
  BY DEF Init, UnderstoodInv

\* A message that the loop takes is the end of the loop only if no command is
\* on its way, and it leaves no caller with nothing.
LEMMA UnderstoodTake ==
    ASSUME ExchangeInv, underway \in Seq(Sendable), underway # <<>>, recv = "loop",
           MessageTaken(Head(underway)), UNCHANGED outbound
    PROVE  /\ outbound # <<>> => recv' = "loop"
           /\ answer # Idle => answer' # Idle
<1>1. PICK m : m = Head(underway) /\ m = underway[1] /\ MessageTaken(m)
  OBVIOUS
<1>2. answer # Idle => answer' # Idle
  <2>1. CASE UNCHANGED answer
    BY <2>1
  <2>2. CASE Resolve(Closed)
    BY <2>2 DEF Resolve, Closed, Idle
  <2>3. CASE Resolve(Typed(call.via, Outcome(dataBuf, m)))
    <3>1. CASE answer = Waiting
      <4>1. call \in Call /\ Renderable(call)
        BY <3>1 DEF ExchangeInv
      <4> QED BY <2>3, <3>1, <4>1, TypedGiven DEF Resolve
    <3>2. CASE answer # Waiting
      BY <2>3, <3>2 DEF Resolve
    <3> QED BY <3>1, <3>2
  <2> QED BY <1>1, <2>1, <2>2, <2>3 DEF MessageTaken
<1>3. outbound # <<>> => recv' = "loop"
  <2> SUFFICES ASSUME outbound # <<>>, recv' # "loop" PROVE FALSE
    OBVIOUS
  <2>1. m.kind = "end"
    BY <1>1 DEF MessageTaken
  <2>2. Quiet(dataBuf, underway)
    BY DEF ExchangeInv
  <2>3. 1 \in 1 .. Len(underway)
    <3>1. Len(underway) \in Nat /\ Len(underway) # 0
      BY EmptySeq
    <3> QED BY <3>1
  <2>4. m.kind = "event"
    BY <1>1, <2>2, <2>3 DEF Quiet
  <2> QED BY <2>1, <2>4
<1> QED BY <1>2, <1>3

LEMMA UnderstoodStep ==
    GreetInv /\ StreamInv /\ OutcomeInv /\ UnderstoodInv /\ [Next]_vars => UnderstoodInv'
<1> SUFFICES ASSUME GreetInv, StreamInv, OutcomeInv, UnderstoodInv, [Next]_vars
             PROVE  UnderstoodInv'
  OBVIOUS
<1>0. /\ up \in BOOLEAN /\ underway \in Seq(Sendable)
      /\ recv = "greeting" => underway = <<>> /\ outbound = <<>>
  BY DEF GreetInv, GreetingRead, StreamInv
<1>1. ASSUME UNCHANGED <<understood, call>>, answer # Idle => answer' # Idle,
             outbound' # <<>> => recv' = "loop" \/ ~up'
      PROVE  UnderstoodInv'
  BY <1>1 DEF UnderstoodInv
<1>2. ASSUME UNCHANGED <<understood, call, answer, outbound, recv>>, up' => up
      PROVE  UnderstoodInv'
  BY <1>2 DEF UnderstoodInv
<1>3. CASE UNCHANGED vars
  BY <1>2, <1>3 DEF vars, wireVars, readerVars, callVars, history
<1>4. CASE ReadMore
  BY <1>2, <1>4 DEF ReadMore, callVars, history
<1>5. CASE ReadEnd
  <2>1. ~up' /\ UNCHANGED <<understood, call>> /\ Resolve(Closed)
    BY <1>5 DEF ReadEnd, wireVars, history
  <2>2. answer # Idle => answer' # Idle
    BY <2>1 DEF Resolve, Closed, Idle
  <2> QED BY <1>1, <2>1, <2>2
<1>6. CASE ReadLine
  <2>1. UNCHANGED <<understood, call, outbound, up>>
    BY <1>6 DEF ReadLine, wireVars
  <2>2. CASE recv = "loop"
    <3>1. \/ UNCHANGED <<recv, dataBuf, answer, underway>>
          \/ underway # <<>> /\ MessageTaken(Head(underway))
      BY <1>0, <1>6, <2>2, LineTaken
    <3>2. ExchangeInv
      BY <2>2 DEF OutcomeInv
    <3>3. CASE UNCHANGED <<recv, dataBuf, answer, underway>>
      BY <1>2, <2>1, <3>3
    <3>4. CASE underway # <<>> /\ MessageTaken(Head(underway))
      <4>1. /\ outbound # <<>> => recv' = "loop"
            /\ answer # Idle => answer' # Idle
        BY <1>0, <2>1, <2>2, <3>2, <3>4, UnderstoodTake
      <4> QED BY <1>1, <2>1, <4>1
    <3> QED BY <3>1, <3>3, <3>4
  <2>3. CASE recv = "greeting"
    <3>1. UNCHANGED answer
      BY <1>6, <2>3 DEF ReadLine, TakeGreeting
    <3> QED BY <1>0, <1>1, <2>1, <2>3, <3>1
  <2> QED BY <1>6, <2>2, <2>3 DEF ReadLine, Reading
<1>7. CASE ServerAnswers
  <2>1. /\ outbound # <<>> /\ outbound' = <<>> /\ understood' = ServerReads(outbound)
        /\ UNCHANGED <<recv, call, answer>>
    BY <1>7, Zenon DEF ServerAnswers, readerVars, callVars
  <2>2. up
    BY <1>7, Zenon DEF ServerAnswers, Send
  <2>3. ExchangeInv
    BY <2>1, <2>2 DEF UnderstoodInv, OutcomeInv
  <2>4. /\ answer = Waiting /\ call \in Call /\ Renderable(call)
        /\ outbound = RenderCommand(call)
    BY <2>1, <2>3 DEF ExchangeInv
  <2>5. answer' # Idle
    BY <2>1, <2>4 DEF Waiting, Idle
  <2>6. call' \in Call /\ Renderable(call') /\ understood' = ServerReads(RenderCommand(call'))
    BY <2>1, <2>4, Zenon
  <2> QED BY <2>1, <2>5, <2>6 DEF UnderstoodInv
<1>8. CASE ServerNotifies
  <2>1. UNCHANGED <<understood, call, answer, outbound, recv>>
    BY <1>8 DEF ServerNotifies, readerVars, callVars
  <2>2. up' = up
    BY <1>8 DEF ServerNotifies, Send
  <2> QED BY <1>2, <2>1, <2>2
<1>9. CASE ServerBlanks
  BY <1>2, <1>9 DEF ServerBlanks, readerVars, callVars, history
<1>10. CASE ServerDrops
  BY <1>2, <1>10 DEF ServerDrops, readerVars, callVars, history
<1>11. ASSUME NEW c \in Call, Exec(c) PROVE UnderstoodInv'
  <2>1. /\ recv = "loop" /\ answer = Idle /\ UNCHANGED <<recv, understood>>
    BY <1>11 DEF Exec, readerVars, history
  <2>2. understood' = None
    BY <2>1 DEF UnderstoodInv
  <2> QED BY <2>1, <2>2 DEF UnderstoodInv
<1>12. CASE Return
  <2>1. understood' = None /\ UNCHANGED <<outbound, recv, up>>
    BY <1>12 DEF Return, wireVars, readerVars
  <2> QED BY <2>1 DEF UnderstoodInv
<1> QED
  BY <1>3, <1>4, <1>5, <1>6, <1>7, <1>8, <1>9, <1>10, <1>11, <1>12 DEF Next, Reader, Server

\* Whatever the values of a call hold, the server that reads the line
\* render_command() made of it, in whatever state the session is, reads the
\* switches and block by block the parameters of that call.
THEOREM CommandsUnderstood ==
    Spec => []CommandUnderstood
<1>1. Init => GreetInv /\ StreamInv /\ OutcomeInv /\ UnderstoodInv
  BY GreetInit, StreamInit, OutcomeInit, UnderstoodInit
<1>2. GreetInv /\ StreamInv /\ OutcomeInv /\ UnderstoodInv /\ [Next]_vars =>
          GreetInv' /\ StreamInv' /\ OutcomeInv' /\ UnderstoodInv'
  BY GreetStep, StreamStep, OutcomeStep, UnderstoodStep
<1>3. UnderstoodInv => CommandUnderstood
  <2> SUFFICES ASSUME UnderstoodInv, understood # None PROVE CommandUnderstood
    BY DEF CommandUnderstood
  <2>1. Understands(call, understood)
    BY CommandsRead DEF UnderstoodInv
  <2> QED BY <2>1 DEF Understands, CommandUnderstood
<1> QED BY <1>1, <1>2, <1>3, PTL DEF Spec
=============================================================================
