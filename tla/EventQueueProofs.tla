-------------------------- MODULE EventQueueProofs --------------------------
(***************************************************************************)
(* Theorems about EventQueue, for any consumers, queue size and number of  *)
(* events.                                                                 *)
(***************************************************************************)
EXTENDS EventQueue, SequenceTheorems, FiniteSetTheorems, TLAPS

\* Taking one element out of a sequence: length, type and what is left.
LEMMA RemoveAtProperties ==
    ASSUME NEW S, NEW s \in Seq(S), NEW i \in 1 .. Len(s)
    PROVE  /\ RemoveAt(s, i) \in Seq(S)
           /\ Len(RemoveAt(s, i)) = Len(s) - 1
           /\ \A j \in 1 .. Len(s) - 1 :
                 RemoveAt(s, i)[j] = IF j < i THEN s[j] ELSE s[j + 1]
<1> DEFINE a == SubSeq(s, 1, i - 1)
           b == SubSeq(s, i + 1, Len(s))
<1>1. /\ a \in Seq(S) /\ Len(a) = i - 1
      /\ \A j \in 1 .. i - 1 : a[j] = s[j]
  <2>1. 1 \in Int /\ i - 1 \in Int /\ \A j \in 1 .. i - 1 : s[j] \in S
    OBVIOUS
  <2> QED BY <2>1, SubSeqProperties
<1>2. /\ b \in Seq(S) /\ Len(b) = Len(s) - i
      /\ \A j \in 1 .. Len(s) - i : b[j] = s[i + j]
  <2>1. i + 1 \in Int /\ Len(s) \in Int /\ \A j \in i + 1 .. Len(s) : s[j] \in S
    OBVIOUS
  <2> QED BY <2>1, SubSeqProperties
<1> HIDE DEF a, b
<1>3. RemoveAt(s, i) = a \o b
  BY DEF RemoveAt, a, b
<1>4. /\ a \o b \in Seq(S)
      /\ Len(a \o b) = Len(a) + Len(b)
      /\ \A j \in 1 .. Len(a) + Len(b) :
            (a \o b)[j] = IF j <= Len(a) THEN a[j] ELSE b[j - Len(a)]
  BY <1>1, <1>2, ConcatProperties
<1>5. Len(a) + Len(b) = Len(s) - 1
  BY <1>1, <1>2
<1>6. ASSUME NEW j \in 1 .. Len(s) - 1
      PROVE  (a \o b)[j] = IF j < i THEN s[j] ELSE s[j + 1]
  <2>1. CASE j < i
    <3>1. j \in 1 .. i - 1 /\ j <= Len(a) /\ j \in 1 .. Len(a) + Len(b)
      BY <2>1, <1>1, <1>5
    <3> QED BY <3>1, <2>1, <1>4, <1>1
  <2>2. CASE ~(j < i)
    <3>1. /\ ~(j <= Len(a)) /\ j \in 1 .. Len(a) + Len(b)
          /\ j - Len(a) = j - i + 1 /\ j - i + 1 \in 1 .. Len(s) - i
          /\ i + (j - i + 1) = j + 1
      BY <2>2, <1>1, <1>5
    <3>2. (a \o b)[j] = b[j - i + 1]
      BY <3>1, <1>4
    <3>3. b[j - i + 1] = s[i + (j - i + 1)]
      BY <3>1, <1>2
    <3> QED BY <3>1, <3>2, <3>3, <2>2
  <2> QED BY <2>1, <2>2
<1> QED BY <1>3, <1>4, <1>5, <1>6

-----------------------------------------------------------------------------
(* What the operators EventQueue is built from do *)

\* The queue as a publisher finds it: one element shorter if it was full.
LEMMA MakeRoomProperties ==
    ASSUME EQTypeOK
    PROVE  /\ MakeRoom \in Seq(Nat)
           /\ Len(MakeRoom) = IF Full THEN Len(queue) - 1 ELSE Len(queue)
           /\ QueueSize > 0 => Len(MakeRoom) < QueueSize
           /\ \A i \in 1 .. Len(MakeRoom) :
                 MakeRoom[i] = IF Full THEN queue[i + 1] ELSE queue[i]
<1>1. CASE Full
  <2>1. queue # <<>> /\ Len(queue) = QueueSize
    BY <1>1, QueueAssumption DEF Full, EQTypeOK
  <2>2. MakeRoom = Tail(queue)
    BY <1>1 DEF MakeRoom
  <2>3. /\ Tail(queue) \in Seq(Nat) /\ Len(Tail(queue)) = Len(queue) - 1
        /\ \A i \in 1 .. Len(Tail(queue)) : Tail(queue)[i] = queue[i + 1]
    BY <2>1, HeadTailProperties DEF EQTypeOK
  <2> QED BY <1>1, <2>1, <2>2, <2>3, QueueAssumption
<1>2. CASE ~Full
  BY <1>2, QueueAssumption DEF MakeRoom, Full, EQTypeOK
<1> QED BY <1>1, <1>2

\* An item is put behind those that are left.
LEMMA PutProperties ==
    ASSUME EQTypeOK, NEW item \in Nat
    PROVE  LET q == Append(MakeRoom, item) IN
           /\ q \in Seq(Nat) /\ q # <<>>
           /\ Len(q) = Len(MakeRoom) + 1
           /\ QueueSize > 0 => Len(q) <= QueueSize
           /\ \A i \in 1 .. Len(MakeRoom) : q[i] = MakeRoom[i]
           /\ q[Len(MakeRoom) + 1] = item
<1> DEFINE m == MakeRoom
<1>1. m \in Seq(Nat) /\ Len(m) \in Nat /\ (QueueSize > 0 => Len(m) < QueueSize)
  BY MakeRoomProperties, LenProperties
<1> HIDE DEF m
<1>2. /\ Append(m, item) \in Seq(Nat) /\ Append(m, item) # <<>>
      /\ Len(Append(m, item)) = Len(m) + 1
      /\ \A i \in 1 .. Len(m) : Append(m, item)[i] = m[i]
      /\ Append(m, item)[Len(m) + 1] = item
  BY <1>1, AppendProperties
<1>3. QueueSize > 0 => Len(Append(m, item)) <= QueueSize
  BY <1>1, <1>2, QueueAssumption
<1> QED BY <1>2, <1>3 DEF m

\* Waking a consumer keeps the line consistent.
LEMMA WakeNextLine ==
    ASSUME NEW ws, LineOK(getters, ws), WakeNext(ws)
    PROVE  LineOK(getters', wstate')
<1>1. CASE getters = <<>>
  BY <1>1 DEF WakeNext
<1>2. CASE getters # <<>>
  <2> DEFINE h == Head(getters)
  <2>1. /\ wstate' = [ws EXCEPT ![h] = "woken"] /\ getters' = Tail(getters)
    BY <1>2 DEF WakeNext
  <2>2. /\ h \in Consumer /\ h = getters[1] /\ 1 \in DOMAIN getters
        /\ Tail(getters) \in Seq(Consumer)
        /\ Len(Tail(getters)) = Len(getters) - 1
        /\ \A i \in 1 .. Len(Tail(getters)) : Tail(getters)[i] = getters[i + 1]
    BY <1>2, HeadTailProperties DEF LineOK
  <2>3. wstate' \in [Consumer -> {"idle", "waiting", "woken"}]
    BY <2>1 DEF LineOK
  <2>4. \A i, j \in DOMAIN getters' : getters'[i] = getters'[j] => i = j
    BY <2>1, <2>2 DEF LineOK
  <2>5. ASSUME NEW w \in Consumer
        PROVE  wstate'[w] = "waiting" <=> \E i \in DOMAIN getters' : getters'[i] = w
    <3>1. CASE w = h
      BY <3>1, <2>1, <2>2 DEF LineOK
    <3>2. CASE w # h
      <4>1. wstate'[w] = ws[w]
        BY <3>2, <2>1 DEF LineOK
      <4>2. ASSUME NEW i \in DOMAIN getters, getters[i] = w
            PROVE  i - 1 \in DOMAIN getters' /\ getters'[i - 1] = w
        BY <4>2, <3>2, <2>1, <2>2 DEF LineOK
      <4>3. ASSUME NEW i \in DOMAIN getters', getters'[i] = w
            PROVE  i + 1 \in DOMAIN getters /\ getters[i + 1] = w
        BY <4>3, <2>1, <2>2 DEF LineOK
      <4> QED BY <4>1, <4>2, <4>3 DEF LineOK
    <3> QED BY <3>1, <3>2
  <2> QED BY <2>1, <2>2, <2>3, <2>4, <2>5 DEF LineOK
<1> QED BY <1>1, <1>2

\* A consumer that is not parked may change its own state freely, and may
\* park behind the others.
LEMMA UnparkedLine ==
    ASSUME LineOK(getters, wstate), NEW w \in Consumer, wstate[w] # "waiting"
    PROVE  /\ LineOK(getters, [wstate EXCEPT ![w] = "idle"])
           /\ LineOK(Append(getters, w), [wstate EXCEPT ![w] = "waiting"])
<1>1. LineOK(getters, [wstate EXCEPT ![w] = "idle"])
  BY DEF LineOK
<1>2. LineOK(Append(getters, w), [wstate EXCEPT ![w] = "waiting"])
  <2> DEFINE line == Append(getters, w)
             ws == [wstate EXCEPT ![w] = "waiting"]
  <2>1. /\ line \in Seq(Consumer) /\ Len(line) = Len(getters) + 1
        /\ Len(getters) \in Nat
        /\ \A i \in 1 .. Len(getters) : line[i] = getters[i]
        /\ line[Len(getters) + 1] = w
    BY AppendProperties, LenProperties DEF LineOK
  <2>2. DOMAIN line = 1 .. Len(getters) + 1 /\ DOMAIN getters = 1 .. Len(getters)
    BY <2>1, LenProperties DEF LineOK
  <2>3. \A i \in DOMAIN getters : getters[i] # w
    BY DEF LineOK
  <2>4. \A i, j \in DOMAIN line : line[i] = line[j] => i = j
    BY <2>1, <2>2, <2>3 DEF LineOK
  <2>5. ASSUME NEW v \in Consumer
        PROVE  ws[v] = "waiting" <=> \E i \in DOMAIN line : line[i] = v
    <3>1. CASE v = w
      BY <3>1, <2>1, <2>2 DEF LineOK
    <3>2. CASE v # w
      BY <3>2, <2>1, <2>2 DEF LineOK
    <3> QED BY <3>1, <3>2
  <2> HIDE DEF line
  <2>6. ws \in [Consumer -> {"idle", "waiting", "woken"}]
    BY DEF LineOK
  <2> QED BY <2>1, <2>4, <2>5, <2>6 DEF LineOK, line
<1> QED BY <1>1, <1>2

\* A parked consumer may leave the line from wherever it is.
LEMMA ParkedLine ==
    ASSUME LineOK(getters, wstate), NEW k \in DOMAIN getters
    PROVE  LineOK(RemoveAt(getters, k), [wstate EXCEPT ![getters[k]] = "idle"])
<1> DEFINE line == RemoveAt(getters, k)
           w == getters[k]
           ws == [wstate EXCEPT ![w] = "idle"]
<1>1. /\ getters \in Seq(Consumer) /\ DOMAIN getters = 1 .. Len(getters)
      /\ Len(getters) \in Nat /\ w \in Consumer
  BY LenProperties, ElementOfSeq DEF LineOK
<1>2. /\ line \in Seq(Consumer) /\ Len(line) = Len(getters) - 1
      /\ \A j \in 1 .. Len(getters) - 1 :
            line[j] = IF j < k THEN getters[j] ELSE getters[j + 1]
  BY <1>1, RemoveAtProperties
<1>3. DOMAIN line = 1 .. Len(getters) - 1
  BY <1>2, LenProperties
<1>4. ws \in [Consumer -> {"idle", "waiting", "woken"}]
  BY <1>1 DEF LineOK
<1> HIDE DEF line
<1> DEFINE o(i) == IF i < k THEN i ELSE i + 1
<1>5. /\ \A i \in DOMAIN line : o(i) \in DOMAIN getters /\ o(i) # k /\ line[i] = getters[o(i)]
      /\ \A i, j \in DOMAIN line : o(i) = o(j) => i = j
  BY <1>1, <1>2, <1>3
<1> HIDE DEF o
<1>6. \A i, j \in DOMAIN getters : getters[i] = getters[j] => i = j
  BY DEF LineOK
<1>7. \A i, j \in DOMAIN line : line[i] = line[j] => i = j
  BY <1>5, <1>6
<1>8. ASSUME NEW v \in Consumer
      PROVE  ws[v] = "waiting" <=> \E i \in DOMAIN line : line[i] = v
  <2>1. CASE v = w
    <3>1. ws[v] = "idle"
      BY <2>1, <1>1 DEF LineOK
    <3>2. ASSUME NEW j \in DOMAIN line
          PROVE  line[j] # w
      BY <1>5, <1>6
    <3> QED BY <2>1, <3>1, <3>2
  <2>2. CASE v # w
    <3>1. ws[v] = wstate[v]
      BY <2>2, <1>1 DEF LineOK
    <3>2. ASSUME NEW i \in DOMAIN getters, getters[i] = v
          PROVE  \E j \in DOMAIN line : line[j] = v
      <4>1. CASE i < k
        BY <4>1, <3>2, <1>1, <1>2, <1>3
      <4>2. CASE i > k
        <5>1. i - 1 \in DOMAIN line /\ line[i - 1] = getters[i - 1 + 1]
          BY <4>2, <1>1, <1>2, <1>3
        <5> QED BY <5>1, <3>2, <1>1
      <4> QED BY <4>1, <4>2, <3>2, <2>2, <1>1
    <3>3. ASSUME NEW j \in DOMAIN line, line[j] = v
          PROVE  \E i \in DOMAIN getters : getters[i] = v
      BY <3>3, <1>5
    <3> QED BY <3>1, <3>2, <3>3 DEF LineOK
  <2> QED BY <2>1, <2>2
<1> QED BY <1>2, <1>4, <1>7, <1>8 DEF LineOK, line

-----------------------------------------------------------------------------
(* Type correctness *)

LEMMA TypeInit == EQInit => EQTypeOK
<1> SUFFICES ASSUME EQInit PROVE EQTypeOK
  OBVIOUS
<1>1. LineOK(getters, wstate)
  BY DEF EQInit, LineOK
<1>2. queue \in Seq(Nat) /\ Len(queue) = 0
  BY EmptySeq DEF EQInit
<1>3. QueueSize > 0 => Len(queue) <= QueueSize
  BY <1>2, QueueAssumption
<1>4. closed \in BOOLEAN /\ published \in Nat /\ got \in [Consumer -> Nat]
  BY DEF EQInit
<1> QED BY <1>1, <1>2, <1>3, <1>4 DEF EQTypeOK

\* The types survive a queue and a line that are as they should be.
LEMMA TypePublishEvent ==
    ASSUME EQTypeOK, PublishEvent PROVE EQTypeOK'
<1>1. published' = published + 1 /\ published' \in Nat
  BY DEF EQTypeOK, PublishEvent
<1>2. queue' \in Seq(Nat) /\ (QueueSize > 0 => Len(queue') <= QueueSize)
  BY <1>1, PutProperties DEF PublishEvent
<1>3. LineOK(getters', wstate')
  BY WakeNextLine DEF EQTypeOK, PublishEvent
<1> QED BY <1>1, <1>2, <1>3 DEF EQTypeOK, PublishEvent, LineOK

LEMMA TypeCloseStream ==
    ASSUME EQTypeOK, CloseStream PROVE EQTypeOK'
<1>1. queue' \in Seq(Nat) /\ (QueueSize > 0 => Len(queue') <= QueueSize)
  BY PutProperties DEF CloseStream, PublishSentinel, Sentinel
<1>2. LineOK(getters', wstate')
  BY WakeNextLine DEF EQTypeOK, CloseStream, PublishSentinel
<1> QED BY <1>1, <1>2 DEF EQTypeOK, CloseStream, LineOK

LEMMA TypeConsumerStep ==
    ASSUME EQTypeOK, NEW w \in Consumer, ConsumerStep(w) PROVE EQTypeOK'
<1> USE DEF EQTypeOK
<1>1. CASE BeginWait(w)
  <2>1. LineOK(getters', wstate')
    BY <1>1, UnparkedLine DEF BeginWait
  <2> QED BY <1>1, <2>1 DEF BeginWait, LineOK
<1>2. CASE WaitAgain(w)
  <2>1. LineOK(getters', wstate')
    BY <1>2, UnparkedLine DEF WaitAgain
  <2> QED BY <1>2, <2>1 DEF WaitAgain, LineOK
<1>3. CASE TakeEvent(w)
  <2>1. LineOK(getters', wstate')
    BY <1>3, UnparkedLine DEF TakeEvent
  <2>2. /\ Head(queue) \in Nat /\ Tail(queue) \in Seq(Nat)
        /\ Len(Tail(queue)) = Len(queue) - 1 /\ Len(queue) \in Nat
    BY <1>3, HeadTailProperties, LenProperties DEF TakeEvent
  <2>3. got' \in [Consumer -> Nat]
    BY <1>3, <2>2 DEF TakeEvent
  <2> QED BY <1>3, <2>1, <2>2, <2>3, QueueAssumption DEF TakeEvent, LineOK
<1>4. CASE SeeClosed(w)
  <2>1. LineOK(getters', wstate')
    BY <1>4, UnparkedLine, WakeNextLine DEF SeeClosed
  <2>2. /\ Tail(queue) \in Seq(Nat)
        /\ Len(Tail(queue)) = Len(queue) - 1 /\ Len(queue) \in Nat
    BY <1>4, HeadTailProperties, LenProperties DEF SeeClosed
  <2>3. queue' \in Seq(Nat) /\ Len(queue') = Len(queue)
    BY <1>4, <2>2, AppendProperties DEF SeeClosed, Sentinel
  <2> QED BY <1>4, <2>1, <2>3 DEF SeeClosed, LineOK
<1>5. CASE AbandonParked(w)
  <2>1. LineOK(getters', wstate')
    BY <1>5, ParkedLine DEF AbandonParked
  <2> QED BY <1>5, <2>1 DEF AbandonParked, LineOK
<1>6. CASE AbandonWoken(w)
  <2>1. LineOK(getters', wstate')
    BY <1>6, UnparkedLine, WakeNextLine DEF AbandonWoken, PassOn
  <2> QED BY <1>6, <2>1 DEF AbandonWoken, LineOK
<1> QED BY <1>1, <1>2, <1>3, <1>4, <1>5, <1>6 DEF ConsumerStep

LEMMA TypeStep == EQTypeOK /\ [EQNext]_queueVars => EQTypeOK'
<1> SUFFICES ASSUME EQTypeOK, [EQNext]_queueVars PROVE EQTypeOK'
  OBVIOUS
<1>1. CASE ReceiveEvent
  BY <1>1, TypePublishEvent DEF ReceiveEvent
<1>2. CASE CloseStream
  BY <1>2, TypeCloseStream
<1>3. CASE \E w \in Consumer : ConsumerStep(w)
  BY <1>3, TypeConsumerStep
<1>4. CASE UNCHANGED queueVars
  BY <1>4 DEF queueVars, EQTypeOK, LineOK
<1> QED BY <1>1, <1>2, <1>3, <1>4 DEF EQNext

\* The queue keeps within event_queue_size and the line of parked consumers
\* is consistent with their states, for any number of consumers.
THEOREM EventQueueTypes == EQSpec => []EQTypeOK
<1> QED BY TypeInit, TypeStep, PTL DEF EQSpec

-----------------------------------------------------------------------------
(* The contents of the queue *)

LEMMA ContentsInit == EQInit => QueueInv
BY DEF EQInit, QueueInv, NEvents

LEMMA ContentsPublish ==
    ASSUME EQTypeOK, QueueInv, ReceiveEvent PROVE QueueInv'
<1> DEFINE m == MakeRoom
<1>1. /\ ~closed /\ ~closed' /\ published' = published + 1 /\ published \in Nat
      /\ Len(queue) \in Nat /\ Len(queue) <= published
      /\ \A i \in 1 .. Len(queue) : queue[i] = published - Len(queue) + i
  BY LenProperties DEF ReceiveEvent, PublishEvent, EQTypeOK, QueueInv, NEvents
<1>2. /\ m \in Seq(Nat) /\ Len(m) \in Nat
      /\ Len(m) = IF Full THEN Len(queue) - 1 ELSE Len(queue)
      /\ \A i \in 1 .. Len(m) : m[i] = IF Full THEN queue[i + 1] ELSE queue[i]
  BY MakeRoomProperties, LenProperties
<1>3. /\ queue' \in Seq(Nat) /\ Len(queue') = Len(m) + 1
      /\ \A i \in 1 .. Len(m) : queue'[i] = m[i]
      /\ queue'[Len(m) + 1] = published + 1
  BY <1>1, PutProperties DEF ReceiveEvent, PublishEvent
<1> HIDE DEF m
<1>4. Len(queue') <= published'
  BY <1>1, <1>2, <1>3
<1>5. \A i \in 1 .. Len(m) : m[i] = published - Len(m) + i
  <2> TAKE i \in 1 .. Len(m)
  <2>1. CASE Full
    <3>1. i + 1 \in 1 .. Len(queue) /\ m[i] = queue[i + 1]
      BY <2>1, <1>1, <1>2
    <3> QED BY <3>1, <2>1, <1>1, <1>2
  <2>2. CASE ~Full
    BY <2>2, <1>1, <1>2
  <2> QED BY <2>1, <2>2
<1>6. \A i \in 1 .. Len(queue') : queue'[i] = published' - Len(queue') + i
  <2>1. \A i \in 1 .. Len(m) : queue'[i] = published - Len(m) + i
    BY <1>3, <1>5
  <2>2. queue'[Len(m) + 1] = published - Len(m) + (Len(m) + 1)
    <3> DEFINE k == Len(m)
    <3>1. published \in Int /\ k \in Int
      BY <1>1, <1>2
    <3> HIDE DEF k
    <3>2. published - k + (k + 1) = published + 1
      BY <3>1
    <3> QED BY <3>2, <1>3 DEF k
  <2>3. \A i \in 1 .. Len(m) + 1 : queue'[i] = published - Len(m) + i
    <3> TAKE i \in 1 .. Len(m) + 1
    <3>1. i \in 1 .. Len(m) \/ i = Len(m) + 1
      BY <1>2
    <3> QED BY <3>1, <2>1, <2>2
  <2>4. published' - Len(queue') = published - Len(m)
    BY <1>1, <1>2, <1>3
  <2> QED BY <2>3, <2>4, <1>3
<1> QED BY <1>1, <1>4, <1>6 DEF QueueInv, NEvents

LEMMA ContentsClose ==
    ASSUME EQTypeOK, QueueInv, CloseStream PROVE QueueInv'
<1> DEFINE m == MakeRoom
<1>1. /\ ~closed /\ closed' /\ published' = published /\ published \in Nat
      /\ Len(queue) \in Nat /\ Len(queue) <= published
      /\ \A i \in 1 .. Len(queue) : queue[i] = published - Len(queue) + i
  BY LenProperties DEF CloseStream, EQTypeOK, QueueInv, NEvents
<1>2. /\ m \in Seq(Nat) /\ Len(m) \in Nat
      /\ Len(m) = IF Full THEN Len(queue) - 1 ELSE Len(queue)
      /\ \A i \in 1 .. Len(m) : m[i] = IF Full THEN queue[i + 1] ELSE queue[i]
  BY MakeRoomProperties, LenProperties
<1>3. /\ queue' # <<>> /\ Len(queue') = Len(m) + 1
      /\ \A i \in 1 .. Len(m) : queue'[i] = m[i]
      /\ queue'[Len(m) + 1] = Sentinel
  BY PutProperties DEF CloseStream, PublishSentinel, Sentinel
<1> HIDE DEF m
<1>4. NEvents' = Len(m)
  BY <1>1, <1>2, <1>3 DEF NEvents
<1>5. \A i \in 1 .. Len(m) : m[i] = published - Len(m) + i
  <2> TAKE i \in 1 .. Len(m)
  <2>1. CASE Full
    <3>1. i + 1 \in 1 .. Len(queue) /\ m[i] = queue[i + 1]
      BY <2>1, <1>1, <1>2
    <3> QED BY <3>1, <2>1, <1>1, <1>2
  <2>2. CASE ~Full
    BY <2>2, <1>1, <1>2
  <2> QED BY <2>1, <2>2
<1>6. NEvents' <= published' /\ queue'[Len(queue')] = Sentinel
  BY <1>1, <1>2, <1>3, <1>4
<1>7. \A i \in 1 .. NEvents' : queue'[i] = published' - NEvents' + i
  BY <1>1, <1>3, <1>4, <1>5
<1> QED BY <1>3, <1>6, <1>7 DEF QueueInv

\* Before the end the queue holds events only; afterwards the sentinel comes
\* to the head when nothing else is left.
LEMMA SentinelIsLast ==
    ASSUME EQTypeOK, QueueInv, queue # <<>>
    PROVE  Head(queue) = Sentinel <=> closed /\ Len(queue) = 1
<1>1. /\ Len(queue) \in Nat /\ Len(queue) >= 1 /\ Head(queue) = queue[1]
      /\ published \in Nat /\ closed \in BOOLEAN
      /\ NEvents \in Int /\ NEvents <= Len(queue) /\ NEvents >= Len(queue) - 1
  <2>1. Len(queue) \in Nat /\ queue \in Seq(Nat) /\ closed \in BOOLEAN /\ published \in Nat
    BY LenProperties DEF EQTypeOK
  <2>2. Len(queue) >= 1 /\ Head(queue) = queue[1]
    BY <2>1, HeadTailProperties
  <2>3. NEvents = Len(queue) \/ NEvents = Len(queue) - 1
    BY DEF NEvents
  <2> QED BY <2>1, <2>2, <2>3
<1>2. CASE NEvents >= 1
  <2>1. NEvents \in Nat /\ NEvents <= published /\ queue[1] = published - NEvents + 1
    <3>1. NEvents \in Nat /\ 1 \in 1 .. NEvents
      BY <1>1, <1>2
    <3> QED BY <3>1 DEF QueueInv
  <2>2. queue[1] # Sentinel
    BY <1>1, <2>1 DEF Sentinel
  <2>3. ~(closed /\ Len(queue) = 1)
    <3> SUFFICES ASSUME closed, Len(queue) = 1 PROVE FALSE
      OBVIOUS
    <3>1. NEvents = 0
      BY DEF NEvents
    <3> QED BY <3>1, <1>2
  <2> QED BY <1>1, <2>2, <2>3
<1>3. CASE ~(NEvents >= 1)
  <2>1. closed /\ Len(queue) = 1
    <3>1. NEvents # Len(queue)
      BY <1>1, <1>3
    <3>2. closed
      BY <3>1 DEF NEvents
    <3>3. NEvents = Len(queue) - 1
      BY <3>2 DEF NEvents
    <3>4. Len(queue) = 1
      BY <3>3, <1>1, <1>3
    <3> QED BY <3>2, <3>4
  <2>2. queue[Len(queue)] = Sentinel
    BY <2>1 DEF QueueInv
  <2> QED BY <1>1, <2>1, <2>2
<1> QED BY <1>2, <1>3

LEMMA ContentsTake ==
    ASSUME EQTypeOK, QueueInv, NEW w \in Consumer, TakeEvent(w)
    PROVE  /\ QueueInv'
           /\ NEvents \in Nat /\ NEvents >= 1 /\ NEvents' = NEvents - 1
           /\ Head(queue) = published - NEvents + 1
<1>1. /\ queue # <<>> /\ Head(queue) # Sentinel /\ queue' = Tail(queue)
      /\ closed' = closed /\ published' = published
  BY DEF TakeEvent
<1>2. /\ Len(queue) \in Nat /\ Len(queue) >= 1 /\ Head(queue) = queue[1]
      /\ published \in Nat /\ Tail(queue) \in Seq(Nat)
      /\ Len(Tail(queue)) = Len(queue) - 1
      /\ \A i \in 1 .. Len(queue) - 1 : Tail(queue)[i] = queue[i + 1]
  BY <1>1, LenProperties, HeadTailProperties DEF EQTypeOK
<1>3. NEvents \in Nat /\ NEvents >= 1 /\ NEvents <= Len(queue)
  BY <1>1, <1>2, SentinelIsLast DEF NEvents
<1>4. NEvents' = NEvents - 1
  BY <1>1, <1>2 DEF NEvents
<1>5. closed' => queue' # <<>> /\ queue'[Len(queue')] = Sentinel
  <2> SUFFICES ASSUME closed PROVE queue' # <<>> /\ queue'[Len(queue')] = Sentinel
    BY <1>1
  <2>1. Len(queue) > 1 /\ queue[Len(queue)] = Sentinel
    <3>1. NEvents = Len(queue) - 1
      BY DEF NEvents
    <3>2. queue[Len(queue)] = Sentinel
      BY DEF QueueInv
    <3> QED BY <3>1, <3>2, <1>2, <1>3
  <2>2. /\ Len(queue) - 1 \in 1 .. Len(queue) - 1
        /\ (Len(queue) - 1) + 1 = Len(queue)
        /\ Len(queue') = Len(queue) - 1
    BY <1>1, <1>2, <2>1
  <2>3. queue'[Len(queue')] = queue[Len(queue)]
    BY <1>1, <1>2, <2>2
  <2>4. queue' # <<>>
    BY <2>2, <1>2
  <2> QED BY <2>1, <2>3, <2>4
<1>6. \A i \in 1 .. NEvents' : queue'[i] = published' - NEvents' + i
  <2> TAKE i \in 1 .. NEvents'
  <2>1. i + 1 \in 1 .. NEvents /\ i \in 1 .. Len(queue) - 1
    BY <1>2, <1>3, <1>4 DEF NEvents
  <2>2. queue[i + 1] = published - NEvents + (i + 1)
    BY <2>1 DEF QueueInv
  <2> QED BY <1>1, <1>2, <1>3, <1>4, <2>1, <2>2
<1>7. NEvents <= published /\ queue[1] = published - NEvents + 1
  BY <1>3 DEF QueueInv
<1> QED BY <1>1, <1>2, <1>3, <1>4, <1>5, <1>6, <1>7 DEF QueueInv

LEMMA ContentsSeeClosed ==
    ASSUME EQTypeOK, QueueInv, NEW w \in Consumer, SeeClosed(w)
    PROVE  QueueInv' /\ NEvents' = NEvents
<1>1. /\ queue # <<>> /\ Head(queue) = Sentinel
      /\ queue' = Append(Tail(queue), Sentinel)
      /\ closed' = closed /\ published' = published /\ published \in Nat
  BY DEF SeeClosed, EQTypeOK
<1>2. closed /\ Len(queue) = 1
  BY <1>1, SentinelIsLast
<1>3. Tail(queue) \in Seq(Nat) /\ Len(Tail(queue)) = 0
  BY <1>1, <1>2, HeadTailProperties DEF EQTypeOK
<1>4. queue' # <<>> /\ Len(queue') = 1 /\ queue'[1] = Sentinel
  <2> DEFINE rest == Tail(queue)
  <2>1. rest \in Seq(Nat) /\ Len(rest) = 0 /\ Sentinel \in Nat
    BY <1>3 DEF Sentinel
  <2> HIDE DEF rest
  <2>2. /\ Append(rest, Sentinel) # <<>>
        /\ Len(Append(rest, Sentinel)) = Len(rest) + 1
        /\ Append(rest, Sentinel)[Len(rest) + 1] = Sentinel
    BY <2>1, AppendProperties
  <2>3. Len(rest) + 1 = 1
    BY <2>1
  <2> QED BY <2>2, <2>3, <1>1 DEF rest
<1>5. NEvents = 0 /\ NEvents' = 0
  BY <1>1, <1>2, <1>4 DEF NEvents
<1>6. \A i \in 1 .. NEvents' : queue'[i] = published' - NEvents' + i
  BY <1>5
<1> QED BY <1>1, <1>4, <1>5, <1>6 DEF QueueInv

LEMMA ContentsStep == EQTypeOK /\ QueueInv /\ [EQNext]_queueVars => QueueInv'
<1> SUFFICES ASSUME EQTypeOK, QueueInv, [EQNext]_queueVars PROVE QueueInv'
  OBVIOUS
<1>1. CASE ReceiveEvent
  BY <1>1, ContentsPublish
<1>2. CASE CloseStream
  BY <1>2, ContentsClose
<1>3. ASSUME NEW w \in Consumer, TakeEvent(w) \/ SeeClosed(w) PROVE QueueInv'
  BY <1>3, ContentsTake, ContentsSeeClosed
<1>4. ASSUME NEW w \in Consumer,
             BeginWait(w) \/ WaitAgain(w) \/ AbandonParked(w) \/ AbandonWoken(w)
      PROVE  QueueInv'
  BY <1>4 DEF BeginWait, WaitAgain, AbandonParked, AbandonWoken, QueueInv, NEvents
<1>5. CASE UNCHANGED queueVars
  BY <1>5 DEF queueVars, QueueInv, NEvents
<1> QED BY <1>1, <1>2, <1>3, <1>4, <1>5 DEF EQNext, ConsumerStep

\* The queue holds the most recent events in order of arrival, none twice,
\* and from the close on the sentinel behind them, whoever reads it.
THEOREM QueueContents == EQSpec => []QueueInv
<1> QED BY EventQueueTypes, ContentsInit, ContentsStep, PTL DEF EQSpec

-----------------------------------------------------------------------------
(* No lost wake-up *)

WokenIn(ws) == {v \in Consumer : ws[v] = "woken"}

LEMMA WokenCount ==
    ASSUME NEW ws PROVE IsFiniteSet(WokenIn(ws)) /\ Cardinality(WokenIn(ws)) \in Nat
<1>1. WokenIn(ws) \in SUBSET Consumer
  BY DEF WokenIn
<1> QED BY <1>1, ConsumerAssumption, FS_Subset, FS_CardinalityType

\* A wake-up adds one to the woken consumers.
LEMMA WakeNextCount ==
    ASSUME NEW ws, LineOK(getters, ws), WakeNext(ws), getters # <<>>
    PROVE  Cardinality(Woken') = Cardinality(WokenIn(ws)) + 1
<1> DEFINE h == Head(getters)
<1>1. h \in Consumer /\ h = getters[1] /\ 1 \in DOMAIN getters
  BY HeadTailProperties, LenProperties DEF LineOK
<1>2. ws[h] = "waiting"
  BY <1>1 DEF LineOK
<1>3. wstate' = [ws EXCEPT ![h] = "woken"] /\ ws \in [Consumer -> {"idle", "waiting", "woken"}]
  BY DEF WakeNext, LineOK
<1>4. Woken' = WokenIn(ws) \cup {h} /\ h \notin WokenIn(ws)
  BY <1>1, <1>2, <1>3 DEF Woken, WokenIn
<1> QED BY <1>4, WokenCount, FS_AddElement

\* A consumer that goes idle takes at most itself away.
LEMMA IdleCount ==
    ASSUME wstate \in [Consumer -> {"idle", "waiting", "woken"}], NEW w \in Consumer
    PROVE  Cardinality(WokenIn([wstate EXCEPT ![w] = "idle"])) >= Cardinality(Woken) - 1
<1>1. /\ WokenIn([wstate EXCEPT ![w] = "idle"]) = WokenIn(wstate) \ {w}
      /\ Woken = WokenIn(wstate)
  BY DEF Woken, WokenIn
<1>2. Cardinality(WokenIn(wstate)) \in Nat /\ IsFiniteSet(WokenIn(wstate))
  BY WokenCount
<1>3. Cardinality(WokenIn(wstate) \ {w}) =
        IF w \in WokenIn(wstate) THEN Cardinality(WokenIn(wstate)) - 1
                                 ELSE Cardinality(WokenIn(wstate))
  BY <1>2, FS_RemoveElement
<1> DEFINE was == Cardinality(WokenIn(wstate))
           is == Cardinality(WokenIn(wstate) \ {w})
<1>4. was \in Nat /\ (is = was - 1 \/ is = was)
  BY <1>2, <1>3
<1> HIDE DEF was, is
<1>5. is >= was - 1
  BY <1>4
<1> QED BY <1>1, <1>5 DEF was, is

LEMMA NoStrandedStep ==
    EQTypeOK /\ NoStrandedConsumer /\ [EQNext]_queueVars => NoStrandedConsumer'
<1> SUFFICES ASSUME EQTypeOK, NoStrandedConsumer, [EQNext]_queueVars, getters' # <<>>
             PROVE  Len(queue') <= Cardinality(Woken')
  BY DEF NoStrandedConsumer
<1>1. /\ LineOK(getters, wstate) /\ wstate \in [Consumer -> {"idle", "waiting", "woken"}]
      /\ queue \in Seq(Nat) /\ Len(queue) \in Nat
      /\ Cardinality(Woken) \in Nat /\ Woken = WokenIn(wstate)
  BY WokenCount, LenProperties DEF EQTypeOK, LineOK, Woken, WokenIn
<1>2. Cardinality(Woken') \in Nat
  <2>1. Woken' = WokenIn(wstate')
    BY DEF Woken, WokenIn
  <2> QED BY <2>1, WokenCount
<1>3. getters # <<>> => Len(queue) <= Cardinality(Woken)
  BY DEF NoStrandedConsumer
<1>4. ASSUME NEW item \in Nat, queue' = Append(MakeRoom, item), WakeNext(wstate)
      PROVE  Len(queue') <= Cardinality(Woken')
  <2>1. getters # <<>>
    BY <1>4 DEF WakeNext
  <2>2. Cardinality(Woken') = Cardinality(Woken) + 1
    BY <2>1, <1>1, <1>4, WakeNextCount
  <2>3. Len(queue') = Len(MakeRoom) + 1
    BY <1>4, PutProperties
  <2>4. Len(MakeRoom) \in Nat /\ Len(MakeRoom) <= Len(queue)
    BY <1>1, MakeRoomProperties, LenProperties
  <2> QED BY <2>1, <2>2, <2>3, <2>4, <1>1, <1>3
<1>5. CASE ReceiveEvent
  BY <1>4, <1>5 DEF ReceiveEvent, PublishEvent, EQTypeOK
<1>6. CASE CloseStream
  BY <1>4, <1>6 DEF CloseStream, PublishSentinel, Sentinel
<1>7. ASSUME NEW w \in Consumer, BeginWait(w) \/ WaitAgain(w)
      PROVE  Len(queue') <= Cardinality(Woken')
  <2>1. Len(queue') = 0
    BY <1>7 DEF BeginWait, WaitAgain
  <2> QED BY <2>1, <1>2
<1>8. ASSUME NEW w \in Consumer, TakeEvent(w)
      PROVE  Len(queue') <= Cardinality(Woken')
  <2>1. Len(queue') = Len(queue) - 1 /\ getters # <<>>
    BY <1>1, <1>8, HeadTailProperties DEF TakeEvent
  <2>2. Woken' = WokenIn([wstate EXCEPT ![w] = "idle"])
    BY <1>8 DEF TakeEvent, Woken, WokenIn
  <2>3. Cardinality(Woken') >= Cardinality(Woken) - 1
    BY <2>2, <1>1, IdleCount
  <2> QED BY <2>1, <2>3, <1>1, <1>2, <1>3
<1>9. ASSUME NEW w \in Consumer, wstate[w] # "waiting", Len(queue') = Len(queue),
             WakeNext([wstate EXCEPT ![w] = "idle"])
      PROVE  Len(queue') <= Cardinality(Woken')
  <2> DEFINE ws == [wstate EXCEPT ![w] = "idle"]
  <2>1. getters # <<>>
    BY <1>9 DEF WakeNext
  <2>2. LineOK(getters, ws)
    BY <1>1, <1>9, UnparkedLine
  <2>3. Cardinality(WokenIn(ws)) >= Cardinality(Woken) - 1
    BY <1>1, IdleCount
  <2>4. Cardinality(WokenIn(ws)) \in Nat
    BY WokenCount
  <2> HIDE DEF ws
  <2>5. Cardinality(Woken') = Cardinality(WokenIn(ws)) + 1
    BY <2>1, <2>2, <1>9, WakeNextCount DEF ws
  <2> QED BY <2>1, <2>3, <2>4, <2>5, <1>1, <1>3, <1>9
<1>10. ASSUME NEW w \in Consumer, SeeClosed(w)
       PROVE  Len(queue') <= Cardinality(Woken')
  <2>1. Tail(queue) \in Seq(Nat) /\ Len(Tail(queue)) = Len(queue) - 1 /\ Sentinel \in Nat
    BY <1>1, <1>10, HeadTailProperties DEF SeeClosed, Sentinel
  <2>2. Len(Append(Tail(queue), Sentinel)) = Len(Tail(queue)) + 1
    BY <2>1, AppendProperties
  <2>3. Len(queue') = Len(queue)
    BY <2>1, <2>2, <1>1, <1>10 DEF SeeClosed
  <2> QED BY <2>3, <1>9, <1>10 DEF SeeClosed
<1>11. ASSUME NEW w \in Consumer, AbandonParked(w)
       PROVE  Len(queue') <= Cardinality(Woken')
  <2>1. getters # <<>>
    BY <1>11 DEF AbandonParked
  <2>2. Woken' = Woken
    BY <1>1, <1>11 DEF AbandonParked, Woken
  <2> QED BY <2>1, <2>2, <1>3, <1>11 DEF AbandonParked
<1>12. ASSUME NEW w \in Consumer, AbandonWoken(w)
       PROVE  Len(queue') <= Cardinality(Woken')
  <2>1. CASE queue = <<>>
    <3>1. Len(queue') = 0
      BY <2>1, <1>12 DEF AbandonWoken
    <3> QED BY <3>1, <1>2
  <2>2. CASE queue # <<>>
    BY <2>2, <1>9, <1>12 DEF AbandonWoken, PassOn
  <2> QED BY <2>1, <2>2
<1>13. CASE UNCHANGED queueVars
  BY <1>3, <1>13 DEF queueVars, Woken
<1> QED BY <1>5, <1>6, <1>7, <1>8, <1>10, <1>11, <1>12, <1>13 DEF EQNext, ConsumerStep

\* No wake-up is lost: as long as a consumer is parked, every item in the
\* queue has a consumer on its way to it.
THEOREM NoLostWakeup == EQSpec => []NoStrandedConsumer
<1>1. EQInit => NoStrandedConsumer
  BY DEF EQInit, NoStrandedConsumer
<1> QED BY <1>1, EventQueueTypes, NoStrandedStep, PTL DEF EQSpec

-----------------------------------------------------------------------------
(* Refinement *)

LEMMA StreamInit == EQInit => Stream!Init
<1> SUFFICES ASSUME EQInit PROVE Stream!Init
  OBVIOUS
<1>1. NEvents = 0
  BY DEF EQInit, NEvents
<1> QED BY <1>1 DEF EQInit, Stream!Init

\* How many events are unread after an item was put in the queue.
LEMMA RoomOfStream ==
    ASSUME EQTypeOK, ~closed
    PROVE  /\ Len(MakeRoom) \in Nat /\ published \in Nat /\ NEvents \in Nat
           /\ published - Len(MakeRoom) =
                IF QueueSize > 0 /\ published - (published - NEvents) >= QueueSize
                THEN published - NEvents + 1 ELSE published - NEvents
<1>1. /\ NEvents = Len(queue) /\ Len(queue) \in Nat /\ published \in Nat
      /\ Len(MakeRoom) \in Nat
      /\ Len(MakeRoom) = IF Full THEN Len(queue) - 1 ELSE Len(queue)
  BY MakeRoomProperties, LenProperties DEF NEvents, EQTypeOK
<1>2. published - (published - NEvents) = Len(queue)
  BY <1>1
<1>3. CASE Full
  <2>1. QueueSize > 0 /\ published - (published - NEvents) >= QueueSize
    BY <1>2, <1>3 DEF Full
  <2>2. published - Len(MakeRoom) = published - NEvents + 1
    BY <1>1, <1>3
  <2> QED BY <1>1, <2>1, <2>2
<1>4. CASE ~Full
  <2>1. ~(QueueSize > 0 /\ published - (published - NEvents) >= QueueSize)
    BY <1>2, <1>4 DEF Full
  <2>2. published - Len(MakeRoom) = published - NEvents
    BY <1>1, <1>4
  <2> QED BY <1>1, <2>1, <2>2
<1> QED BY <1>3, <1>4

LEMMA StreamStep ==
    EQTypeOK /\ QueueInv /\ [EQNext]_queueVars => [Stream!Next]_(Stream!vars)
<1> SUFFICES ASSUME EQTypeOK, QueueInv, [EQNext]_queueVars
             PROVE  Stream!Next \/ UNCHANGED Stream!vars
  OBVIOUS
<1>1. CASE ReceiveEvent
  <2>1. /\ ~closed /\ ~closed' /\ closed' = closed /\ got' = got
        /\ published' = published + 1
        /\ queue' = Append(MakeRoom, published + 1) /\ published + 1 \in Nat
    BY <1>1 DEF ReceiveEvent, PublishEvent, EQTypeOK
  <2>2. NEvents' = Len(MakeRoom) + 1
    BY <2>1, PutProperties DEF NEvents
  <2>3. published' - NEvents' = published - Len(MakeRoom)
    BY <2>1, <2>2, RoomOfStream
  <2> QED BY <2>1, <2>3, RoomOfStream
          DEF Stream!Next, Stream!Publish, Stream!MakeRoom, Stream!Unread
<1>2. CASE CloseStream
  <2>1. /\ ~closed /\ closed' = TRUE /\ got' = got /\ published' = published
        /\ queue' = Append(MakeRoom, Sentinel) /\ Sentinel \in Nat
    BY <1>2 DEF CloseStream, PublishSentinel, Sentinel
  <2>2. Len(queue') = Len(MakeRoom) + 1
    BY <2>1, PutProperties
  <2>3. NEvents' = Len(MakeRoom)
    BY <2>1, <2>2, RoomOfStream DEF NEvents
  <2> QED BY <2>1, <2>3, RoomOfStream
          DEF Stream!Next, Stream!Close, Stream!MakeRoom, Stream!Unread
<1>3. ASSUME NEW w \in Consumer, TakeEvent(w) PROVE Stream!Next
  <2>1. /\ NEvents \in Nat /\ NEvents >= 1 /\ NEvents' = NEvents - 1
        /\ Head(queue) = published - NEvents + 1
    BY <1>3, ContentsTake
  <2>2. /\ closed' = closed /\ published' = published /\ published \in Nat
        /\ got' = [got EXCEPT ![w] = published - NEvents + 1]
    BY <1>3, <2>1 DEF TakeEvent, EQTypeOK
  <2>3. Stream!Deliver(w)
    BY <2>1, <2>2 DEF Stream!Deliver, Stream!Unread
  <2> QED BY <2>3 DEF Stream!Next
<1>4. ASSUME NEW w \in Consumer, SeeClosed(w) PROVE UNCHANGED Stream!vars
  BY <1>4, ContentsSeeClosed DEF SeeClosed, Stream!vars
<1>5. ASSUME NEW w \in Consumer,
             BeginWait(w) \/ WaitAgain(w) \/ AbandonParked(w) \/ AbandonWoken(w)
      PROVE  UNCHANGED Stream!vars
  BY <1>5 DEF BeginWait, WaitAgain, AbandonParked, AbandonWoken, Stream!vars, NEvents
<1>6. CASE UNCHANGED queueVars
  BY <1>6 DEF queueVars, Stream!vars, NEvents
<1> QED BY <1>1, <1>2, <1>3, <1>4, <1>5, <1>6 DEF EQNext, ConsumerStep

\* The queue, sentinel, getters and all, implements the event stream: events
\* are delivered oldest first, each at most once, and one is lost only, as
\* the oldest, when event_queue_size of them are unread.
THEOREM QueueImplementsStream == EQSpec => ImplementsStream
<1> QED BY StreamInit, StreamStep, EventQueueTypes, QueueContents, PTL
        DEF EQSpec, ImplementsStream, Stream!Spec
=============================================================================
