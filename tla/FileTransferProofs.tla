------------------------- MODULE FileTransferProofs -------------------------
(***************************************************************************)
(* Theorems about FileTransfer, for any payloads, buffers and number of    *)
(* calls, and whatever the network does.                                   *)
(***************************************************************************)
EXTENDS FileTransfer, SequenceTheorems, TLAPS

-----------------------------------------------------------------------------
(* The inductive invariant *)

\* A call that is under way has no outcome yet; a data channel belongs to one
\* that has dialled it, or is closed; what is not sent is gone with it; and
\* the row is the one of the call that got past its ftinit command.
PhaseInv ==
    /\ pc \in {"init", "dial", "drain", "read"} => outcome = "none"
    /\ pc = "dial" => chan = "none" /\ flight = <<>> /\ serving = "key"
    /\ pc \in {"drain", "read", "closing"} => chan # "none"
    /\ pc \in {"idle", "init", "closing"} => chan = "none" \/ wclosed
    /\ chan \in {"none", "lost"} => unsent = <<>>
    /\ chan = "lost" => flight = <<>>
    /\ pc \notin {"idle", "init"} \/ outcome = "ok" => op.kind = row.kind

\* The file is a beginning of what it was begun with, which is the data of
\* any upload that goes on with it, from where the row says.
FileInv ==
    /\ Len(file) <= Len(intended) /\ \A i \in 1 .. Len(file) : file[i] = intended[i]
    /\ row.size = IF row.kind = "up" THEN Len(intended) ELSE Len(file)
    /\ op.kind = "up" /\ (op.resume \/ pc \notin {"idle", "init"} \/ outcome = "ok") =>
          op.data = intended
    /\ pc = "dial" /\ row.kind = "up" => row.seekpos = Len(file)

\* What the server has to come: the key, then the rest of the file.
KeyDue == IF serving = "key" THEN 1 ELSE 0
Due == KeyDue + (IF row.kind = "up" THEN Len(intended) - Len(file) ELSE 0)
DueAt(j) == IF j <= KeyDue THEN Key ELSE intended[Len(file) + j - KeyDue]

\* That is what the buffers hold, in that order: the beginning of it; and all
\* of it, as long as there is a channel.
PipeInv ==
    /\ serving = "none" => flight = <<>> /\ unsent = <<>>
    /\ serving \in Kinds => serving = row.kind
    /\ \A j \in 1 .. Len(flight) : flight[j] = DueAt(j)
    /\ \A j \in 1 .. Len(unsent) : unsent[j] = DueAt(Len(flight) + j)
    /\ Len(flight) + Len(unsent) <= Due
    /\ chan \in {"up", "eof"} => Len(flight) + Len(unsent) = Due

\* The server ends an upload when the file is complete, and so is what a call
\* that succeeded has left or got; what a download got is the beginning of the
\* file.
EndInv ==
    /\ chan = "eof" => serving = row.kind /\ (row.kind = "up" => Len(file) = Len(intended))
    /\ row.kind = "down" /\ (chan # "none" \/ outcome = "ok") =>
          Len(rcvd) <= Len(file) /\ \A i \in 1 .. Len(rcvd) : rcvd[i] = file[i]
    /\ outcome = "ok" => IF row.kind = "up" THEN serving = "up" /\ Len(file) = Len(intended)
                                            ELSE Len(rcvd) = Len(file)

TransferInv == FTTypeOK /\ PhaseInv /\ FileInv /\ PipeInv /\ EndInv

-----------------------------------------------------------------------------
(* Types *)

LEMMA PayloadType == \A data \in Payload \cup {<<>>} : data \in Seq(Byte)
BY TransferAssumption, EmptySeq

LEMMA FTTypeInit == Init => FTTypeOK
<1> SUFFICES ASSUME Init PROVE FTTypeOK
  OBVIOUS
<1>1. /\ op \in [kind : Kinds, data : Payload \cup {<<>>}, resume : BOOLEAN]
      /\ row \in [kind : Kinds, size : Nat, seekpos : Nat]
  BY DEF Init, Call, Kinds
<1>2. /\ unsent \in Seq(Byte \cup {Key}) /\ flight \in Seq(Byte \cup {Key})
      /\ rcvd \in Seq(Byte) /\ file \in Seq(Byte) /\ intended \in Seq(Byte)
      /\ Len(flight) = 0
  BY EmptySeq DEF Init
<1>3. Len(flight) <= SockBuf /\ calls \in 0 .. MaxCalls
  BY <1>2, TransferAssumption DEF Init
<1> QED BY <1>1, <1>2, <1>3 DEF Init, FTTypeOK, Outcomes

\* What is left of a sequence behind its first n elements.
LEMMA RestProperties ==
    ASSUME NEW S, NEW s \in Seq(S), NEW n \in 0 .. Len(s)
    PROVE  /\ SubSeq(s, n + 1, Len(s)) \in Seq(S)
           /\ Len(SubSeq(s, n + 1, Len(s))) = Len(s) - n
           /\ \A i \in 1 .. Len(s) - n : SubSeq(s, n + 1, Len(s))[i] = s[n + i]
<1> DEFINE m == n + 1
<1>1. m \in Int /\ Len(s) \in Int /\ \A i \in m .. Len(s) : s[i] \in S
  BY LenProperties
<1>2. Len(s) - m + 1 = Len(s) - n /\ \A i \in 1 .. Len(s) - n : m + i - 1 = n + i
  BY <1>1
<1>3. m <= Len(s) \/ n = Len(s)
  BY <1>1
<1> HIDE DEF m
<1>4. /\ SubSeq(s, m, Len(s)) \in Seq(S)
      /\ Len(SubSeq(s, m, Len(s))) = IF m <= Len(s) THEN Len(s) - m + 1 ELSE 0
      /\ \A i \in 1 .. Len(s) - m + 1 : SubSeq(s, m, Len(s))[i] = s[m + i - 1]
  BY <1>1, SubSeqProperties
<1>5. CASE m <= Len(s)
  BY <1>2, <1>4, <1>5 DEF m
<1>6. CASE n = Len(s)
  <2>1. ~(m <= Len(s)) /\ Len(s) - n = 0
    BY <1>1, <1>6 DEF m
  <2> QED BY <1>2, <1>4, <2>1 DEF m
<1> QED BY <1>3, <1>5, <1>6

\* One element in front of a sequence.
LEMMA PushProperties ==
    ASSUME NEW S, NEW s \in Seq(S), NEW e \in S
    PROVE  /\ <<e>> \o s \in Seq(S)
           /\ Len(<<e>> \o s) = Len(s) + 1
           /\ (<<e>> \o s)[1] = e
           /\ \A j \in 2 .. Len(s) + 1 : (<<e>> \o s)[j] = s[j - 1]
<1>1. <<e>> \in Seq(S) /\ Len(<<e>>) = 1 /\ <<e>>[1] = e /\ Len(s) \in Nat
  BY LenProperties
<1>2. /\ <<e>> \o s \in Seq(S)
      /\ Len(<<e>> \o s) = Len(<<e>>) + Len(s)
      /\ \A i \in 1 .. Len(<<e>>) + Len(s) :
            (<<e>> \o s)[i] = IF i <= Len(<<e>>) THEN <<e>>[i] ELSE s[i - Len(<<e>>)]
  BY <1>1, ConcatProperties
<1> QED BY <1>1, <1>2

\* What is written when the connection is made.
LEMMA WrittenType ==
    ASSUME FTTypeOK, Dialed
    PROVE  /\ unsent' \in Seq(Byte \cup {Key})
           /\ op.kind = "down" => Len(unsent') = 1 /\ unsent'[1] = Key
           /\ op.kind = "up" /\ row.seekpos <= Len(op.data) =>
                 /\ Len(unsent') = 1 + Len(op.data) - row.seekpos
                 /\ unsent'[1] = Key
                 /\ \A j \in 2 .. Len(unsent') : unsent'[j] = op.data[row.seekpos + j - 1]
<1> DEFINE B == Byte \cup {Key}
           rest == SubSeq(op.data, row.seekpos + 1, Len(op.data))
<1>1. op.data \in Seq(B) /\ row.seekpos \in Nat /\ Key \in B
  BY PayloadType, SeqMonotonic DEF FTTypeOK
<1>2. unsent' = <<Key>> \o (IF op.kind = "up" THEN rest ELSE <<>>)
  BY DEF Dialed, Remaining
<1> HIDE DEF B
<1>3. CASE op.kind = "up" /\ row.seekpos <= Len(op.data)
  <2>1. row.seekpos \in 0 .. Len(op.data) /\ Len(op.data) \in Nat
    BY <1>1, <1>3, LenProperties
  <2>2. /\ rest \in Seq(B) /\ Len(rest) = Len(op.data) - row.seekpos
        /\ \A i \in 1 .. Len(op.data) - row.seekpos : rest[i] = op.data[row.seekpos + i]
    BY <1>1, <2>1, RestProperties
  <2> HIDE DEF rest
  <2>3. /\ unsent' \in Seq(B) /\ Len(unsent') = Len(rest) + 1 /\ unsent'[1] = Key
        /\ \A j \in 2 .. Len(rest) + 1 : unsent'[j] = rest[j - 1]
    BY <1>1, <1>2, <1>3, <2>2, PushProperties
  <2>4. ASSUME NEW j \in 2 .. Len(unsent') PROVE unsent'[j] = op.data[row.seekpos + j - 1]
    <3>1. j - 1 \in 1 .. Len(op.data) - row.seekpos /\ row.seekpos + (j - 1) = row.seekpos + j - 1
      BY <1>1, <2>1, <2>2, <2>3
    <3> QED BY <3>1, <2>2, <2>3
  <2> QED BY <1>1, <1>3, <2>1, <2>2, <2>3, <2>4 DEF B
<1>4. CASE op.kind = "up" /\ ~(row.seekpos <= Len(op.data))
  <2>1. rest = <<>>
    BY <1>1, <1>4, SubSeqEmpty, LenProperties
  <2> QED BY <1>1, <1>2, <1>4, <2>1, EmptySeq, PushProperties DEF B
<1>5. CASE op.kind # "up"
  <2>1. unsent' = <<Key>> \o <<>>
    BY <1>2, <1>5
  <2> QED BY <1>1, <1>5, <2>1, EmptySeq, PushProperties DEF B
<1> QED BY <1>3, <1>4, <1>5


LEMMA FTTypeStep == FTTypeOK /\ FileInv /\ PipeInv /\ [Next]_vars => FTTypeOK'
<1> SUFFICES ASSUME FTTypeOK, FileInv, PipeInv, [Next]_vars PROVE FTTypeOK'
  OBVIOUS
<1> USE DEF FTTypeOK
<1>0. Len(unsent) \in Nat /\ Len(flight) \in Nat /\ Len(file) \in Nat /\ Len(rcvd) \in Nat
  BY LenProperties
<1>1. ASSUME NEW c \in [kind : Kinds, data : Payload \cup {<<>>}, resume : BOOLEAN], Begin(c)
      PROVE  FTTypeOK'
  BY <1>1, TransferAssumption DEF Begin, sockVars, serverVars, Outcomes
<1>2. CASE Upload
  BY <1>1, <1>2 DEF Upload, Call, Kinds
<1>3. CASE Download
  BY <1>1, <1>3 DEF Download, Call, Kinds
<1>4. CASE Granted
  <2>1. op.data \in Seq(Byte) /\ Len(op.data) \in Nat
    BY PayloadType, LenProperties
  <2>2. /\ row' \in [kind : Kinds, size : Nat, seekpos : Nat]
        /\ file' \in Seq(Byte) /\ intended' \in Seq(Byte)
    BY <1>0, <1>4, <2>1, EmptySeq DEF Granted
  <2> QED BY <1>4, <2>2 DEF Granted, sockVars
<1>5. CASE Refused
  BY <1>5 DEF Refused, sockVars, serverVars, Outcomes
<1>6. CASE Dialed
  BY <1>6, WrittenType, EmptySeq DEF Dialed, serverVars
<1>7. CASE DialFails
  BY <1>7 DEF DialFails, sockVars, serverVars, Outcomes
<1>8. CASE DrainDone
  BY <1>8 DEF DrainDone, Drained, serverVars
<1>9. CASE DrainFails
  BY <1>9 DEF DrainFails, Finish, serverVars, Outcomes
<1>10. CASE ReadDone
  BY <1>10 DEF ReadDone, ReadResult, Finish, serverVars, Outcomes
<1>11. CASE WaitClosed
  BY <1>11 DEF WaitClosed, serverVars, Outcomes
<1>12. CASE Timeout
  BY <1>12 DEF Timeout, Interrupted, Finish, serverVars, Outcomes
<1>13. CASE CancelCall
  BY <1>13 DEF CancelCall, Interrupted, Finish, serverVars, Outcomes
<1>14. CASE Flush
  <2>1. /\ Head(unsent) \in Byte \cup {Key} /\ Tail(unsent) \in Seq(Byte \cup {Key})
        /\ Len(Tail(unsent)) = Len(unsent) - 1
    BY <1>14, HeadTailProperties DEF Flush
  <2>2. /\ flight' \in Seq(Byte \cup {Key}) /\ Len(flight') = Len(flight) + 1
        /\ unsent' = Tail(unsent)
    BY <1>14, <2>1, AppendProperties DEF Flush
  <2>3. Len(flight') <= SockBuf /\ (pc = "read" => Len(unsent') <= HighWater)
    BY <1>0, <1>14, <2>1, <2>2, TransferAssumption DEF Flush
  <2> QED BY <1>14, <2>1, <2>2, <2>3 DEF Flush, callVars, serverVars
<1>15. CASE ClosedBehind
  BY <1>15 DEF ClosedBehind, callVars, serverVars
<1>16. CASE Reset
  BY <1>16, EmptySeq, TransferAssumption DEF Reset, callVars, serverVars
<1>17. CASE ServerReads
  <2>1. /\ Head(flight) \in Byte \cup {Key} /\ Tail(flight) \in Seq(Byte \cup {Key})
        /\ Len(Tail(flight)) = Len(flight) - 1
    BY <1>17, HeadTailProperties DEF ServerReads
  <2>2. CASE Head(flight) = Key
    BY <1>17, <2>1, <2>2, TransferAssumption DEF ServerReads, callVars, Kinds
  <2>3. CASE Head(flight) # Key
    <3>1. Append(file, Head(flight)) \in Seq(Byte)
      BY <2>1, <2>3, AppendProperties
    <3>2. file' \in Seq(Byte) /\ serving' = serving
      BY <1>17, <2>3, <3>1 DEF ServerReads
    <3> QED BY <1>0, <1>17, <2>1, <3>2, TransferAssumption DEF ServerReads, callVars
  <2> QED BY <2>2, <2>3
<1>18. CASE UploadEnds
  BY <1>18 DEF UploadEnds, callVars, serverVars
<1>19. CASE ServerSends
  <2>1. row.kind = "down" /\ row.size = Len(file)
    BY <1>19 DEF ServerSends, PipeInv, FileInv, Kinds
  <2>2. Len(rcvd) + 1 \in 1 .. Len(file)
    BY <1>0, <1>19, <2>1 DEF ServerSends
  <2>3. rcvd' \in Seq(Byte)
    BY <1>19, <2>2, ElementOfSeq, AppendProperties DEF ServerSends
  <2> QED BY <1>19, <2>3 DEF ServerSends, callVars, serverVars
<1>20. CASE DownloadEnds
  BY <1>20 DEF DownloadEnds, callVars, serverVars
<1>21. CASE UNCHANGED vars
  BY <1>21 DEF vars, callVars, sockVars, serverVars
<1> QED
  BY <1>2, <1>3, <1>4, <1>5, <1>6, <1>7, <1>8, <1>9, <1>10, <1>11, <1>12, <1>13, <1>14, <1>15, <1>16, <1>17, <1>18, <1>19, <1>20, <1>21 DEF Next, Transfer, Socket, Server

-----------------------------------------------------------------------------
(* Phases *)

LEMMA TransferInvInit == Init => TransferInv
<1> SUFFICES ASSUME Init PROVE TransferInv
  OBVIOUS
<1>1. FTTypeOK
  BY FTTypeInit
<1>2. PhaseInv
  BY DEF Init, PhaseInv
<1>3. Len(file) = 0 /\ Len(intended) = 0 /\ Len(rcvd) = 0 /\ Len(flight) = 0 /\ Len(unsent) = 0
  BY EmptySeq DEF Init
<1>4. FileInv /\ EndInv
  BY <1>3 DEF Init, FileInv, EndInv, Call
<1>5. PipeInv
  BY <1>3 DEF Init, PipeInv, Kinds, Due, KeyDue
<1> QED BY <1>1, <1>2, <1>4, <1>5 DEF TransferInv

LEMMA PhaseStep ==
    ASSUME FTTypeOK, PhaseInv, [Next]_vars
    PROVE  PhaseInv'
<1> USE DEF PhaseInv
<1>1. ASSUME NEW c, Begin(c) PROVE PhaseInv'
  BY <1>1 DEF Begin, sockVars, serverVars
<1>2. CASE Upload \/ Download
  BY <1>1, <1>2 DEF Upload, Download
<1>3. CASE Granted
  BY <1>3 DEF Granted, sockVars
<1>4. CASE Refused
  BY <1>4 DEF Refused, sockVars, serverVars
<1>5. CASE Dialed
  BY <1>5 DEF Dialed, serverVars
<1>6. CASE DialFails
  BY <1>6 DEF DialFails, sockVars, serverVars
<1>7. CASE DrainDone
  BY <1>7 DEF DrainDone, serverVars
<1>8. CASE DrainFails
  BY <1>8 DEF DrainFails, Finish, serverVars
<1>9. CASE ReadDone
  BY <1>9 DEF ReadDone, Finish, serverVars
<1>10. CASE WaitClosed
  BY <1>10 DEF WaitClosed, serverVars
<1>11. CASE Timeout
  BY <1>11 DEF Timeout, Interrupted, Finish, serverVars
<1>12. CASE CancelCall
  BY <1>12 DEF CancelCall, Interrupted, Finish, serverVars
<1>13. CASE Flush
  BY <1>13 DEF Flush, callVars, serverVars
<1>14. CASE ClosedBehind
  BY <1>14 DEF ClosedBehind, callVars, serverVars
<1>15. CASE Reset
  BY <1>15 DEF Reset, callVars, serverVars
<1>16. CASE ServerReads
  BY <1>16 DEF ServerReads, callVars
<1>17. CASE UploadEnds \/ DownloadEnds
  BY <1>17 DEF UploadEnds, DownloadEnds, callVars, serverVars
<1>18. CASE ServerSends
  BY <1>18 DEF ServerSends, callVars, serverVars
<1>19. CASE UNCHANGED vars
  BY <1>19 DEF vars, callVars, sockVars, serverVars
<1> QED
  BY <1>2, <1>3, <1>4, <1>5, <1>6, <1>7, <1>8, <1>9, <1>10, <1>11, <1>12, <1>13, <1>14, <1>15, <1>16, <1>17, <1>18, <1>19 DEF Next, Transfer, Socket, Server

-----------------------------------------------------------------------------
(* The bytes *)

\* Nothing but the calls, the server's answer and its reading moves a byte of
\* the file or turns the page of the row.
LEMMA FileKept ==
    ASSUME FileInv, UNCHANGED <<op, row, serverVars>>,
           pc' \in {"idle", "init"} \/ pc \notin {"idle", "init"},
           pc' = "dial" => pc = "dial",
           outcome' = "ok" => outcome = "ok" \/ pc \notin {"idle", "init"}
    PROVE  FileInv'
BY DEF FileInv, serverVars

\* The buffers are as they were: it takes a channel for all of it to be there.
LEMMA PipeKept ==
    ASSUME PipeInv, UNCHANGED <<row, flight, unsent, serverVars>>,
           chan' \in {"up", "eof"} => chan \in {"up", "eof"}
    PROVE  PipeInv'
BY DEF PipeInv, Due, KeyDue, DueAt, serverVars

LEMMA EndKept ==
    ASSUME EndInv, UNCHANGED <<row, rcvd, serverVars>>,
           chan' = "eof" => chan = "eof", chan = "none" => chan' = "none",
           outcome' = "ok" => outcome = "ok"
    PROVE  EndInv'
BY DEF EndInv, serverVars

LEMMA BytesLength ==
    ASSUME FTTypeOK
    PROVE  /\ Len(file) \in Nat /\ Len(intended) \in Nat /\ Len(rcvd) \in Nat
           /\ Len(flight) \in Nat /\ Len(unsent) \in Nat
           /\ op.data \in Seq(Byte) /\ Len(op.data) \in Nat
BY PayloadType, LenProperties DEF FTTypeOK

LEMMA DueType == FTTypeOK => KeyDue \in 0 .. 1 /\ Due \in Int
BY BytesLength DEF KeyDue, Due

\* The server's answer: the file is begun, gone on with, or read.
LEMMA GrantedBytes ==
    ASSUME FTTypeOK, PhaseInv, FileInv, PipeInv, EndInv, Granted
    PROVE  FileInv' /\ PipeInv' /\ EndInv'
<1> USE BytesLength
<1>1. /\ pc' = "dial" /\ op' = op /\ outcome' = outcome /\ outcome = "none"
      /\ chan' = "none" /\ flight' = <<>> /\ unsent' = <<>> /\ serving' = "key"
      /\ row'.kind = op.kind
      /\ row'.size = IF op.kind = "up" THEN Len(op.data) ELSE Len(file)
      /\ row'.seekpos = IF op.resume THEN Len(file) ELSE 0
  BY DEF Granted, PhaseInv, sockVars
<1>2. FileInv'
  <2>1. CASE op.kind = "up" /\ ~op.resume
    <3>1. file' = <<>> /\ intended' = op.data
      BY <2>1 DEF Granted
    <3> QED BY <1>1, <2>1, <3>1, EmptySeq DEF FileInv
  <2>2. CASE op.kind = "up" /\ op.resume
    <3>1. file' = file /\ intended' = intended /\ op.data = intended
      BY <2>2 DEF Granted, FileInv
    <3> QED BY <1>1, <2>2, <3>1 DEF FileInv
  <2>3. CASE op.kind # "up"
    <3>1. file' = file /\ intended' = intended
      BY <2>3 DEF Granted
    <3> QED BY <1>1, <2>3, <3>1 DEF FileInv
  <2> QED BY <2>1, <2>2, <2>3 DEF FTTypeOK
<1>3. PipeInv'
  <2>1. Len(flight') = 0 /\ Len(unsent') = 0
    BY <1>1, EmptySeq
  <2>2. Len(file') \in Nat /\ Len(intended') \in Nat /\ Len(file') <= Len(intended')
    <3>1. op.kind = "up" /\ ~op.resume => file' = <<>> /\ intended' = op.data
      BY DEF Granted
    <3>2. ~(op.kind = "up" /\ ~op.resume) => file' = file /\ intended' = intended
      BY DEF Granted
    <3> QED BY <3>1, <3>2, EmptySeq DEF FileInv
  <2>3. 0 <= Due'
    BY <1>1, <2>2 DEF Due, KeyDue
  <2> QED BY <1>1, <2>1, <2>3 DEF PipeInv, Kinds
<1>4. EndInv'
  BY <1>1 DEF EndInv
<1> QED BY <1>2, <1>3, <1>4

\* The key and the data are written, all that the server has to come.
LEMMA DialedBytes ==
    ASSUME FTTypeOK, PhaseInv, FileInv, PipeInv, EndInv, Dialed
    PROVE  FileInv' /\ PipeInv' /\ EndInv'
<1> USE BytesLength
<1>1. /\ pc = "dial" /\ pc' = "drain" /\ op.kind = row.kind /\ serving = "key" /\ serving' = "key"
      /\ flight = <<>> /\ flight' = <<>> /\ chan' = "up" /\ outcome = "none" /\ outcome' = "none"
      /\ UNCHANGED <<op, row, file, intended>> /\ rcvd' = <<>>
  BY DEF Dialed, PhaseInv, serverVars
<1>2. FileInv'
  BY <1>1, FileKept DEF serverVars, Dialed
<1>3. Len(flight') = 0
  BY <1>1, EmptySeq
<1>4. unsent' \in Seq(Byte \cup {Key}) /\ Len(unsent') \in Nat
  BY WrittenType, LenProperties
<1>5. CASE op.kind = "up"
  <2>1. op.data = intended /\ row.seekpos = Len(file) /\ Len(file) <= Len(intended)
    BY <1>1, <1>5 DEF FileInv
  <2>2. /\ Len(unsent') = 1 + Len(intended) - Len(file)
        /\ unsent'[1] = Key
        /\ \A j \in 2 .. Len(unsent') : unsent'[j] = intended[Len(file) + j - 1]
    BY <1>5, <2>1, WrittenType
  <2>3. Due' = 1 + Len(intended) - Len(file) /\ KeyDue' = 1
    BY <1>1, <1>5 DEF Due, KeyDue
  <2>4. ASSUME NEW j \in 1 .. Len(unsent') PROVE unsent'[j] = DueAt(Len(flight) + j)'
    BY <1>1, <1>3, <1>4, <2>2, <2>3 DEF DueAt
  <2>5. PipeInv'
    BY <1>1, <1>3, <1>4, <2>2, <2>3, <2>4 DEF PipeInv, Kinds
  <2> QED BY <1>1, <1>2, <1>5, <2>5 DEF EndInv
<1>6. CASE op.kind = "down"
  <2>1. Len(unsent') = 1 /\ unsent'[1] = Key
    BY <1>6, WrittenType
  <2>2. Due' = 1 /\ KeyDue' = 1
    BY <1>1, <1>6 DEF Due, KeyDue
  <2>3. ASSUME NEW j \in 1 .. Len(unsent') PROVE unsent'[j] = DueAt(Len(flight) + j)'
    BY <1>3, <2>1, <2>2 DEF DueAt
  <2>4. PipeInv'
    BY <1>1, <1>3, <1>4, <2>1, <2>2, <2>3 DEF PipeInv, Kinds
  <2>5. Len(rcvd') = 0
    BY <1>1, EmptySeq
  <2>6. EndInv'
    BY <1>1, <1>6, <2>5 DEF EndInv
  <2> QED BY <1>2, <2>4, <2>6
<1> QED BY <1>5, <1>6 DEF FTTypeOK, Kinds

\* One byte goes from the transport to the kernel.
LEMMA FlushBytes ==
    ASSUME FTTypeOK, PipeInv, Flush
    PROVE  PipeInv'
<1> USE BytesLength
<1>1. /\ Len(unsent) > 0 /\ Head(unsent) = unsent[1] /\ Head(unsent) \in Byte \cup {Key}
      /\ Len(unsent') = Len(unsent) - 1
      /\ \A j \in 1 .. Len(unsent') : unsent'[j] = unsent[j + 1]
  BY HeadTailProperties, EmptySeq DEF Flush, FTTypeOK
<1>2. /\ Len(flight') = Len(flight) + 1
      /\ \A j \in 1 .. Len(flight) : flight'[j] = flight[j]
      /\ flight'[Len(flight) + 1] = unsent[1]
  BY <1>1, AppendProperties DEF Flush, FTTypeOK
<1>3. UNCHANGED <<row, serving, file, intended, chan>>
  BY DEF Flush, callVars, serverVars
<1>4. /\ Due' = Due
      /\ \A j \in Nat : DueAt(j)' = DueAt(j)
  BY <1>3 DEF Due, DueAt, KeyDue
<1>5. ASSUME NEW j \in 1 .. Len(flight') PROVE flight'[j] = DueAt(j)'
  <2>1. CASE j <= Len(flight)
    BY <1>2, <1>4, <2>1 DEF PipeInv
  <2>2. CASE j = Len(flight) + 1
    <3>1. unsent[1] = DueAt(Len(flight) + 1)
      BY <1>1 DEF PipeInv
    <3> QED BY <1>2, <1>4, <2>2, <3>1
  <2> QED BY <1>2, <2>1, <2>2
<1>6. ASSUME NEW j \in 1 .. Len(unsent') PROVE unsent'[j] = DueAt(Len(flight) + j)'
  <2>1. unsent'[j] = DueAt(Len(flight) + (j + 1))
    BY <1>1 DEF PipeInv
  <2>2. Len(flight') + j = Len(flight) + (j + 1)
    BY <1>1, <1>2
  <2> QED BY <1>3, <2>1, <2>2 DEF DueAt, KeyDue
<1> QED BY <1>1, <1>2, <1>3, <1>4, <1>5, <1>6 DEF PipeInv, Flush

\* The server reads one byte, which is the one it has to come.
LEMMA ReadBytes ==
    ASSUME FTTypeOK, PhaseInv, FileInv, PipeInv, EndInv, ServerReads
    PROVE  FileInv' /\ PipeInv' /\ EndInv'
<1> USE BytesLength
<1>1. /\ Len(flight) > 0 /\ Head(flight) = flight[1]
      /\ Len(flight') = Len(flight) - 1
      /\ \A j \in 1 .. Len(flight') : flight'[j] = flight[j + 1]
  BY HeadTailProperties, EmptySeq DEF ServerReads, FTTypeOK
<1>2. UNCHANGED <<pc, op, outcome, row, chan, unsent, rcvd, intended>>
  BY DEF ServerReads, callVars
<1>3. flight[1] = DueAt(1) /\ 1 <= Due
  <2>1. 1 \in 1 .. Len(flight)
    BY <1>1
  <2>2. Len(flight) + Len(unsent) <= Due
    BY DEF PipeInv
  <2> QED BY <2>1, <2>2, DueType DEF PipeInv
<1>4. CASE serving = "key"
  <2>1. Head(flight) = Key
    BY <1>1, <1>3, <1>4 DEF DueAt, KeyDue
  <2>2. serving' = row.kind /\ serving' \in Kinds /\ file' = file
    BY <2>1 DEF ServerReads, FTTypeOK
  <2>3. FileInv' /\ EndInv'
    BY <1>2, <1>4, <2>2 DEF FileInv, EndInv, FTTypeOK, Kinds
  <2>4. /\ KeyDue = 1 /\ KeyDue' = 0 /\ Due' = Due - 1
        /\ \A j \in Nat : DueAt(j + 1) = DueAt(j)'
    <3>1. KeyDue = 1 /\ KeyDue' = 0
      BY <1>4, <2>2 DEF KeyDue, Kinds
    <3>2. Due' = Due - 1
      BY <1>2, <2>2, <3>1 DEF Due, ServerReads, callVars
    <3>3. ASSUME NEW j \in Nat PROVE DueAt(j + 1) = DueAt(j)'
      <4>1. Len(file) + (j + 1) - 1 = Len(file) + j - 0 /\ (j + 1 <= 1 <=> j <= 0)
        OBVIOUS
      <4> QED BY <1>2, <2>2, <3>1, <4>1 DEF DueAt
    <3> QED BY <3>1, <3>2, <3>3
  <2>5. ASSUME NEW j \in 1 .. Len(flight') PROVE flight'[j] = DueAt(j)'
    <3>1. flight'[j] = DueAt(j + 1) /\ j \in Nat
      BY <1>1 DEF PipeInv
    <3> QED BY <3>1, <2>4
  <2>6. ASSUME NEW j \in 1 .. Len(unsent') PROVE unsent'[j] = DueAt(Len(flight) + j)'
    <3>1. unsent'[j] = DueAt(Len(flight) + j)
      BY <1>2 DEF PipeInv
    <3>2. Len(flight') + j = Len(flight) + j - 1 /\ Len(flight) + j \in Nat
      BY <1>1, <1>2
    <3>3. Len(file) + (Len(flight) + j) - 1 = Len(file) + (Len(flight') + j) - 0
      BY <3>2
    <3>4. Len(flight) + j <= 1 <=> Len(flight') + j <= 0
      BY <3>2
    <3> QED BY <1>2, <2>2, <2>4, <3>1, <3>3, <3>4 DEF DueAt
  <2>7. PipeInv'
    <3>1. Len(flight') + Len(unsent') = Len(flight) + Len(unsent) - 1
      BY <1>1, <1>2
    <3>2. Due \in Int /\ Len(flight) + Len(unsent) <= Due
      BY DueType DEF PipeInv
    <3>3. chan' \in {"up", "eof"} => Len(flight) + Len(unsent) = Due
      BY <1>2 DEF PipeInv
    <3>4. Len(flight') + Len(unsent') <= Due'
      BY <2>4, <3>1, <3>2
    <3>5. chan' \in {"up", "eof"} => Len(flight') + Len(unsent') = Due'
      BY <2>4, <3>1, <3>3
    <3> QED BY <1>2, <2>2, <2>5, <2>6, <3>4, <3>5 DEF PipeInv, Kinds
  <2> QED BY <2>3, <2>7
<1>5. CASE serving # "key"
  <2>1. KeyDue = 0 /\ row.kind = "up" /\ Len(file) < Len(intended) /\ serving = "up"
    BY <1>1, <1>3, <1>5, EmptySeq DEF Due, KeyDue, FileInv, PipeInv, FTTypeOK, Kinds
  <2>2. Head(flight) = intended[Len(file) + 1] /\ Head(flight) \in Byte
    <3>1. Head(flight) = intended[Len(file) + 1]
      BY <1>1, <1>3, <2>1 DEF DueAt
    <3>2. Len(file) + 1 \in 1 .. Len(intended)
      BY <2>1
    <3> QED BY <3>1, <3>2, ElementOfSeq DEF FTTypeOK
  <2>3. Head(flight) # Key
    BY <2>2, TransferAssumption
  <2>4. serving' = serving /\ file' = Append(file, Head(flight))
    BY <2>1, <2>3 DEF ServerReads, FileInv
  <2>5. /\ Len(file') = Len(file) + 1
        /\ \A i \in 1 .. Len(file) : file'[i] = file[i]
        /\ file'[Len(file) + 1] = intended[Len(file) + 1]
    BY <2>2, <2>4, AppendProperties DEF FTTypeOK
  <2>6. FileInv'
    <3>1. pc # "dial"
      BY <1>5 DEF PhaseInv
    <3>2. \A i \in 1 .. Len(file') : file'[i] = intended'[i]
      BY <1>2, <2>5 DEF FileInv
    <3> QED BY <1>2, <2>1, <2>5, <3>1, <3>2 DEF FileInv
  <2>7. EndInv'
    <3>1. chan # "eof" /\ outcome # "ok"
      BY <2>1 DEF EndInv
    <3> QED BY <1>2, <2>1, <3>1 DEF EndInv
  <2>8. /\ KeyDue' = 0 /\ Due' = Due - 1
        /\ \A j \in Nat : DueAt(j)' = IF j <= 0 THEN Key ELSE intended[Len(file') + j]
    BY <1>2, <2>1, <2>4, <2>5 DEF Due, DueAt, KeyDue
  <2>9. ASSUME NEW j \in 1 .. Len(flight') PROVE flight'[j] = DueAt(j)'
    <3>1. flight'[j] = DueAt(j + 1)
      BY <1>1 DEF PipeInv
    <3>2. DueAt(j + 1) = intended[Len(file) + (j + 1)] /\ Len(file) + (j + 1) = Len(file') + j
      BY <2>1, <2>5 DEF DueAt
    <3>3. j \in Nat /\ ~(j <= 0)
      BY <1>1
    <3> QED BY <3>1, <3>2, <3>3, <2>8
  <2>10. ASSUME NEW j \in 1 .. Len(unsent') PROVE unsent'[j] = DueAt(Len(flight) + j)'
    <3>1. unsent'[j] = DueAt(Len(flight) + j)
      BY <1>2 DEF PipeInv
    <3>2. /\ DueAt(Len(flight) + j) = intended[Len(file) + (Len(flight) + j)]
          /\ Len(file) + (Len(flight) + j) = Len(file') + (Len(flight') + j)
          /\ Len(flight') + j \in Nat /\ ~(Len(flight') + j <= 0)
      BY <1>1, <1>2, <2>1, <2>5 DEF DueAt
    <3>3. Len(file') + (Len(flight') + j) - 0 = Len(file') + (Len(flight') + j)
      BY <1>1, <1>2, <2>5
    <3> QED BY <1>2, <2>8, <3>1, <3>2, <3>3 DEF DueAt
  <2>11. PipeInv'
    <3>1. Len(flight') + Len(unsent') = Len(flight) + Len(unsent) - 1
      BY <1>1, <1>2
    <3>2. Due \in Int /\ Len(flight) + Len(unsent) <= Due
      BY DueType DEF PipeInv
    <3>3. chan' \in {"up", "eof"} => Len(flight) + Len(unsent) = Due
      BY <1>2 DEF PipeInv
    <3>4. Len(flight') + Len(unsent') <= Due'
      BY <2>8, <3>1, <3>2
    <3>5. chan' \in {"up", "eof"} => Len(flight') + Len(unsent') = Due'
      BY <2>8, <3>1, <3>3
    <3> QED BY <1>2, <2>1, <2>4, <2>9, <2>10, <3>4, <3>5 DEF PipeInv, Kinds
  <2> QED BY <2>6, <2>7, <2>11
<1> QED BY <1>4, <1>5

\* The call begins: what it uploads again is what the file was begun with.
LEMMA BeginBytes ==
    ASSUME FTTypeOK, FileInv, PipeInv, EndInv, NEW c, Begin(c),
           c.kind = "up" \/ ~c.resume
    PROVE  FileInv' /\ PipeInv' /\ EndInv'
<1>1. /\ pc' = "init" /\ op' = c /\ outcome' = "none" /\ (c.resume => c.data = intended)
      /\ UNCHANGED <<row, chan, flight, unsent, rcvd, serving, file, intended>>
  BY DEF Begin, sockVars, serverVars
<1>2. FileInv'
  BY <1>1 DEF FileInv
<1>3. PipeInv'
  BY <1>1, PipeKept DEF serverVars
<1>4. EndInv'
  BY <1>1, EndKept DEF serverVars
<1> QED BY <1>2, <1>3, <1>4

\* After a reset no byte is on its way any more.
LEMMA ResetBytes ==
    ASSUME FTTypeOK, FileInv, PipeInv, EndInv, Reset
    PROVE  FileInv' /\ PipeInv' /\ EndInv'
<1>1. /\ chan' = "lost" /\ flight' = <<>> /\ unsent' = <<>> /\ chan # "none"
      /\ UNCHANGED <<pc, op, outcome, row, rcvd, serving, file, intended>>
  BY DEF Reset, callVars, serverVars
<1>2. Len(flight') = 0 /\ Len(unsent') = 0
  BY <1>1, EmptySeq
<1>3. Due' = Due /\ 0 <= Due
  <2>1. Due' = Due
    BY <1>1 DEF Due, KeyDue
  <2>2. Len(file) \in Nat /\ Len(intended) \in Nat /\ Len(file) <= Len(intended)
    BY BytesLength DEF FileInv
  <2>3. KeyDue \in Nat
    BY DEF KeyDue
  <2>4. Due = KeyDue + (Len(intended) - Len(file)) \/ Due = KeyDue + 0
    BY DEF Due
  <2>5. 0 <= Due
    BY <2>2, <2>3, <2>4
  <2> QED BY <2>1, <2>5
<1>4. PipeInv'
  BY <1>1, <1>2, <1>3 DEF PipeInv
<1>5. FileInv'
  BY <1>1, FileKept DEF serverVars
<1>6. EndInv'
  BY <1>1, EndKept DEF serverVars
<1> QED BY <1>4, <1>5, <1>6

\* read() returns at the end the server makes, readexactly() with it all.
LEMMA ReadDoneBytes ==
    ASSUME FTTypeOK, PhaseInv, FileInv, PipeInv, EndInv, ReadDone
    PROVE  FileInv' /\ PipeInv' /\ EndInv'
<1>1. /\ pc = "read" /\ pc' = "closing" /\ op.kind = row.kind /\ chan # "none"
      /\ UNCHANGED <<op, row, chan, flight, unsent, rcvd, serving, file, intended>>
  BY DEF ReadDone, Finish, PhaseInv, serverVars
<1>2. FileInv' /\ PipeInv'
  BY <1>1, FileKept, PipeKept DEF serverVars
<1>3. outcome' = "ok" => IF op.kind = "up" THEN chan = "eof" ELSE Len(rcvd) = row.size
  BY DEF ReadDone, ReadResult, Finish
<1>4. outcome' = "ok" => IF row.kind = "up" THEN serving = "up" /\ Len(file) = Len(intended)
                                           ELSE Len(rcvd) = Len(file)
  BY <1>1, <1>3 DEF EndInv, FileInv
<1>5. EndInv'
  BY <1>1, <1>4 DEF EndInv
<1> QED BY <1>2, <1>5

\* The server ends an upload: it has it all, or has read all that was written.
LEMMA UploadEndsBytes ==
    ASSUME FTTypeOK, FileInv, PipeInv, EndInv, UploadEnds
    PROVE  FileInv' /\ PipeInv' /\ EndInv'
<1>1. /\ chan = "up" /\ chan' = "eof" /\ serving = "up" /\ row.kind = "up"
      /\ UNCHANGED <<pc, op, outcome, row, flight, unsent, rcvd, serving, file, intended>>
  BY DEF UploadEnds, callVars, serverVars, PipeInv, Kinds
<1>2. FileInv' /\ PipeInv'
  BY <1>1, FileKept, PipeKept DEF serverVars
<1>3. Len(file) = Len(intended)
  <2>1. CASE Len(file) = row.size
    BY <1>1, <2>1 DEF FileInv
  <2>2. CASE unsent = <<>> /\ flight = <<>>
    <3>1. Due = 0
      BY <1>1, <2>2, EmptySeq DEF PipeInv
    <3> QED BY <1>1, <3>1, BytesLength DEF Due, KeyDue
  <2> QED BY <2>1, <2>2 DEF UploadEnds
<1> QED BY <1>1, <1>2, <1>3 DEF EndInv

\* The server sends the byte that comes next in the file.
LEMMA SendBytes ==
    ASSUME FTTypeOK, FileInv, PipeInv, EndInv, ServerSends
    PROVE  FileInv' /\ PipeInv' /\ EndInv'
<1> USE BytesLength
<1>1. /\ chan = "up" /\ row.kind = "down" /\ Len(rcvd) < Len(file)
      /\ rcvd' = Append(rcvd, file[Len(rcvd) + 1])
      /\ UNCHANGED <<pc, op, outcome, row, chan, flight, unsent, serving, file, intended>>
  BY DEF ServerSends, callVars, serverVars, PipeInv, FileInv, Kinds
<1>2. FileInv' /\ PipeInv'
  BY <1>1, FileKept, PipeKept DEF serverVars
<1>3. Len(rcvd) + 1 \in 1 .. Len(file)
  BY <1>1
<1>4. /\ Len(rcvd') = Len(rcvd) + 1
      /\ \A i \in 1 .. Len(rcvd) : rcvd'[i] = rcvd[i]
      /\ rcvd'[Len(rcvd) + 1] = file[Len(rcvd) + 1]
  BY <1>1, <1>3, ElementOfSeq, AppendProperties DEF FTTypeOK
<1>5. outcome # "ok"
  BY <1>1 DEF EndInv
<1>6. \A i \in 1 .. Len(rcvd') : rcvd'[i] = file'[i]
  BY <1>1, <1>4 DEF EndInv
<1> QED BY <1>1, <1>2, <1>3, <1>4, <1>5, <1>6 DEF EndInv

LEMMA DownloadEndsBytes ==
    ASSUME FTTypeOK, FileInv, PipeInv, EndInv, DownloadEnds
    PROVE  FileInv' /\ PipeInv' /\ EndInv'
<1>1. /\ chan = "up" /\ chan' = "eof" /\ serving = "down" /\ row.kind = "down"
      /\ UNCHANGED <<pc, op, outcome, row, flight, unsent, rcvd, serving, file, intended>>
  BY DEF DownloadEnds, callVars, serverVars, PipeInv, Kinds
<1>2. FileInv' /\ PipeInv'
  BY <1>1, FileKept, PipeKept DEF serverVars
<1> QED BY <1>1, <1>2 DEF EndInv

\* Every step.
LEMMA BytesStep ==
    ASSUME FTTypeOK, PhaseInv, FileInv, PipeInv, EndInv, [Next]_vars
    PROVE  FileInv' /\ PipeInv' /\ EndInv'
<1>0. ASSUME UNCHANGED <<op, row, rcvd, flight, unsent, serverVars>>,
             pc' = "dial" => pc = "dial",
             outcome' = "ok" => outcome = "ok",
             chan' = chan \/ (chan' = "none" /\ chan # "none"),
             pc' \in {"idle", "init"} \/ pc \notin {"idle", "init"}
      PROVE  FileInv' /\ PipeInv' /\ EndInv'
  <2>1. FileInv'
    BY <1>0, FileKept
  <2>2. PipeInv'
    BY <1>0, PipeKept
  <2>3. CASE chan' = chan
    <3>1. EndInv'
      BY <1>0, <2>3, EndKept
    <3> QED BY <2>1, <2>2, <3>1
  <2>4. CASE chan' = "none"
    <3>1. EndInv'
      BY <1>0, <2>4 DEF EndInv, serverVars
    <3> QED BY <2>1, <2>2, <3>1
  <2> QED BY <1>0, <2>3, <2>4
<1>1. CASE Upload
  BY <1>1, BeginBytes DEF Upload, Call
<1>2. CASE Download
  BY <1>2, BeginBytes DEF Download, Call
<1>3. CASE Granted
  BY <1>3, GrantedBytes
<1>4. CASE Refused
  BY <1>0, <1>4 DEF Refused, sockVars
<1>5. CASE Dialed
  BY <1>5, DialedBytes
<1>6. CASE DialFails
  BY <1>0, <1>6 DEF DialFails, sockVars
<1>7. CASE DrainDone
  BY <1>0, <1>7 DEF DrainDone
<1>8. CASE DrainFails
  BY <1>0, <1>8 DEF DrainFails, Finish
<1>9. CASE ReadDone
  BY <1>9, ReadDoneBytes
<1>10. CASE WaitClosed
  BY <1>0, <1>10 DEF WaitClosed, PhaseInv
<1>11. CASE Timeout
  BY <1>0, <1>11 DEF Timeout, Interrupted, Finish
<1>12. CASE CancelCall
  BY <1>0, <1>12 DEF CancelCall, Interrupted, Finish
<1>13. CASE Flush
  <2>1. UNCHANGED <<callVars, chan, rcvd, serverVars>>
    BY <1>13 DEF Flush
  <2> QED BY <1>13, <2>1, FileKept, EndKept, FlushBytes DEF callVars
<1>14. CASE ClosedBehind
  BY <1>0, <1>14 DEF ClosedBehind, callVars
<1>15. CASE Reset
  BY <1>15, ResetBytes
<1>16. CASE ServerReads
  BY <1>16, ReadBytes
<1>17. CASE UploadEnds
  BY <1>17, UploadEndsBytes
<1>18. CASE ServerSends
  BY <1>18, SendBytes
<1>19. CASE DownloadEnds
  BY <1>19, DownloadEndsBytes
<1>20. CASE UNCHANGED vars
  BY <1>0, <1>20 DEF vars, callVars, sockVars
<1> QED
  BY <1>1, <1>2, <1>3, <1>4, <1>5, <1>6, <1>7, <1>8, <1>9, <1>10, <1>11, <1>12, <1>13, <1>14, <1>15, <1>16, <1>17, <1>18, <1>19, <1>20 DEF Next, Transfer, Socket, Server

-----------------------------------------------------------------------------
(* Theorems *)

\* All of the invariant: what the calls, the socket and the file server know
\* of one another, after any number of transfers.
THEOREM TransferInvariant == Spec => []TransferInv
<1>1. Init => TransferInv
  BY TransferInvInit
<1>2. TransferInv /\ [Next]_vars => TransferInv'
  BY FTTypeStep, PhaseStep, BytesStep DEF TransferInv
<1> QED BY <1>1, <1>2, PTL DEF Spec

\* The state stays well formed; and no upload waits for the server with more
\* than HighWater bytes still in its own buffer.
THEOREM FTTypes == Spec => []FTTypeOK
<1>1. TransferInv => FTTypeOK
  BY DEF TransferInv
<1> QED BY <1>1, TransferInvariant, PTL

\* An upload that returns has put exactly its data on the server, whatever
\* attempts were reset, timed out or cancelled before it, and wherever it was
\* resumed.
THEOREM UploadsComplete == Spec => []UploadComplete
<1>1. ASSUME TransferInv PROVE UploadComplete
  <2> SUFFICES ASSUME op.kind = "up", outcome = "ok" PROVE file = op.data
    BY DEF UploadComplete
  <2>1. /\ row.kind = "up" /\ op.data = intended /\ Len(file) = Len(intended)
        /\ \A i \in 1 .. Len(file) : file[i] = intended[i]
        /\ file \in Seq(Byte) /\ intended \in Seq(Byte)
    BY <1>1 DEF TransferInv, FTTypeOK, PhaseInv, FileInv, EndInv
  <2> QED BY <2>1, SeqEqual
<1> QED BY <1>1, TransferInvariant, PTL

\* A download that returns has the file, all of it and nothing else.
THEOREM DownloadsExact == Spec => []DownloadExact
<1>1. ASSUME TransferInv PROVE DownloadExact
  <2> SUFFICES ASSUME op.kind = "down", outcome = "ok" PROVE rcvd = file
    BY DEF DownloadExact
  <2>1. /\ row.kind = "down" /\ Len(rcvd) = Len(file)
        /\ \A i \in 1 .. Len(rcvd) : rcvd[i] = file[i]
        /\ rcvd \in Seq(Byte) /\ file \in Seq(Byte)
    BY <1>1 DEF TransferInv, FTTypeOK, PhaseInv, EndInv
  <2> QED BY <2>1, SeqEqual
<1> QED BY <1>1, TransferInvariant, PTL

\* No way out of a transfer, by its end, an error, the timeout or a
\* cancellation, leaves its data channel open.
THEOREM ChannelsClosed == Spec => []ChannelClosed
<1>1. TransferInv => ChannelClosed
  BY DEF TransferInv, PhaseInv, ChannelClosed
<1> QED BY <1>1, TransferInvariant, PTL
=============================================================================
