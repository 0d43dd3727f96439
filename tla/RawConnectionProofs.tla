------------------------ MODULE RawConnectionProofs ------------------------
(***************************************************************************)
(* Theorems about RawConnection, for any number of callers and consumers,  *)
(* any limits, and anything that may go wrong outside.                     *)
(***************************************************************************)
EXTENDS RawConnection, EventQueueProofs

-----------------------------------------------------------------------------
(* The inductive invariant *)

\* A session that is being set up has no commands; one that was closed
\* before its receive loop began has none either, so that no event comes
\* behind the sentinel; and a receive loop does not end without a close.
PhaseInv ==
    /\ recv \in {"new", "failed"} =>
          /\ pc[KA] = "off"
          /\ \A t \in Task : pc[t] \in {"off", "idle", "quit", "wclose"}
    /\ recv = "new" \/ (recv = "run" /\ closed) =>
          nsent = 0 /\ \A i \in DOMAIN inbound : inbound[i].k # "event"
    /\ recv \in {"done", "cancelled"} => closed

\* Only the holder of the lock has a future; an unresolved one has a session
\* and a receive loop to resolve it, and a failed one has a closed session.
FutureInv ==
    \A t \in Task :
        /\ fut[t].st # "none" => lock = t
        /\ fut[t].st = "waiting" => ~closed /\ recv = "run"
        /\ fut[t].st = "lost" => closed

SessionInv == SessionTypeOK /\ PhaseInv /\ LockInv /\ FutureInv

\* No line of a response is on its way or in the buffer of rows.
Quiet(in, buf) ==
    /\ buf = <<>>
    /\ \A i \in DOMAIN in : in[i].k \notin {"data", "term"}

\* One response, to command n, is on its way: its terminator, and its rows
\* before that or in the buffer already.
Answering(in, buf, n) ==
    \E e \in DOMAIN in :
        /\ in[e].k = "term" /\ in[e].n = n
        /\ \A i \in DOMAIN in : in[i].k = "term" => i = e
        /\ \/ /\ buf = IF in[e].r = "ok" THEN <<n>> ELSE <<>>
              /\ \A i \in DOMAIN in : in[i].k # "data"
           \/ /\ buf = <<>> /\ in[e].r = "ok"
              /\ \E d \in DOMAIN in :
                    /\ d < e /\ in[d].k = "data" /\ in[d].n = n
                    /\ \A i \in DOMAIN in : in[i].k = "data" => i = d

\* The two ends agree on what is outstanding: at most the last command
\* written, which is the lock holder's; and nothing when the lock is free and
\* could be taken to write, or when the response has been handed over.
InSync ==
    ~closed =>
        /\ outbound # <<>> => outbound = <<nsent>> /\ Quiet(inbound, dataBuf)
        /\ Quiet(inbound, dataBuf) \/ Answering(inbound, dataBuf, nsent)
        /\ lock # None => cmd[lock] = nsent
        /\ \/ lock = None /\ ~tclosed
           \/ lock # None /\ fut[lock].st = "result"
           => outbound = <<>> /\ Quiet(inbound, dataBuf)

\* Nobody is cancelled before the session closes.
UncancelledInv == \A t \in Task : intr[t] = "cancel" => closed

ExchangeInv == UncancelledInv /\ InSync /\ ResponseMatches

\* The end of the stream, read or yet to be read, is the end of the channel.
EofInv ==
    /\ tclosed => ssh # "up"
    /\ \A i \in DOMAIN inbound : inbound[i].k = "eof" => ssh # "up"

\* Nobody is interrupted while sending "quit": either a peer always reads, and
\* nobody is ever found at it, or no task of the session is ever cancelled.
Uninterrupted == "stall" \notin Hazard \/ (Cancellable = {} /\ ~KeepaliveOn)
QuitInv ==
    IF "stall" \notin Hazard THEN \A t \in Task : pc[t] # "quit"
    ELSE pc[KA] = "off" /\ \A t \in Task : intr[t] # "cancel"

ReleaseInv == EofInv /\ QuitInv /\ ConnectionReleased

-----------------------------------------------------------------------------
(* Types *)

LEMMA SessionTypeInit == Init => SessionTypeOK
<1> SUFFICES ASSUME Init PROVE SessionTypeOK
  OBVIOUS
<1>1. /\ waitq \in Seq(Task) /\ dataBuf \in Seq(Nat) /\ outbound \in Seq(Nat)
  BY EmptySeq DEF Init
<1>2. NoFuture \in Futures
  BY EmptySeq DEF NoFuture, Future, Futures
<1>3. fut \in [Task -> Futures]
  BY <1>2 DEF Init
<1>4. inbound \in Seq(Lines)
  <2>1. Greet \in Lines
    BY DEF Greet, Line, Lines
  <2>2. <<>> \in Seq(Lines) /\ <<Greet>> \in Seq(Lines) /\ <<Greet, Greet>> \in Seq(Lines)
    BY <2>1
  <2> QED BY <2>2 DEF Init
<1>5. /\ pc \in [Task -> PCs] /\ cmd \in [Task -> Nat]
      /\ intr \in [Task -> {"no", "timeout", "cancel"}]
      /\ attempt \in [Task -> 0 .. FloodRetries] /\ calls \in [Task -> 0 .. MaxCalls]
  BY TaskAssumption DEF Init, PCs
<1> QED BY <1>1, <1>3, <1>4, <1>5 DEF Init, SessionTypeOK

LEMMA FailPendingType ==
    ASSUME SessionTypeOK
    PROVE  FailPending \in [Task -> Futures]
<1>1. \A f \in Futures : [f EXCEPT !.st = "lost"] \in Futures
  BY DEF Futures
<1> QED BY <1>1 DEF SessionTypeOK, FailPending

LEMMA CancelledType == \A f \in Futures : Cancelled(f) \in Futures
BY DEF Cancelled, Futures

LEMMA LeaveLineType ==
    ASSUME SessionTypeOK, NEW t \in Task, LeaveLine(t)
    PROVE  waitq' \in Seq(Task)
BY RemoveAtProperties, LenProperties DEF SessionTypeOK, LeaveLine

LEMMA JoinLineType ==
    ASSUME SessionTypeOK, NEW t \in Task, JoinLine(t)
    PROVE  waitq' \in Seq(Task) /\ pc' \in [Task -> PCs]
BY AppendProperties DEF SessionTypeOK, JoinLine, PCs

LEMMA NoFutureType == NoFuture \in Futures
BY EmptySeq DEF NoFuture, Future, Futures

LEMMA LeaveType ==
    ASSUME SessionTypeOK, NEW t \in Task, NEW next \in PCs, Leave(t, next)
    PROVE  /\ lock' \in Task \cup {None} /\ pending' \in Task \cup {None}
           /\ fut' \in [Task -> Futures] /\ pc' \in [Task -> PCs]
BY NoFutureType DEF SessionTypeOK, Leave

LEMMA RaisedType == \A t \in Task : Raised(t) \in PCs
BY DEF Raised, PCs

LEMMA BeginExecType ==
    ASSUME SessionTypeOK, NEW t \in Task, BeginExec(t)
    PROVE  /\ calls' \in [Task -> 0 .. MaxCalls] /\ attempt' \in [Task -> 0 .. FloodRetries]
           /\ waitq' \in Seq(Task) /\ pc' \in [Task -> PCs]
<1>1. calls[t] \in 0 .. MaxCalls /\ calls[t] < MaxCalls
  BY DEF SessionTypeOK, BeginExec
<1>2. calls[t] + 1 \in 0 .. MaxCalls /\ 0 \in 0 .. FloodRetries
  BY <1>1, TaskAssumption
<1>3. calls' = [calls EXCEPT ![t] = calls[t] + 1] /\ attempt' = [attempt EXCEPT ![t] = 0]
  BY DEF BeginExec, SessionTypeOK
<1> QED BY <1>2, <1>3, JoinLineType DEF SessionTypeOK, BeginExec

LEMMA SessionTypeTask ==
    ASSUME SessionTypeOK, NEW t \in Task, TaskStep(t)
    PROVE  SessionTypeOK'
<1> USE DEF SessionTypeOK
<1>1. CASE Exec(t)
  BY <1>1, BeginExecType DEF Exec, BeginExec, linkVars
<1>2. CASE Refused(t)
  BY <1>2, HeadTailProperties, AppendProperties DEF Refused, FirstInLine, Raised, PCs, linkVars
<1>3. CASE WriteFails(t)
  BY <1>3, HeadTailProperties, AppendProperties DEF WriteFails, FirstInLine, Raised, PCs, linkVars
<1>4. CASE Write(t)
  <2>1. waitq' \in Seq(Task)
    BY <1>4, HeadTailProperties DEF Write, FirstInLine
  <2>2. nsent' \in Nat /\ cmd' \in [Task -> Nat] /\ outbound' \in Seq(Nat)
    BY <1>4, AppendProperties DEF Write, Written
  <2>3. Unresolved \in Futures
    BY EmptySeq DEF Unresolved, Future, Futures
  <2>4. fut' \in [Task -> Futures]
    BY <1>4, <2>3 DEF Write
  <2>5. pc' \in [Task -> PCs] /\ lock' \in Task /\ pending' \in Task
    BY <1>4 DEF Write, AfterWrite, PCs
  <2> QED BY <1>4, <2>1, <2>2, <2>4, <2>5 DEF Write
<1>5. CASE DrainDone(t)
  BY <1>5 DEF DrainDone, PCs, linkVars
<1>6. CASE DrainFails(t)
  BY <1>6, LeaveType, RaisedType DEF DrainFails, linkVars
<1>7. CASE CommandTimeout(t)
  BY <1>7, CancelledType DEF CommandTimeout, linkVars
<1>8. CASE Answered(t)
  <2> DEFINE next == IF RetriesFlood(t) THEN "flood"
                     ELSE IF fut[t].r = "ok" THEN "idle" ELSE Raised(t)
  <2>1. next \in PCs
    BY RaisedType DEF PCs
  <2>2. Leave(t, next)
    BY <1>8 DEF Answered
  <2>3. attempt' \in [Task -> 0 .. FloodRetries]
    <3> DEFINE a == IF RetriesFlood(t) THEN attempt[t] + 1 ELSE attempt[t]
    <3>1. a \in 0 .. FloodRetries
      <4>1. attempt[t] \in 0 .. FloodRetries /\ FloodRetries \in Nat
        BY TaskAssumption
      <4> QED BY <4>1 DEF RetriesFlood
    <3>2. attempt' = [attempt EXCEPT ![t] = a]
      BY <1>8 DEF Answered
    <3> QED BY <3>1, <3>2
  <2> HIDE DEF next
  <2> QED BY <1>8, <2>1, <2>2, <2>3, LeaveType DEF Answered, linkVars
<1>9. CASE Rejected(t)
  BY <1>9, LeaveType, RaisedType DEF Rejected, linkVars
<1>10. CASE FloodRetry(t)
  BY <1>10, AppendProperties DEF FloodRetry, JoinLine, PCs, linkVars
<1>11. CASE TimesOutClosed(t)
  BY <1>11, LeaveType, RaisedType DEF TimesOutClosed, linkVars
<1>12. CASE CancelCaller(t)
  BY <1>12, CancelledType DEF CancelCaller, linkVars
<1>13. CASE Unwind(t)
  BY <1>13, LeaveType, RaisedType, LeaveLineType DEF Unwind, linkVars
<1>14. CASE CloseSends(t)
  BY <1>14, FailPendingType, AppendProperties DEF CloseSends, BeginClose, CancelKeepalive, TransportClose, Written, Quit, NoFuture, Future, Futures, Raised, PCs
<1>15. CASE CloseStalls(t)
  BY <1>15, FailPendingType, AppendProperties DEF CloseStalls, BeginClose, CancelKeepalive, TransportClose, Written, Quit, NoFuture, Future, Futures, Raised, PCs
<1>16. CASE CloseNoQuit(t)
  <2>1. fut' \in [Task -> Futures]
    BY <1>16, FailPendingType, NoFutureType DEF CloseNoQuit
  <2>2. pc' \in [Task -> PCs]
    BY <1>16, RaisedType DEF CloseNoQuit
  <2>3. intr' \in [Task -> {"no", "timeout", "cancel"}]
    BY <1>16 DEF CloseNoQuit, BeginClose, CancelKeepalive
  <2> QED BY <1>16, <2>1, <2>2, <2>3 DEF CloseNoQuit, BeginClose
<1>17. CASE QuitEnds(t)
  BY <1>17 DEF QuitEnds, TransportClose, PCs, linkVars
<1>18. CASE QuitFails(t)
  BY <1>18, LeaveType, RaisedType DEF QuitFails, linkVars
<1>19. CASE WaitClosed(t)
  BY <1>19, LeaveType, RaisedType DEF WaitClosed, linkVars
<1> QED
  BY <1>1, <1>2, <1>3, <1>4, <1>5, <1>6, <1>7, <1>8, <1>9, <1>10, <1>11, <1>12, <1>13, <1>14, <1>15, <1>16, <1>17, <1>18, <1>19 DEF TaskStep, Close

LEMMA SessionTypeLoop ==
    ASSUME SessionTypeOK, ReceiveLoop PROVE SessionTypeOK'
<1> USE DEF SessionTypeOK
<1>2. CASE RecvEvent
  BY <1>2, HeadTailProperties DEF RecvEvent, Reads, taskVars
<1>3. CASE RecvData
  <2>1. inbound' \in Seq(Lines) /\ Head(inbound) \in Lines
    BY <1>3, HeadTailProperties DEF RecvData, Reads
  <2>2. Head(inbound).n \in Nat
    BY <2>1 DEF Lines
  <2>3. dataBuf' \in Seq(Nat)
    BY <1>3, <2>2, AppendProperties DEF RecvData
  <2> QED BY <1>3, <2>1, <2>3 DEF RecvData, taskVars
<1>4. CASE RecvTerminator
  <2>1. inbound' \in Seq(Lines) /\ Head(inbound) \in Lines
    BY <1>4, HeadTailProperties DEF RecvTerminator, Reads
  <2>2. Future("result", dataBuf, Head(inbound).n, Head(inbound).r) \in Futures
    BY <2>1 DEF Future, Futures, Lines
  <2>3. fut' \in [Task -> Futures] /\ dataBuf' \in Seq(Nat)
    BY <1>4, <2>2, EmptySeq DEF RecvTerminator, BufferAfterTerminator
  <2> QED BY <1>4, <2>1, <2>3 DEF RecvTerminator
<1>5. Shutdown => fut' \in [Task -> Futures] /\ intr' \in [Task -> {"no", "timeout", "cancel"}]
  BY FailPendingType DEF Shutdown, CancelKeepalive
<1>6. CASE RecvEnd
  BY <1>6, <1>5 DEF RecvEnd
<1>7. CASE RecvCrash
  <2>1. inbound' \in Seq(Lines)
    BY <1>7, HeadTailProperties DEF RecvCrash, Reads
  <2> QED BY <1>7, <1>5, <2>1 DEF RecvCrash
<1> QED BY <1>2, <1>3, <1>4, <1>6, <1>7 DEF ReceiveLoop

LEMMA SessionTypeServer ==
    ASSUME SessionTypeOK, Server PROVE SessionTypeOK'
<1> USE DEF SessionTypeOK
<1>1. ASSUME NEW l \in Lines PROVE inbound \o <<l>> \in Seq(Lines)
  BY ConcatProperties, <<l>> \in Seq(Lines)
<1>2. Greet \in Lines /\ Eof \in Lines /\ Bad \in Lines /\ Notify \in Lines
  BY DEF Greet, Eof, Bad, Notify, Line, Lines
<1>3. outbound # <<>> => Head(outbound) \in Nat /\ Tail(outbound) \in Seq(Nat)
  BY HeadTailProperties
<1>4. CASE ServerGreets
  BY <1>1, <1>2, <1>4 DEF ServerGreets, Send, taskVars
<1>5. ASSUME NEW r \in Verdicts, ServerAnswers(r) PROVE SessionTypeOK'
  <2> DEFINE n == Head(outbound)
             answer == IF r = "ok" THEN <<Line("data", n, "none"), Line("term", n, r)>>
                                   ELSE <<Line("term", n, r)>>
  <2>1. n \in Nat /\ inbound' = inbound \o answer
    BY <1>5, <1>3 DEF ServerAnswers, Send
  <2>2. Line("data", n, "none") \in Lines /\ Line("term", n, r) \in Lines
    BY <2>1 DEF Line, Lines
  <2> HIDE DEF n
  <2>3. answer \in Seq(Lines)
    BY <2>2
  <2> HIDE DEF answer
  <2>4. inbound' \in Seq(Lines)
    BY <2>1, <2>3, ConcatProperties
  <2> QED BY <1>5, <2>4, <1>3 DEF ServerAnswers, taskVars
<1>6. CASE ServerQuits
  BY <1>1, <1>2, <1>6, EmptySeq DEF ServerQuits, Send, taskVars
<1>7. CASE ServerNotifies
  BY <1>1, <1>2, <1>7 DEF ServerNotifies, Send, taskVars
<1>8. CASE ServerDrops
  <2>1. inbound \o <<>> \in Seq(Lines)
    BY ConcatProperties, EmptySeq
  <2> QED BY <1>1, <1>2, <1>8, <2>1, EmptySeq DEF ServerDrops, Send, taskVars
<1>9. CASE ServerHalfCloses
  BY <1>1, <1>2, <1>9, EmptySeq DEF ServerHalfCloses, Send, taskVars
<1>10. CASE ServerGarbles
  BY <1>1, <1>2, <1>10 DEF ServerGarbles, Send, taskVars
<1> QED BY <1>4, <1>5, <1>6, <1>7, <1>8, <1>9, <1>10 DEF Server

LEMMA SessionTypeStep == SessionTypeOK /\ [Next]_vars => SessionTypeOK'
<1> SUFFICES ASSUME SessionTypeOK, [Next]_vars PROVE SessionTypeOK'
  OBVIOUS
<1> USE DEF SessionTypeOK
<1>1. CASE Start
  <2>1. Tail(Tail(inbound)) \in Seq(Lines)
    <3> DEFINE rest == Tail(inbound)
    <3>1. rest \in Seq(Lines) /\ Len(rest) = Len(inbound) - 1
      BY <1>1, HeadTailProperties, LenProperties DEF Start
    <3>2. Len(inbound) \in Nat /\ Len(inbound) >= 2
      BY <1>1, LenProperties DEF Start
    <3> HIDE DEF rest
    <3>3. rest # <<>>
      BY <3>1, <3>2, EmptySeq
    <3>4. Tail(rest) \in Seq(Lines)
      BY <3>1, <3>3, HeadTailProperties
    <3> QED BY <3>4 DEF rest
  <2>2. pc' \in [Task -> PCs]
    BY <1>1 DEF Start, PCs
  <2> QED BY <1>1, <2>1, <2>2 DEF Start
<1>2. CASE StartFails
  BY <1>2 DEF StartFails, taskVars
<1>3. CASE KeepaliveDue
  BY <1>3, BeginExecType DEF KeepaliveDue, BeginExec, Task, linkVars
<1>4. ASSUME NEW t \in Task, TaskStep(t) PROVE SessionTypeOK'
  BY <1>4, SessionTypeTask
<1>5. CASE ReceiveLoop
  BY <1>5, SessionTypeLoop
<1>6. CASE Server
  BY <1>6, SessionTypeServer
<1>7. CASE Consume
  BY <1>7 DEF Consume, taskVars, linkVars
<1>8. CASE UNCHANGED vars
  BY <1>8 DEF vars, taskVars, linkVars
<1> QED BY <1>1, <1>2, <1>3, <1>4, <1>5, <1>6, <1>7, <1>8 DEF Next

-----------------------------------------------------------------------------
(* Phases, the lock and the futures *)

\* The lines behind the first one, and lines with others sent after them.
LEMMA TailLines ==
    ASSUME NEW in \in Seq(Lines), in # <<>>
    PROVE  /\ Head(in) = in[1] /\ 1 \in DOMAIN in
           /\ \A i \in DOMAIN Tail(in) : i + 1 \in DOMAIN in /\ Tail(in)[i] = in[i + 1]
           /\ \A i \in DOMAIN in : i # 1 => i - 1 \in DOMAIN Tail(in) /\ Tail(in)[i - 1] = in[i]
           /\ DOMAIN in \subseteq Nat /\ DOMAIN Tail(in) \subseteq Nat
BY HeadTailProperties, LenProperties, EmptySeq

LEMMA ConcatLines ==
    ASSUME NEW in \in Seq(Lines), NEW more \in Seq(Lines)
    PROVE  /\ in \o more \in Seq(Lines) /\ DOMAIN in \subseteq DOMAIN (in \o more)
           /\ \A i \in DOMAIN in : (in \o more)[i] = in[i]
           /\ \A i \in DOMAIN (in \o more) :
                 i \notin DOMAIN in => i - Len(in) \in DOMAIN more /\ (in \o more)[i] = more[i - Len(in)]
           /\ \A i \in DOMAIN more :
                 /\ i + Len(in) \in DOMAIN (in \o more) /\ (in \o more)[i + Len(in)] = more[i]
                 /\ i + Len(in) \notin DOMAIN in
           /\ Len(in) \in Nat /\ DOMAIN in = 1 .. Len(in)
BY ConcatProperties, LenProperties

LEMMA SessionInvInit == Init => SessionInv
<1> SUFFICES ASSUME Init PROVE SessionInv
  OBVIOUS
<1>1. PhaseInv
  <2>1. \A i \in DOMAIN inbound : inbound[i].k # "event"
    BY DEF Init, Greet, Line
  <2> QED BY <2>1, TaskAssumption DEF Init, PhaseInv, Task
<1>2. LockInv
  BY DEF Init, LockInv, InExec
<1>3. FutureInv
  BY DEF Init, FutureInv, NoFuture, Future
<1> QED BY <1>1, <1>2, <1>3, SessionTypeInit DEF SessionInv

\* Leaving _exec_line() or close() keeps the invariant, whoever leaves.
LEMMA LeaveInv ==
    ASSUME SessionInv, NEW t \in Task, NEW next \in {"idle", "flood", "dead"},
           Leave(t, next), UNCHANGED <<closed, recv, nsent, inbound>>,
           recv \in {"new", "failed"} => t # KA /\ next = "idle"
    PROVE  (PhaseInv /\ LockInv /\ FutureInv)'
<1>1. PhaseInv'
  BY DEF SessionInv, PhaseInv, Leave, SessionTypeOK, PCs
<1>2. LockInv'
  BY DEF SessionInv, LockInv, InExec, Leave, SessionTypeOK, PCs
<1>3. FutureInv'
  BY DEF SessionInv, FutureInv, Leave, SessionTypeOK, NoFuture, Future, Futures
<1> QED BY <1>1, <1>2, <1>3

\* Before start() and after a failed one nobody is inside exec().
LEMMA RaisedNext ==
    ASSUME SessionInv, NEW t \in Task, pc[t] # "off"
    PROVE  /\ Raised(t) \in {"idle", "flood", "dead"}
           /\ recv \in {"new", "failed"} => t # KA /\ Raised(t) = "idle"
BY DEF SessionInv, PhaseInv, Raised

\* _shutdown() leaves no future unresolved.
LEMMA FailPendingInv ==
    ASSUME SessionInv, NEW t \in Task
    PROVE  /\ FailPending[t].st # "waiting"
           /\ FailPending[t].st # "none" => fut[t].st # "none"
           /\ FailPending[t].st = "result" => fut[t].st = "result"
<1>1. fut \in [Task -> Futures] /\ pending = lock /\ (fut[t].st # "none" => lock = t)
  BY DEF SessionInv, SessionTypeOK, LockInv, FutureInv
<1>2. t # None /\ (fut[t].st = "waiting" => fut[t].st # "none")
  BY TaskAssumption DEF Task
<1>3. CASE fut[t].st = "waiting"
  <2>1. FailPending = [fut EXCEPT ![t].st = "lost"]
    BY <1>1, <1>2, <1>3 DEF FailPending
  <2>2. FailPending[t].st = "lost"
    BY <1>1, <2>1 DEF Futures
  <2> QED BY <1>2, <1>3, <2>2
<1>4. CASE fut[t].st # "waiting"
  <2>1. FailPending[t] = fut[t]
    BY <1>1, <1>4 DEF FailPending
  <2> QED BY <1>4, <2>1
<1> QED BY <1>3, <1>4

LEMMA BeginCloseInv ==
    ASSUME SessionInv, NEW t \in Task, BeginClose(t),
           UNCHANGED <<lock, pending>>, fut' = FailPending,
           NEW next \in {"quit", "wclose"}, pc' = [pc EXCEPT ![t] = next]
    PROVE  (PhaseInv /\ LockInv /\ FutureInv)'
<1>1. /\ closed' /\ ~closed /\ nsent' = nsent /\ inbound' = inbound
      /\ recv' = IF recv = "run" THEN "cancelled" ELSE recv
      /\ (pc[t] = "idle" /\ t \in Caller) \/ pc[t] = "await"
  BY DEF BeginClose, CloseStream
<1>2. PhaseInv'
  BY <1>1, TaskAssumption DEF SessionInv, PhaseInv, SessionTypeOK, PCs
<1>3. LockInv'
  BY <1>1 DEF SessionInv, LockInv, InExec, SessionTypeOK, PCs
<1>4. FutureInv'
  BY <1>1, FailPendingInv DEF SessionInv, FutureInv, SessionTypeOK
<1> QED BY <1>2, <1>3, <1>4

LEMMA BeginExecInv ==
    ASSUME SessionInv, NEW t \in Task, BeginExec(t)
    PROVE  (PhaseInv /\ LockInv /\ FutureInv)'
<1>1. /\ recv \notin {"new", "failed"} /\ pc[t] = "idle" /\ pc' = [pc EXCEPT ![t] = "lockwait"]
      /\ UNCHANGED <<closed, recv, nsent, inbound, lock, pending, fut>>
  BY DEF BeginExec, JoinLine, linkVars, queueVars
<1> QED BY <1>1 DEF SessionInv, PhaseInv, LockInv, FutureInv, InExec, SessionTypeOK, PCs

LEMMA SessionInvTask ==
    ASSUME SessionInv, NEW t \in Task, TaskStep(t)
    PROVE  (PhaseInv /\ LockInv /\ FutureInv)'
<1> USE DEF SessionInv
<1>1. CASE Exec(t)
  BY <1>1, BeginExecInv DEF Exec
<1>2. CASE Refused(t)
  BY <1>2 DEF Refused, FirstInLine, Raised, PhaseInv, LockInv, FutureInv, InExec, SessionTypeOK, PCs, linkVars, queueVars
<1>3. CASE WriteFails(t)
  BY <1>3 DEF WriteFails, FirstInLine, Raised, PhaseInv, LockInv, FutureInv, InExec, SessionTypeOK, PCs, queueVars
<1>4. CASE Write(t)
  <2>1. /\ ~closed /\ closed' = closed /\ recv' = recv /\ inbound' = inbound /\ nsent' = nsent + 1
        /\ pc[t] = "lockwait" /\ lock = None /\ lock' = t /\ pending' = t
        /\ fut' = [fut EXCEPT ![t] = Unresolved]
    BY <1>4 DEF Write, FirstInLine, queueVars
  <2>2. PICK next \in {"await", "drain"} : pc' = [pc EXCEPT ![t] = next]
    BY <1>4 DEF Write, AfterWrite
  <2>3. recv = "run"
    BY <2>1 DEF PhaseInv, SessionTypeOK
  <2>4. PhaseInv'
    BY <2>1, <2>2, <2>3 DEF PhaseInv
  <2>5. LockInv'
    BY <2>1, <2>2, TaskAssumption DEF LockInv, InExec, SessionTypeOK, PCs, Task
  <2>6. FutureInv'
    BY <2>1, <2>3, TaskAssumption DEF Task, FutureInv, SessionTypeOK, Unresolved, Future
  <2> QED BY <2>4, <2>5, <2>6
<1>5. CASE DrainDone(t)
  BY <1>5 DEF DrainDone, Running, PhaseInv, LockInv, FutureInv, InExec, SessionTypeOK, PCs, linkVars, queueVars
<1>6. CASE DrainFails(t)
  <2>1. pc[t] = "drain" /\ Leave(t, Raised(t)) /\ UNCHANGED <<closed, recv, nsent, inbound>>
    BY <1>6 DEF DrainFails, Running, queueVars
  <2> QED BY <2>1, RaisedNext, LeaveInv
<1>7. CASE CommandTimeout(t)
  BY <1>7 DEF CommandTimeout, Cancelled, Running, PhaseInv, LockInv, FutureInv, InExec, SessionTypeOK, Futures, linkVars, queueVars
<1>8. CASE Answered(t)
  <2> DEFINE next == IF RetriesFlood(t) THEN "flood"
                     ELSE IF fut[t].r = "ok" THEN "idle" ELSE Raised(t)
  <2>1. pc[t] = "await" /\ Leave(t, next) /\ UNCHANGED <<closed, recv, nsent, inbound>>
    BY <1>8 DEF Answered, Running, linkVars, queueVars
  <2>2. recv \notin {"new", "failed"}
    BY <2>1 DEF PhaseInv
  <2>3. next \in {"idle", "flood", "dead"}
    BY DEF Raised
  <2> HIDE DEF next
  <2> QED BY <2>1, <2>2, <2>3, LeaveInv
<1>9. CASE Rejected(t)
  <2>1. pc[t] = "await" /\ Leave(t, Raised(t)) /\ UNCHANGED <<closed, recv, nsent, inbound>>
    BY <1>9 DEF Rejected, Running, linkVars, queueVars
  <2> QED BY <2>1, RaisedNext, LeaveInv
<1>10. CASE FloodRetry(t)
  BY <1>10 DEF FloodRetry, Running, JoinLine, PhaseInv, LockInv, FutureInv, InExec, SessionTypeOK, PCs, linkVars, queueVars
<1>11. CASE TimesOutClosed(t)
  <2>1. pc[t] = "await" /\ Leave(t, Raised(t)) /\ UNCHANGED <<closed, recv, nsent, inbound>>
    BY <1>11 DEF TimesOutClosed, linkVars, queueVars
  <2> QED BY <2>1, RaisedNext, LeaveInv
<1>12. CASE CancelCaller(t)
  BY <1>12 DEF CancelCaller, Cancelled, PhaseInv, LockInv, FutureInv, InExec, SessionTypeOK, Futures, linkVars, queueVars
<1>13. CASE Unwind(t)
  <2>1. pc[t] # "off" /\ Leave(t, Raised(t)) /\ UNCHANGED <<closed, recv, nsent, inbound>>
    BY <1>13 DEF Unwind, linkVars, queueVars
  <2> QED BY <2>1, RaisedNext, LeaveInv
<1>14. CASE CloseSends(t)
  BY <1>14, BeginCloseInv DEF CloseSends
<1>15. CASE CloseStalls(t)
  BY <1>15, BeginCloseInv DEF CloseStalls
<1>16. CASE CloseNoQuit(t)
  <2>1. /\ closed' /\ ~closed /\ nsent' = nsent /\ inbound' = inbound
        /\ recv' = IF recv = "run" THEN "cancelled" ELSE recv
        /\ (pc[t] = "idle" /\ t \in Caller) \/ pc[t] = "await"
        /\ lock' = IF lock = t THEN None ELSE lock
        /\ pending' = IF lock = t THEN None ELSE pending
        /\ fut' = [FailPending EXCEPT ![t] = NoFuture]
        /\ pc' = [pc EXCEPT ![t] = Raised(t)]
    BY <1>16 DEF CloseNoQuit, BeginClose, CloseStream
  <2>2. PhaseInv'
    BY <2>1, TaskAssumption DEF PhaseInv, SessionTypeOK, PCs, Raised
  <2>3. LockInv'
    BY <2>1 DEF LockInv, InExec, SessionTypeOK, PCs, Raised
  <2>4. FutureInv'
    BY <2>1, FailPendingInv, FailPendingType DEF FutureInv, SessionTypeOK, NoFuture, Future
  <2> QED BY <2>2, <2>3, <2>4
<1>17. CASE QuitEnds(t)
  BY <1>17 DEF QuitEnds, TransportClose, Running, PhaseInv, LockInv, FutureInv, InExec, SessionTypeOK, PCs, queueVars
<1>18. CASE QuitFails(t)
  <2>1. pc[t] = "quit" /\ Leave(t, Raised(t)) /\ UNCHANGED <<closed, recv, nsent, inbound>>
    BY <1>18 DEF QuitFails, Running, queueVars
  <2> QED BY <2>1, RaisedNext, LeaveInv
<1>19. CASE WaitClosed(t)
  <2>1. pc[t] = "wclose" /\ Leave(t, Raised(t)) /\ UNCHANGED <<closed, recv, nsent, inbound>>
    BY <1>19 DEF WaitClosed, Running, linkVars, queueVars
  <2> QED BY <2>1, RaisedNext, LeaveInv
<1> QED
  BY <1>1, <1>2, <1>3, <1>4, <1>5, <1>6, <1>7, <1>8, <1>9, <1>10, <1>11, <1>12, <1>13, <1>14, <1>15, <1>16, <1>17, <1>18, <1>19 DEF TaskStep, Close

LEMMA SessionInvLoop ==
    ASSUME SessionInv, ReceiveLoop
    PROVE  (PhaseInv /\ LockInv /\ FutureInv)'
<1> USE DEF SessionInv
<1>1. inbound # <<>> => \A i \in DOMAIN Tail(inbound) : i + 1 \in DOMAIN inbound /\ Tail(inbound)[i] = inbound[i + 1]
  BY HeadTailProperties, LenProperties DEF SessionTypeOK
<1>2. /\ recv = "run" /\ UNCHANGED <<lock, pending, pc, nsent>>
      /\ inbound' = inbound \/ (inbound # <<>> /\ inbound' = Tail(inbound))
  BY DEF ReceiveLoop, RecvEvent, RecvData, RecvTerminator, RecvEnd, RecvCrash, Reads, taskVars
<1>3. (\A i \in DOMAIN inbound : inbound[i].k # "event") => (\A i \in DOMAIN inbound' : inbound'[i].k # "event")
  BY <1>1, <1>2
<1>4. CASE UNCHANGED <<closed, recv>> /\ (fut' = fut \/ RecvTerminator)
  <2>1. PhaseInv' /\ LockInv'
    BY <1>2, <1>3, <1>4 DEF PhaseInv, LockInv, InExec
  <2>2. ASSUME NEW t \in Task
        PROVE  /\ fut'[t].st # "none" => fut[t].st # "none"
               /\ fut'[t].st = "waiting" => fut[t].st = "waiting"
               /\ fut'[t].st = "lost" => fut[t].st = "lost"
    <3> DEFINE answer == Future("result", dataBuf, Head(inbound).n, Head(inbound).r)
    <3>1. fut' = fut \/ (fut[pending].st = "waiting" /\ fut' = [fut EXCEPT ![pending] = answer])
      BY <1>4 DEF RecvTerminator
    <3>2. answer.st = "result"
      BY DEF Future
    <3> HIDE DEF answer
    <3> QED BY <3>1, <3>2 DEF SessionTypeOK
  <2>3. FutureInv'
    BY <1>2, <1>4, <2>2 DEF FutureInv
  <2> QED BY <2>1, <2>3
<1>5. CASE recv' = "done" /\ Shutdown
  <2>1. closed'
    BY <1>5 DEF Shutdown, CloseStream, queueVars
  <2>2. PhaseInv' /\ LockInv'
    BY <1>2, <1>3, <1>5, <2>1 DEF PhaseInv, LockInv, InExec
  <2>3. (fut' = fut /\ closed) \/ fut' = FailPending
    BY <1>5 DEF Shutdown
  <2>4. FutureInv'
    BY <1>2, <2>1, <2>3, FailPendingInv DEF FutureInv
  <2> QED BY <2>2, <2>4
<1> QED
  BY <1>4, <1>5 DEF ReceiveLoop, RecvEvent, RecvData, RecvTerminator, RecvEnd, RecvCrash, PublishEvent, taskVars, queueVars

\* What the server sends changes nothing but the line to the client.
LEMMA SessionInvServer ==
    ASSUME SessionInv, Server
    PROVE  (PhaseInv /\ LockInv /\ FutureInv)'
<1> USE DEF SessionInv
<1>1. UNCHANGED <<closed, recv, lock, pending, pc, fut, nsent>>
  BY DEF Server, ServerGreets, ServerAnswers, ServerQuits, ServerNotifies, ServerDrops,
         ServerHalfCloses, ServerGarbles, taskVars, queueVars
<1>2. ASSUME nsent = 0, \A i \in DOMAIN inbound : inbound[i].k # "event"
      PROVE  \A i \in DOMAIN inbound' : inbound'[i].k # "event"
  <2>1. PICK more \in Seq(Lines) :
          /\ inbound' = inbound \o more
          /\ \A i \in DOMAIN more : more[i].k # "event"
    <3>1. ASSUME NEW l \in Lines, l.k # "event"
          PROVE  <<l>> \in Seq(Lines) /\ \A i \in DOMAIN <<l>> : <<l>>[i].k # "event"
      BY <3>1
    <3>2. /\ Greet \in Lines /\ Greet.k # "event" /\ Eof \in Lines /\ Eof.k # "event"
          /\ Bad \in Lines /\ Bad.k # "event"
      BY DEF Greet, Eof, Bad, Line, Lines
    <3>3. CASE ServerGreets
      BY <3>1, <3>2, <3>3 DEF ServerGreets, Send
    <3>4. CASE ServerQuits
      BY <3>1, <3>2, <3>4 DEF ServerQuits, Send
    <3>5. CASE ServerDrops
      <4>1. <<>> \in Seq(Lines) /\ \A i \in DOMAIN <<>> : <<>>[i].k # "event"
        BY EmptySeq
      <4> QED BY <3>1, <3>2, <3>5, <4>1 DEF ServerDrops, Send
    <3>6. CASE ServerHalfCloses
      BY <3>1, <3>2, <3>6 DEF ServerHalfCloses, Send
    <3>7. CASE ServerGarbles
      BY <3>1, <3>2, <3>7 DEF ServerGarbles, Send
    <3>8. ASSUME NEW r \in Verdicts, ServerAnswers(r)
          PROVE  \E more \in Seq(Lines) :
                    inbound' = inbound \o more /\ \A i \in DOMAIN more : more[i].k # "event"
      <4> DEFINE n == Head(outbound)
                 data == Line("data", n, "none")
                 term == Line("term", n, r)
      <4>1. n \in Nat /\ inbound' = inbound \o IF r = "ok" THEN <<data, term>> ELSE <<term>>
        BY <3>8, HeadTailProperties DEF ServerAnswers, Send, SessionTypeOK
      <4>2. data \in Lines /\ data.k # "event" /\ term \in Lines /\ term.k # "event"
        BY <4>1 DEF Line, Lines
      <4> HIDE DEF data, term
      <4>3. <<data, term>> \in Seq(Lines) /\ \A i \in DOMAIN <<data, term>> : <<data, term>>[i].k # "event"
        BY <4>2
      <4> QED BY <3>1, <4>1, <4>2, <4>3
    <3>9. ~ServerNotifies
      BY <1>2 DEF ServerNotifies
    <3> QED BY <3>3, <3>4, <3>5, <3>6, <3>7, <3>8, <3>9 DEF Server
  <2>2. \A i \in DOMAIN inbound' :
          \/ i \in DOMAIN inbound /\ inbound'[i] = inbound[i]
          \/ \E j \in DOMAIN more : inbound'[i] = more[j]
    <3>1. inbound \in Seq(Lines)
      BY DEF SessionTypeOK
    <3> DEFINE all == inbound \o more
    <3>2. /\ \A i \in DOMAIN inbound : all[i] = inbound[i]
          /\ \A i \in DOMAIN all :
                i \notin DOMAIN inbound => i - Len(inbound) \in DOMAIN more /\ all[i] = more[i - Len(inbound)]
      BY <3>1, ConcatLines
    <3>3. inbound' = all
      BY <2>1
    <3> HIDE DEF all
    <3> QED BY <3>2, <3>3
  <2> QED BY <1>2, <2>1, <2>2
<1> QED BY <1>1, <1>2 DEF PhaseInv, LockInv, InExec, FutureInv

LEMMA SessionInvStep == SessionInv /\ [Next]_vars => SessionInv'
<1> SUFFICES ASSUME SessionInv, [Next]_vars PROVE (PhaseInv /\ LockInv /\ FutureInv)'
  BY SessionTypeStep DEF SessionInv
<1> USE DEF SessionInv
<1>1. CASE Start
  <2>1. /\ recv = "new" /\ recv' = "run" /\ inbound' = Tail(Tail(inbound)) /\ Len(inbound) >= 2
        /\ UNCHANGED <<closed, lock, pending, fut, nsent>>
    BY <1>1 DEF Start, queueVars
  <2>2. PICK k \in {"off", "dead", "idle"} : pc' = [pc EXCEPT ![KA] = k]
    BY <1>1 DEF Start
  <2>3. \A i \in DOMAIN inbound' : i + 2 \in DOMAIN inbound /\ inbound'[i] = inbound[i + 2]
    <3> DEFINE rest == Tail(inbound)
    <3>1. inbound \in Seq(Lines) /\ Len(inbound) \in Nat
      BY LenProperties DEF SessionTypeOK
    <3>2. /\ rest \in Seq(Lines) /\ Len(rest) = Len(inbound) - 1
          /\ \A i \in DOMAIN rest : i + 1 \in DOMAIN inbound /\ rest[i] = inbound[i + 1]
      BY <2>1, <3>1, EmptySeq, HeadTailProperties, TailLines
    <3>3. inbound' = Tail(rest)
      BY <2>1
    <3> HIDE DEF rest
    <3>4. rest # <<>>
      BY <2>1, <3>1, <3>2, EmptySeq
    <3>5. /\ DOMAIN inbound' \subseteq Nat
          /\ \A i \in DOMAIN inbound' : i + 1 \in DOMAIN rest /\ inbound'[i] = rest[i + 1]
      BY <3>2, <3>3, <3>4, TailLines
    <3>6. \A i \in Nat : (i + 1) + 1 = i + 2
      OBVIOUS
    <3> QED BY <3>2, <3>5, <3>6
  <2>4. PhaseInv'
    BY <2>1, <2>3 DEF PhaseInv
  <2>5. LockInv'
    BY <2>1, <2>2 DEF PhaseInv, LockInv, InExec, SessionTypeOK
  <2>6. FutureInv'
    BY <2>1 DEF FutureInv
  <2> QED BY <2>4, <2>5, <2>6
<1>2. CASE StartFails
  BY <1>2 DEF StartFails, PhaseInv, LockInv, InExec, FutureInv, taskVars, queueVars
<1>3. CASE KeepaliveDue
  BY <1>3, BeginExecInv DEF KeepaliveDue, Task
<1>4. ASSUME NEW t \in Task, TaskStep(t) PROVE (PhaseInv /\ LockInv /\ FutureInv)'
  BY <1>4, SessionInvTask
<1>5. CASE ReceiveLoop
  BY <1>5, SessionInvLoop
<1>6. CASE Server
  BY <1>6, SessionInvServer
<1>7. CASE Consume
  BY <1>7 DEF Consume, ConsumerStep, BeginWait, WaitAgain, TakeEvent, SeeClosed, AbandonParked, AbandonWoken, PhaseInv, LockInv, InExec, FutureInv, taskVars, linkVars
<1>8. CASE UNCHANGED vars
  BY <1>8 DEF PhaseInv, LockInv, InExec, FutureInv, vars, taskVars, linkVars, queueVars
<1> QED BY <1>1, <1>2, <1>3, <1>4, <1>5, <1>6, <1>7, <1>8 DEF Next

\* What every behaviour of the session keeps: the inductive invariant.
THEOREM SessionInvariant == Spec => []SessionInv
<1> QED BY SessionInvInit, SessionInvStep, PTL DEF Spec

-----------------------------------------------------------------------------
(* What it is good for *)

\* The session drives its queue as EventQueue says.  In particular no event is
\* published behind the sentinel, although the receive loop, unlike
\* EQNext!ReceiveEvent, does not look whether the session is closed.
LEMMA QueueStep == SessionInv /\ [Next]_vars => [EQNext]_queueVars
<1> SUFFICES ASSUME SessionInv, [Next]_vars PROVE [EQNext]_queueVars
  OBVIOUS
<1>1. CASE RecvEvent
  <2>1. recv = "run" /\ inbound # <<>> /\ inbound[1].k = "event" /\ inbound \in Seq(Lines)
    BY <1>1 DEF RecvEvent, Reads, SessionInv, SessionTypeOK
  <2>2. 1 \in DOMAIN inbound
    BY <2>1, EmptySeq, LenProperties
  <2>3. ~closed
    BY <2>1, <2>2 DEF SessionInv, PhaseInv
  <2> QED BY <1>1, <2>3 DEF RecvEvent, EQNext, ReceiveEvent
<1>2. CASE ReceiveLoop /\ ~RecvEvent
  BY <1>2 DEF ReceiveLoop, RecvData, RecvTerminator, RecvEnd, RecvCrash, Shutdown, EQNext, queueVars
<1>3. ASSUME NEW t \in Task, TaskStep(t) PROVE [EQNext]_queueVars
  <2>1. CASE Close(t)
    BY <2>1 DEF Close, CloseSends, CloseStalls, CloseNoQuit, BeginClose, EQNext
  <2>2. CASE ~Close(t)
    BY <1>3, <2>2 DEF TaskStep, Exec, BeginExec, Refused, WriteFails, Write, DrainDone, DrainFails,
       CommandTimeout, Answered, Rejected, FloodRetry, TimesOutClosed, CancelCaller, Unwind,
       QuitEnds, QuitFails, WaitClosed
  <2> QED BY <2>1, <2>2
<1>4. CASE Start \/ StartFails \/ KeepaliveDue
  BY <1>4 DEF Start, StartFails, KeepaliveDue, BeginExec
<1>5. CASE Server
  BY <1>5 DEF Server, ServerGreets, ServerAnswers, ServerQuits, ServerNotifies, ServerDrops,
              ServerHalfCloses, ServerGarbles
<1>6. CASE Consume
  BY <1>6 DEF Consume, EQNext
<1>7. CASE UNCHANGED vars
  BY <1>7 DEF vars
<1> QED BY <1>1, <1>2, <1>3, <1>4, <1>5, <1>6, <1>7 DEF Next

\* A session implements EventQueue, so all that is proved of the queue alone
\* (QueueInv, NoStrandedConsumer) holds of the queue inside a session.
THEOREM SessionImplementsQueue == Spec => EQSpec
<1>1. Init => EQInit
  BY DEF Init
<1> QED BY <1>1, QueueStep, SessionInvariant, PTL DEF Spec, EQSpec

\* What a session promises its consumers of events is the event stream.
THEOREM SessionImplementsStream == Spec => ImplementsStream
<1> QED BY SessionImplementsQueue, QueueImplementsStream, PTL

\* The state is well formed, the queue within its limit, and no call uses more
\* attempts than flood_retries allows.
THEOREM SessionTypes == Spec => []RCTypeOK
<1>1. SessionInv => SessionTypeOK
  BY DEF SessionInv
<1> QED BY <1>1, SessionInvariant, SessionImplementsQueue, EventQueueTypes, PTL DEF RCTypeOK

\* The lock has one holder, from its write until it leaves _exec_line(), and
\* _pending is that task's: whoever times out, is cancelled or closes.
THEOREM LockDiscipline == Spec => []LockInv
<1>1. SessionInv => LockInv
  BY DEF SessionInv
<1> QED BY <1>1, SessionInvariant, PTL

\* Nobody waits on a future that has lost the receive loop that would resolve
\* it.
THEOREM FuturesServed == Spec => []AwaitedFutureServed
<1>1. SessionInv => AwaitedFutureServed
  BY DEF SessionInv, FutureInv, AwaitedFutureServed
<1> QED BY <1>1, SessionInvariant, PTL

LEMMA ClosedStep ==
    ASSUME SessionInv, [Next]_vars, closed
    PROVE  /\ closed' /\ nsent' = nsent
           /\ \A t \in Task : fut'[t].st = "result" => fut[t].st = "result"
<1> USE DEF SessionInv
<1>1. ASSUME NEW t \in Task, NEW next, Leave(t, next), NEW u \in Task, fut'[u].st = "result"
      PROVE  fut[u].st = "result"
  BY <1>1 DEF Leave, NoFuture, Future, SessionTypeOK
<1>2. ASSUME NEW t \in Task, TaskStep(t)
      PROVE  /\ closed' /\ nsent' = nsent
             /\ \A u \in Task : fut'[u].st = "result" => fut[u].st = "result"
  <2>1. ~Write(t) /\ ~Close(t)
    BY DEF Write, Close, CloseSends, CloseStalls, CloseNoQuit, BeginClose, CloseStream
  <2>2. closed' = closed /\ nsent' = nsent
    BY <1>2, <2>1 DEF TaskStep, Exec, BeginExec, Refused, WriteFails, DrainDone, DrainFails,
       CommandTimeout, Answered, Rejected, FloodRetry, TimesOutClosed, CancelCaller, Unwind,
       QuitEnds, QuitFails, WaitClosed, linkVars, queueVars
  <2>3. fut' = fut \/ CommandTimeout(t) \/ CancelCaller(t) \/ \E next : Leave(t, next)
    BY <1>2, <2>1 DEF TaskStep, Exec, BeginExec, Refused, WriteFails, DrainDone, DrainFails,
       Answered, Rejected, FloodRetry, TimesOutClosed, Unwind, QuitEnds, QuitFails, WaitClosed
  <2>4. \A u \in Task : fut'[u].st = "result" => fut[u].st = "result"
    <3>1. CASE CommandTimeout(t) \/ CancelCaller(t)
      <4>1. fut' = fut \/ fut' = [fut EXCEPT ![t] = Cancelled(fut[t])]
        BY <3>1 DEF CommandTimeout, CancelCaller, SessionTypeOK
      <4>2. Cancelled(fut[t]).st = "result" => fut[t].st = "result"
        BY DEF Cancelled, SessionTypeOK, Futures
      <4> QED BY <4>1, <4>2 DEF SessionTypeOK
    <3> QED BY <1>1, <2>3, <3>1
  <2> QED BY <2>2, <2>4
<1>3. CASE ReceiveLoop
  <2>1. ~(\E t \in Task : fut[t].st = "waiting")
    BY DEF FutureInv
  <2>2. pending # None => pending \in Task
    BY DEF SessionTypeOK
  <2> QED BY <1>3, <2>1, <2>2 DEF ReceiveLoop, RecvEvent, RecvData, RecvTerminator, RecvEnd,
             RecvCrash, Shutdown, PublishEvent, taskVars, queueVars
<1>4. CASE Start \/ StartFails \/ KeepaliveDue
  BY <1>4 DEF Start, StartFails, KeepaliveDue, BeginExec, taskVars, linkVars, queueVars
<1>5. CASE Server
  BY <1>5 DEF Server, ServerGreets, ServerAnswers, ServerQuits, ServerNotifies, ServerDrops,
              ServerHalfCloses, ServerGarbles, taskVars, queueVars
<1>6. CASE Consume
  BY <1>6 DEF Consume, ConsumerStep, BeginWait, WaitAgain, TakeEvent, SeeClosed, AbandonParked,
              AbandonWoken, taskVars, linkVars
<1>7. CASE UNCHANGED vars
  BY <1>7 DEF vars, taskVars, linkVars, queueVars
<1> QED BY <1>2, <1>3, <1>4, <1>5, <1>6, <1>7 DEF Next

\* A closed session stays closed, writes no command and hands out no response,
\* whoever was asleep, in line or mid-retry when it closed.
THEOREM ClosedSessions == Spec => ClosedIsFinal
<1>1. SessionInv /\ [Next]_vars =>
        [closed => /\ closed' /\ nsent' = nsent
                   /\ \A t \in Task : fut'[t].st = "result" => fut[t].st = "result"]_vars
  BY ClosedStep
<1> QED BY <1>1, SessionInvariant, PTL DEF Spec, ClosedIsFinal

-----------------------------------------------------------------------------
(* Commands and responses, while nobody is cancelled *)

\* Reading a line when no response is on its way: it belongs to none.
LEMMA QuietRead ==
    ASSUME NEW in \in Seq(Lines), in # <<>>, NEW buf, Quiet(in, buf)
    PROVE  Head(in).k \notin {"data", "term"} /\ Quiet(Tail(in), buf)
BY TailLines DEF Quiet

\* Reading a line of something else leaves the response on its way.
LEMMA AnsweringSkip ==
    ASSUME NEW in \in Seq(Lines), in # <<>>, NEW buf, NEW n, Answering(in, buf, n),
           Head(in).k \notin {"data", "term"}
    PROVE  Answering(Tail(in), buf, n)
<1> DEFINE rest == Tail(in)
<1>1. PICK e \in DOMAIN in : Answering(in, buf, n)!(e)
  BY DEF Answering
<1>2. e - 1 \in DOMAIN rest /\ rest[e - 1] = in[e]
  BY <1>1, TailLines
<1>3. \A i \in DOMAIN rest : rest[i].k = "term" => i = e - 1
  BY <1>1, TailLines
<1>4. ASSUME buf = (IF in[e].r = "ok" THEN <<n>> ELSE <<>>),
             \A i \in DOMAIN in : in[i].k # "data"
      PROVE  Answering(rest, buf, n)
  <2>1. \A i \in DOMAIN rest : rest[i].k # "data"
    BY <1>4, TailLines
  <2>2. /\ rest[e - 1].k = "term" /\ rest[e - 1].n = n
        /\ buf = IF rest[e - 1].r = "ok" THEN <<n>> ELSE <<>>
    BY <1>1, <1>2, <1>4
  <2> HIDE DEF rest
  <2> QED BY <1>2, <1>3, <2>1, <2>2 DEF Answering
<1>5. ASSUME NEW d \in DOMAIN in, buf = <<>>, in[e].r = "ok", d < e, in[d].k = "data",
             in[d].n = n, \A i \in DOMAIN in : in[i].k = "data" => i = d
      PROVE  Answering(rest, buf, n)
  <2>1. d - 1 \in DOMAIN rest /\ rest[d - 1] = in[d] /\ d - 1 < e - 1
    BY <1>5, TailLines
  <2>2. \A i \in DOMAIN rest : rest[i].k = "data" => i = d - 1
    BY <1>5, TailLines
  <2>3. /\ rest[e - 1].k = "term" /\ rest[e - 1].n = n /\ rest[e - 1].r = "ok"
        /\ rest[d - 1].k = "data" /\ rest[d - 1].n = n
    BY <1>1, <1>2, <1>5, <2>1
  <2> HIDE DEF rest
  <2> QED BY <1>2, <1>3, <1>5, <2>1, <2>2, <2>3 DEF Answering
<1> QED BY <1>1, <1>4, <1>5

\* Reading the rows of the response.
LEMMA AnsweringData ==
    ASSUME NEW in \in Seq(Lines), in # <<>>, NEW buf, NEW n, Answering(in, buf, n),
           Head(in).k = "data"
    PROVE  Answering(Tail(in), Append(buf, Head(in).n), n)
<1> DEFINE rest == Tail(in)
<1>1. PICK e \in DOMAIN in : Answering(in, buf, n)!(e)
  BY DEF Answering
<1>2. e - 1 \in DOMAIN rest /\ rest[e - 1] = in[e]
  BY <1>1, TailLines
<1>3. \A i \in DOMAIN rest : rest[i].k = "term" => i = e - 1
  BY <1>1, TailLines
<1>4. buf = <<>> /\ in[e].r = "ok" /\ Head(in).n = n /\ \A i \in DOMAIN in : in[i].k = "data" => i = 1
  BY <1>1, TailLines
<1>5. Append(buf, Head(in).n) = <<n>>
  BY <1>4
<1>6. \A i \in DOMAIN rest : rest[i].k # "data"
  BY <1>4, TailLines
<1>7. rest[e - 1].k = "term" /\ rest[e - 1].n = n /\ rest[e - 1].r = "ok"
  BY <1>1, <1>2, <1>4
<1> HIDE DEF rest
<1>8. Answering(rest, <<n>>, n)
  BY <1>2, <1>3, <1>6, <1>7 DEF Answering
<1> QED BY <1>5, <1>8 DEF rest

\* Reading the terminator: all the rows are in the buffer, and no others.
LEMMA AnsweringTerm ==
    ASSUME NEW in \in Seq(Lines), in # <<>>, NEW buf, NEW n, Answering(in, buf, n),
           Head(in).k = "term"
    PROVE  /\ Head(in).n = n
           /\ buf = IF Head(in).r = "ok" THEN <<n>> ELSE <<>>
           /\ Quiet(Tail(in), <<>>)
<1>1. PICK e \in DOMAIN in : Answering(in, buf, n)!(e)
  BY DEF Answering
<1>2. e = 1
  BY <1>1, TailLines
<1>3. ~(\E d \in DOMAIN in : d < e)
  BY <1>2, LenProperties
<1> QED BY <1>1, <1>2, <1>3, TailLines DEF Quiet

\* Lines of something else may be sent at any time.
LEMMA SendOther ==
    ASSUME NEW in \in Seq(Lines), NEW more \in Seq(Lines), NEW buf, NEW n,
           \A i \in DOMAIN more : more[i].k \notin {"data", "term"}
    PROVE  /\ Quiet(in, buf) => Quiet(in \o more, buf)
           /\ Answering(in, buf, n) => Answering(in \o more, buf, n)
<1> DEFINE all == in \o more
<1>1. /\ DOMAIN in \subseteq DOMAIN all /\ \A i \in DOMAIN in : all[i] = in[i]
      /\ \A i \in DOMAIN all : i \notin DOMAIN in => all[i].k \notin {"data", "term"}
  BY ConcatLines
<1> HIDE DEF all
<1>2. Quiet(in, buf) => Quiet(all, buf)
  BY <1>1 DEF Quiet
<1>3. Answering(in, buf, n) => Answering(all, buf, n)
  BY <1>1 DEF Answering
<1> QED BY <1>2, <1>3 DEF all

\* The response to a command is sent when no other is on its way.
LEMMA SendAnswer ==
    ASSUME NEW in \in Seq(Lines), NEW buf, NEW n \in Nat, NEW r \in Verdicts, Quiet(in, buf),
           NEW answer, answer = IF r = "ok" THEN <<Line("data", n, "none"), Line("term", n, r)>>
                                            ELSE <<Line("term", n, r)>>
    PROVE  Answering(in \o answer, buf, n)
<1> DEFINE data == Line("data", n, "none")
           term == Line("term", n, r)
           all == in \o answer
<1>1. /\ data \in Lines /\ data.k = "data" /\ data.n = n
      /\ term \in Lines /\ term.k = "term" /\ term.n = n /\ term.r = r
  BY DEF Line, Lines
<1> HIDE DEF data, term
<1>2. CASE r = "ok"
  <2>1. answer = <<data, term>> /\ answer \in Seq(Lines) /\ DOMAIN answer = {1, 2}
        /\ answer[1] = data /\ answer[2] = term
    BY <1>1, <1>2 DEF data, term
  <2> DEFINE d == 1 + Len(in)
             e == 2 + Len(in)
  <2>2. /\ d \in DOMAIN all /\ all[d] = data /\ e \in DOMAIN all /\ all[e] = term /\ d < e
        /\ \A i \in DOMAIN all : i \in DOMAIN in \/ i = d \/ i = e
        /\ \A i \in DOMAIN in : all[i] = in[i]
    BY <2>1, ConcatLines
  <2> HIDE DEF d, e, all
  <2>3. \A i \in DOMAIN all : (all[i].k = "term" => i = e) /\ (all[i].k = "data" => i = d)
    BY <1>1, <2>2 DEF Quiet
  <2>4. buf = <<>> /\ term.r = "ok"
    BY <1>1, <1>2 DEF Quiet
  <2>5. Answering(all, buf, n)
    BY <1>1, <2>2, <2>3, <2>4 DEF Answering
  <2> QED BY <2>5 DEF all
<1>3. CASE r # "ok"
  <2>1. answer = <<term>> /\ answer \in Seq(Lines) /\ DOMAIN answer = {1} /\ answer[1] = term
    BY <1>1, <1>3 DEF data, term
  <2> DEFINE e == 1 + Len(in)
  <2>2. /\ e \in DOMAIN all /\ all[e] = answer[1]
        /\ \A i \in DOMAIN all : i \in DOMAIN in \/ i = e
        /\ \A i \in DOMAIN in : all[i] = in[i]
    <3>1. 1 \in DOMAIN answer /\ \A j \in DOMAIN answer : j = 1
      BY <2>1
    <3>2. /\ \A i \in DOMAIN all : i \notin DOMAIN in => i - Len(in) = 1 /\ i \in Nat
          /\ e \in DOMAIN all /\ all[e] = answer[1]
      <4>1. all \in Seq(Lines) /\ DOMAIN all \subseteq Nat
        BY <2>1, ConcatLines, LenProperties
      <4> QED BY <2>1, <3>1, <4>1, ConcatLines
    <3>3. \A i \in DOMAIN in : all[i] = in[i]
      BY <2>1, ConcatLines
    <3>4. Len(in) \in Nat
      BY LenProperties
    <3> HIDE DEF all
    <3> QED BY <3>2, <3>3, <3>4
  <2> HIDE DEF e, all
  <2>3. /\ all[e] = term
        /\ \A i \in DOMAIN all : (all[i].k = "term" => i = e) /\ all[i].k # "data"
    BY <1>1, <2>1, <2>2 DEF Quiet
  <2>4. buf = <<>>
    BY DEF Quiet
  <2>5. Answering(all, buf, n)
    BY <1>1, <1>3, <2>2, <2>3, <2>4 DEF Answering
  <2> QED BY <2>5 DEF all
<1> QED BY <1>2, <1>3

LEMMA ExchangeInit == Init => ExchangeInv
<1> SUFFICES ASSUME Init PROVE ExchangeInv
  OBVIOUS
<1>1. Quiet(inbound, dataBuf)
  BY DEF Init, Quiet, Greet, Line
<1>2. UncancelledInv /\ InSync /\ ResponseMatches
  BY <1>1 DEF Init, UncancelledInv, InSync, ResponseMatches, NoFuture, Future
<1> QED BY <1>2 DEF ExchangeInv

LEMMA UncancelledStep ==
    ASSUME Cancellable = {}, SessionInv, UncancelledInv, [Next]_vars
    PROVE  UncancelledInv'
<1> USE DEF SessionInv, SessionTypeOK
<1>1. ASSUME NEW t \in Task, TaskStep(t) PROVE closed' \/ intr' = intr \/ CommandTimeout(t)
  BY <1>1 DEF TaskStep, Exec, BeginExec, Refused, WriteFails, Write, DrainDone, DrainFails,
     Answered, Rejected, FloodRetry, TimesOutClosed, CancelCaller, Unwind, UncancelledInv, QuitEnds,
     QuitFails, WaitClosed, Close, CloseSends, CloseStalls, CloseNoQuit, BeginClose, CloseStream,
     queueVars
<1>2. ASSUME NEW t \in Task, CommandTimeout(t) PROVE UncancelledInv'
  BY <1>2 DEF CommandTimeout, UncancelledInv, queueVars
<1>3. CASE ReceiveLoop
  <2>1. closed' \/ (intr' = intr /\ closed' = closed)
    BY <1>3 DEF ReceiveLoop, RecvEvent, RecvData, RecvTerminator, RecvEnd, RecvCrash, Shutdown,
       CloseStream, PublishEvent, taskVars, queueVars
  <2> QED BY <2>1 DEF UncancelledInv
<1>4. CASE Start \/ StartFails \/ KeepaliveDue \/ Server \/ Consume \/ UNCHANGED vars
  <2>1. intr' = intr /\ closed' = closed
    BY <1>4 DEF Start, StartFails, KeepaliveDue, BeginExec, Server, ServerGreets, ServerAnswers,
       ServerQuits, ServerNotifies, ServerDrops, ServerHalfCloses, ServerGarbles, Consume,
       ConsumerStep, BeginWait, WaitAgain, TakeEvent, SeeClosed, AbandonParked, AbandonWoken,
       vars, taskVars, queueVars
  <2> QED BY <2>1 DEF UncancelledInv
<1>5. ASSUME NEW t \in Task, TaskStep(t) PROVE UncancelledInv'
  BY <1>1, <1>2, <1>5, ClosedStep DEF UncancelledInv
<1> QED BY <1>3, <1>4, <1>5 DEF Next

\* Only the receive loop hands out a response, and only Write renumbers.
LEMMA ResponseKept ==
    ASSUME SessionInv, [Next]_vars, ~RecvTerminator, NEW u \in Task, fut'[u].st = "result"
    PROVE  fut'[u] = fut[u] /\ cmd'[u] = cmd[u]
<1> USE DEF SessionInv, SessionTypeOK
<1>1. ASSUME NEW t \in Task, NEW next, Leave(t, next) PROVE fut'[u] = fut[u]
  BY <1>1 DEF Leave, NoFuture, Future
<1>2. FailPending[u].st = "result" => FailPending[u] = fut[u]
  BY DEF FailPending, Futures
<1>3. ASSUME NEW t \in Task, TaskStep(t) PROVE fut'[u] = fut[u] /\ cmd'[u] = cmd[u]
  <2>1. CASE Write(t)
    BY <2>1 DEF Write, Unresolved, Future
  <2>2. CASE CommandTimeout(t) \/ CancelCaller(t)
    <3>1. cmd' = cmd /\ (fut'[u] = fut[u] \/ fut'[u] = Cancelled(fut[u]))
      BY <2>2 DEF CommandTimeout, CancelCaller
    <3> QED BY <3>1 DEF Cancelled, Futures
  <2>3. CASE Close(t)
    <3>1. cmd' = cmd /\ (fut' = FailPending \/ fut' = [FailPending EXCEPT ![t] = NoFuture])
      BY <2>3 DEF Close, CloseSends, CloseStalls, CloseNoQuit, BeginClose
    <3>2. fut'[u] = FailPending[u]
      <4>1. FailPending \in [Task -> Futures] /\ NoFuture.st # "result"
        BY FailPendingType DEF NoFuture, Future
      <4> QED BY <3>1, <4>1
    <3> QED BY <1>2, <3>1, <3>2
  <2>4. CASE ~Write(t) /\ ~CommandTimeout(t) /\ ~CancelCaller(t) /\ ~Close(t)
    <3>1. cmd' = cmd /\ (fut' = fut \/ \E next : Leave(t, next))
      BY <1>3, <2>4 DEF TaskStep, Exec, BeginExec, Refused, WriteFails, DrainDone, DrainFails,
         Answered, Rejected, FloodRetry, TimesOutClosed, Unwind, QuitEnds, QuitFails, WaitClosed
    <3> QED BY <1>1, <3>1
  <2> QED BY <2>1, <2>2, <2>3, <2>4
<1>4. CASE ReceiveLoop
  <2>1. cmd' = cmd /\ (fut' = fut \/ fut' = FailPending)
    BY <1>4 DEF ReceiveLoop, RecvEvent, RecvData, RecvEnd, RecvCrash, Shutdown, taskVars
  <2> QED BY <1>2, <2>1
<1>5. CASE Start \/ StartFails \/ KeepaliveDue \/ Server \/ Consume \/ UNCHANGED vars
  BY <1>5 DEF Start, StartFails, KeepaliveDue, BeginExec, Server, ServerGreets, ServerAnswers,
     ServerQuits, ServerNotifies, ServerDrops, ServerHalfCloses, ServerGarbles, Consume,
     vars, taskVars
<1> QED BY <1>3, <1>4, <1>5 DEF Next

\* The terminator the lock holder is handed answers the command it wrote.
LEMMA ResponseStep ==
    ASSUME SessionInv, ExchangeInv, [Next]_vars
    PROVE  ResponseMatches'
<1>1. CASE ~RecvTerminator
  BY <1>1, ResponseKept DEF ExchangeInv, ResponseMatches
<1>2. CASE RecvTerminator /\ ~(pending # None /\ fut[pending].st = "waiting")
  BY <1>2 DEF RecvTerminator, ExchangeInv, ResponseMatches
<1>3. CASE RecvTerminator /\ pending # None /\ fut[pending].st = "waiting"
  <2> DEFINE answer == Future("result", dataBuf, Head(inbound).n, Head(inbound).r)
  <2>1. fut' = [fut EXCEPT ![pending] = answer] /\ cmd' = cmd
    BY <1>3 DEF RecvTerminator
  <2>2. pending \in Task /\ pending = lock /\ ~closed /\ fut \in [Task -> Futures]
    BY <1>3 DEF SessionInv, SessionTypeOK, LockInv, FutureInv
  <2>3. inbound \in Seq(Lines) /\ inbound # <<>> /\ Head(inbound).k = "term"
    BY <1>3 DEF RecvTerminator, Reads, SessionInv, SessionTypeOK
  <2>4. Answering(inbound, dataBuf, nsent) /\ cmd[pending] = nsent
    BY <1>3, <2>2, <2>3, QuietRead DEF ExchangeInv, InSync
  <2>5. /\ answer.n = cmd[pending]
        /\ answer.data = IF answer.r = "ok" THEN <<cmd[pending]>> ELSE <<>>
    BY <2>3, <2>4, AnsweringTerm DEF Future
  <2> HIDE DEF answer
  <2> QED BY <2>1, <2>2, <2>5 DEF ExchangeInv, ResponseMatches
<1> QED BY <1>1, <1>2, <1>3

\* A step that leaves the two ends and the lock as they are, or closes the
\* transport, leaves them in agreement.
LEMMA InSyncKept ==
    ASSUME InSync, closed => closed', UNCHANGED <<outbound, inbound, dataBuf, nsent>>,
           lock' = lock \/ (lock' = None /\ tclosed'), tclosed => tclosed',
           lock # None => cmd'[lock] = cmd[lock],
           lock # None /\ fut'[lock].st = "result" => fut[lock].st = "result"
    PROVE  InSync'
BY DEF InSync

LEMMA InSyncTask ==
    ASSUME Cancellable = {}, SessionInv, ExchangeInv, NEW t \in Task, TaskStep(t), ~closed'
    PROVE  InSync'
<1> USE DEF SessionInv, SessionTypeOK
<1>1. ~closed
  BY ClosedStep DEF Next
<1>2. ~TimesOutClosed(t) /\ ~CancelCaller(t) /\ ~Unwind(t) /\ ~Rejected(t) /\ ~Close(t)
  BY <1>1 DEF TimesOutClosed, CancelCaller, Unwind, ExchangeInv, UncancelledInv, Rejected, Running,
     FutureInv, Close, CloseSends, CloseStalls, CloseNoQuit, BeginClose, CloseStream
<1>3. lock # None => InExec(lock)
  BY <1>1 DEF LockInv
<1>4. CASE Write(t)
  <2>1. outbound = <<>> /\ Quiet(inbound, dataBuf) /\ nsent \in Nat
    BY <1>4 DEF Write, FirstInLine, ExchangeInv, InSync
  <2>2. /\ nsent' = nsent + 1 /\ outbound' \in {<<>>, <<nsent'>>}
        /\ inbound' = inbound /\ dataBuf' = dataBuf
    BY <1>4, <2>1 DEF Write, Written
  <2>3. lock' = t /\ t # None /\ cmd'[t] = nsent' /\ fut'[t].st = "waiting"
    BY <1>4, TaskAssumption DEF Write, Task, Unresolved, Future
  <2> QED BY <2>1, <2>2, <2>3 DEF InSync
<1>5. CASE Answered(t)
  <2>1. lock = t /\ lock # None /\ fut[lock].st = "result" /\ lock' = None
    BY <1>5, TaskAssumption DEF Answered, Running, LockInv, InExec, Leave, Task
  <2>2. outbound = <<>> /\ Quiet(inbound, dataBuf)
    BY <1>1, <2>1 DEF ExchangeInv, InSync
  <2>3. UNCHANGED <<outbound, inbound, dataBuf, nsent>>
    BY <1>5 DEF Answered, linkVars
  <2> QED BY <2>1, <2>2, <2>3 DEF InSync
<1>6. CASE Exec(t) \/ Refused(t) \/ WriteFails(t) \/ DrainDone(t) \/ FloodRetry(t) \/ QuitEnds(t)
  BY <1>6, InSyncKept DEF ExchangeInv, Exec, BeginExec, Refused, WriteFails, DrainDone, FloodRetry,
     QuitEnds, TransportClose, linkVars, queueVars
<1>7. CASE DrainFails(t)
  <2>1. lock = t /\ lock' = None /\ tclosed' /\ fut' = [fut EXCEPT ![t] = NoFuture]
    BY <1>7 DEF DrainFails, Running, LockInv, InExec, Leave
  <2>2. UNCHANGED <<outbound, inbound, dataBuf, nsent, cmd, closed>>
    BY <1>7 DEF DrainFails, queueVars
  <2> QED BY <2>1, <2>2 DEF ExchangeInv, InSync
<1>8. CASE CommandTimeout(t)
  <2>1. UNCHANGED <<outbound, inbound, dataBuf, nsent, cmd, closed, lock, tclosed>>
    BY <1>8 DEF CommandTimeout, linkVars, queueVars
  <2>2. lock # None /\ fut'[lock].st = "result" => fut[lock].st = "result"
    BY <1>8 DEF CommandTimeout, Cancelled, Futures
  <2> QED BY <2>1, <2>2, InSyncKept DEF ExchangeInv
<1>9. CASE QuitFails(t) \/ WaitClosed(t)
  <2>1. lock # t
    BY <1>3, <1>9, TaskAssumption DEF QuitFails, WaitClosed, Running, InExec, Task
  <2>2. lock' = lock /\ fut' = [fut EXCEPT ![t] = NoFuture] /\ (tclosed => tclosed')
    BY <1>9, <2>1 DEF QuitFails, WaitClosed, Leave, linkVars
  <2>3. UNCHANGED <<outbound, inbound, dataBuf, nsent, cmd, closed>>
    BY <1>9 DEF QuitFails, WaitClosed, linkVars, queueVars
  <2>4. lock # None => fut'[lock] = fut[lock]
    BY <2>1, <2>2
  <2> QED BY <2>2, <2>3, <2>4, InSyncKept DEF ExchangeInv
<1> QED BY <1>2, <1>4, <1>5, <1>6, <1>7, <1>8, <1>9 DEF TaskStep

LEMMA InSyncLoop ==
    ASSUME SessionInv, ExchangeInv, ReceiveLoop, ~closed'
    PROVE  InSync'
<1>1. ~closed /\ ~RecvEnd /\ ~RecvCrash
  BY DEF ReceiveLoop, RecvEvent, RecvData, RecvTerminator, RecvEnd, RecvCrash, Shutdown,
     CloseStream, PublishEvent, queueVars
<1>2. /\ inbound \in Seq(Lines) /\ inbound # <<>> /\ inbound' = Tail(inbound)
      /\ UNCHANGED <<lock, cmd, tclosed, outbound, nsent>>
  BY <1>1 DEF ReceiveLoop, RecvEvent, RecvData, RecvTerminator, Reads, SessionInv, SessionTypeOK, taskVars
<1>3. InSync
  BY DEF ExchangeInv
<1>4. CASE RecvEvent
  <2>1. Head(inbound).k = "event" /\ dataBuf' = dataBuf /\ fut' = fut
    BY <1>4 DEF RecvEvent, Reads, taskVars
  <2> QED BY <1>1, <1>2, <1>3, <2>1, QuietRead, AnsweringSkip DEF InSync
<1>5. CASE RecvData
  <2>1. Head(inbound).k = "data" /\ dataBuf' = Append(dataBuf, Head(inbound).n) /\ fut' = fut
    BY <1>5 DEF RecvData, Reads, taskVars
  <2>2. ~Quiet(inbound, dataBuf)
    BY <1>2, <2>1, QuietRead
  <2>3. Answering(inbound', dataBuf', nsent)
    BY <1>1, <1>2, <1>3, <2>1, <2>2, AnsweringData DEF InSync
  <2> QED BY <1>1, <1>2, <1>3, <2>1, <2>2, <2>3 DEF InSync
<1>6. CASE RecvTerminator
  <2>1. Head(inbound).k = "term" /\ dataBuf' = <<>>
    BY <1>6 DEF RecvTerminator, Reads, BufferAfterTerminator
  <2>2. ~Quiet(inbound, dataBuf)
    BY <1>2, <2>1, QuietRead
  <2>3. Quiet(inbound', dataBuf') /\ outbound = <<>>
    BY <1>1, <1>2, <1>3, <2>1, <2>2, AnsweringTerm DEF InSync
  <2> QED BY <1>1, <1>2, <1>3, <2>3 DEF InSync
<1> QED BY <1>1, <1>4, <1>5, <1>6 DEF ReceiveLoop

LEMMA InSyncServer ==
    ASSUME SessionInv, ExchangeInv, Server, ~closed'
    PROVE  InSync'
<1>1. ~closed /\ UNCHANGED <<lock, cmd, fut, tclosed, nsent, dataBuf>> /\ inbound \in Seq(Lines)
  <2>1. UNCHANGED <<closed, lock, cmd, fut, tclosed, nsent, dataBuf>>
    BY DEF Server, ServerGreets, ServerAnswers, ServerQuits, ServerNotifies, ServerDrops,
       ServerHalfCloses, ServerGarbles, taskVars, queueVars
  <2> QED BY <2>1 DEF SessionInv, SessionTypeOK
<1>2. InSync /\ nsent \in Nat
  BY DEF ExchangeInv, SessionInv, SessionTypeOK
<1>3. ASSUME NEW more \in Seq(Lines), inbound' = inbound \o more,
             \A i \in DOMAIN more : more[i].k \notin {"data", "term"},
             outbound' = outbound \/ outbound' = <<>>
      PROVE  InSync'
  <2>1. /\ Quiet(inbound, dataBuf) => Quiet(inbound', dataBuf')
        /\ Answering(inbound, dataBuf, nsent) => Answering(inbound', dataBuf', nsent')
    BY <1>1, <1>3, SendOther
  <2> QED BY <1>1, <1>2, <1>3, <2>1 DEF InSync
<1>4. ASSUME NEW l \in Lines, l.k \notin {"data", "term"}
      PROVE  <<l>> \in Seq(Lines) /\ \A i \in DOMAIN <<l>> : <<l>>[i].k \notin {"data", "term"}
  BY <1>4
<1>5. \A l \in {Greet, Eof, Bad, Notify} : l \in Lines /\ l.k \notin {"data", "term"}
  BY DEF Greet, Eof, Bad, Notify, Line, Lines
<1>6. <<>> \in Seq(Lines) /\ \A i \in DOMAIN <<>> : <<>>[i].k \notin {"data", "term"}
  BY EmptySeq
<1>7. CASE ServerGreets \/ ServerNotifies \/ ServerGarbles \/ ServerQuits \/ ServerHalfCloses
  BY <1>3, <1>4, <1>5, <1>7 DEF ServerGreets, ServerNotifies, ServerGarbles, ServerQuits,
     ServerHalfCloses, Send
<1>8. CASE ServerDrops
  BY <1>3, <1>4, <1>5, <1>6, <1>8 DEF ServerDrops, Send
<1>9. ASSUME NEW r \in Verdicts, ServerAnswers(r) PROVE InSync'
  <2>1. outbound # <<>> /\ outbound = <<nsent>> /\ Quiet(inbound, dataBuf)
    BY <1>1, <1>2, <1>9 DEF ServerAnswers, InSync
  <2>2. /\ Head(outbound) = nsent /\ outbound' = <<>>
        /\ inbound' = inbound \o (IF r = "ok" THEN <<Line("data", nsent, "none"), Line("term", nsent, r)>>
                                             ELSE <<Line("term", nsent, r)>>)
    BY <1>9, <2>1 DEF ServerAnswers, Send
  <2>3. Answering(inbound', dataBuf', nsent')
    BY <1>1, <1>2, <2>1, <2>2, SendAnswer
  <2> QED BY <1>1, <1>2, <2>1, <2>2, <2>3 DEF InSync
<1> QED BY <1>7, <1>8, <1>9 DEF Server

LEMMA ExchangeStep ==
    Cancellable = {} /\ SessionInv /\ ExchangeInv /\ [Next]_vars => ExchangeInv'
<1> SUFFICES ASSUME Cancellable = {}, SessionInv, ExchangeInv, [Next]_vars, ~closed'
             PROVE  InSync'
  BY UncancelledStep, ResponseStep DEF ExchangeInv, InSync
<1>1. CASE Start
  <2> DEFINE rest == Tail(inbound)
  <2>1. /\ inbound \in Seq(Lines) /\ Len(inbound) >= 2 /\ Len(inbound) \in Nat
        /\ inbound[1].k = "greet" /\ inbound[2].k = "greet" /\ inbound' = Tail(rest)
    BY <1>1, LenProperties DEF Start, Greet, Line, SessionInv, SessionTypeOK
  <2>2. inbound # <<>> /\ rest \in Seq(Lines) /\ Len(rest) = Len(inbound) - 1 /\ Head(rest) = inbound[2]
    BY <2>1, HeadTailProperties, LenProperties, EmptySeq
  <2> HIDE DEF rest
  <2>3. rest # <<>>
    BY <2>1, <2>2, EmptySeq
  <2>4. Head(inbound).k = "greet" /\ Head(rest).k = "greet"
    BY <2>1, <2>2
  <2>5. /\ Quiet(inbound, dataBuf) => Quiet(inbound', dataBuf)
        /\ Answering(inbound, dataBuf, nsent) => Answering(inbound', dataBuf, nsent)
    BY <2>1, <2>2, <2>3, <2>4, QuietRead, AnsweringSkip DEF rest
  <2> QED BY <1>1, <2>5 DEF Start, ExchangeInv, InSync, queueVars
<1>2. ASSUME NEW t \in Task, TaskStep(t) PROVE InSync'
  BY <1>2, InSyncTask
<1>3. CASE ReceiveLoop
  BY <1>3, InSyncLoop
<1>4. CASE Server
  BY <1>4, InSyncServer
<1>5. CASE StartFails \/ KeepaliveDue \/ Consume \/ UNCHANGED vars
  <2>1. /\ UNCHANGED <<outbound, inbound, dataBuf, nsent, lock, cmd, fut>>
        /\ closed' = closed /\ (tclosed => tclosed')
    <3>1. CASE StartFails
      BY <3>1 DEF StartFails, taskVars, queueVars
    <3>2. CASE KeepaliveDue
      BY <3>2 DEF KeepaliveDue, BeginExec, linkVars, queueVars
    <3>3. CASE Consume
      BY <3>3 DEF Consume, ConsumerStep, BeginWait, WaitAgain, TakeEvent, SeeClosed,
                  AbandonParked, AbandonWoken, taskVars, linkVars
    <3>4. CASE UNCHANGED vars
      BY <3>4 DEF vars, taskVars, linkVars, queueVars
    <3> QED BY <1>5, <3>1, <3>2, <3>3, <3>4
  <2> QED BY <2>1, InSyncKept DEF ExchangeInv
<1> QED BY <1>1, <1>2, <1>3, <1>4, <1>5 DEF Next

\* While the session is open at most one response is outstanding.
LEMMA OneOutstanding == SessionInv /\ InSync => OneInFlight
<1> SUFFICES ASSUME SessionInv, InSync, ~closed PROVE Cardinality(Outstanding) <= 1
  BY DEF OneInFlight
<1>1. Outstanding \subseteq {nsent}
  <2>1. \A i \in DOMAIN outbound : outbound[i] = nsent
    BY DEF InSync
  <2>2. \A i \in DOMAIN inbound : inbound[i].k = "term" => inbound[i].n = nsent
    BY DEF InSync, Quiet, Answering
  <2> QED BY <2>1, <2>2 DEF Outstanding
<1>2. IsFiniteSet({nsent}) /\ Cardinality({nsent}) = 1
  BY FS_Singleton
<1>3. Cardinality(Outstanding) \in Nat /\ Cardinality(Outstanding) <= Cardinality({nsent})
  BY <1>1, <1>2, FS_Subset, FS_CardinalityType
<1> QED BY <1>2, <1>3

\* If the application cancels no task inside exec(), a caller is handed the
\* response to its own command and the rows of that response, whatever times
\* out, whoever closes and whatever becomes of the server.
THEOREM ResponsesMatch ==
    ASSUME Cancellable = {} PROVE Spec => []ResponseMatches
<1>1. ExchangeInv => ResponseMatches
  BY DEF ExchangeInv
<1>2. SessionInv /\ ExchangeInv /\ [Next]_vars => ExchangeInv'
  BY ExchangeStep
<1> QED BY <1>1, <1>2, ExchangeInit, SessionInvariant, PTL DEF Spec

\* And then, while the session is open, at most one command has been written
\* whose response has not been read.
THEOREM OneCommandInFlight ==
    ASSUME Cancellable = {} PROVE Spec => []OneInFlight
<1>1. SessionInv /\ ExchangeInv => OneInFlight
  BY OneOutstanding DEF ExchangeInv
<1>2. SessionInv /\ ExchangeInv /\ [Next]_vars => ExchangeInv'
  BY ExchangeStep
<1> QED BY <1>1, <1>2, ExchangeInit, SessionInvariant, PTL DEF Spec

-----------------------------------------------------------------------------
(* The end of the session and the SSH connection beneath it *)

LEMMA EofTask ==
    ASSUME SessionInv, EofInv, NEW t \in Task, TaskStep(t)
    PROVE  EofInv'
<1>1. /\ inbound' = inbound
      /\ ssh' = ssh \/ ssh' = "closed"
      /\ tclosed' => tclosed \/ ssh' # "up"
  BY DEF TaskStep, Exec, BeginExec, Refused, WriteFails, Write, DrainDone, DrainFails,
     CommandTimeout, Answered, Rejected, FloodRetry, TimesOutClosed, CancelCaller, Unwind,
     Close, CloseSends, CloseStalls, CloseNoQuit, BeginClose, TransportClose, QuitEnds, QuitFails,
     WaitClosed, linkVars, Broken
<1> QED BY <1>1 DEF EofInv

LEMMA EofLoop ==
    ASSUME SessionInv, EofInv, ReceiveLoop
    PROVE  EofInv'
<1>1. inbound \in Seq(Lines)
  BY DEF SessionInv, SessionTypeOK
<1>2. inbound # <<>> =>
        /\ Head(inbound) = inbound[1] /\ 1 \in DOMAIN inbound
        /\ \A i \in DOMAIN Tail(inbound) :
              i + 1 \in DOMAIN inbound /\ Tail(inbound)[i] = inbound[i + 1]
  BY <1>1, TailLines
<1>3. /\ ssh' = ssh
      /\ inbound' = inbound \/ (inbound # <<>> /\ inbound' = Tail(inbound))
      /\ tclosed' = tclosed \/ (inbound # <<>> /\ Head(inbound).k = "eof")
  BY DEF ReceiveLoop, RecvEvent, RecvData, RecvTerminator, RecvEnd, RecvCrash, Reads
<1> QED BY <1>2, <1>3 DEF EofInv

LEMMA EofServer ==
    ASSUME SessionInv, EofInv, Server
    PROVE  EofInv'
<1>1. inbound \in Seq(Lines)
  BY DEF SessionInv, SessionTypeOK
<1>2. tclosed' = tclosed /\ (ssh' = "up" => ssh = "up")
  BY DEF Server, ServerGreets, ServerAnswers, ServerQuits, ServerNotifies, ServerDrops,
     ServerHalfCloses, ServerGarbles
<1>3. CASE ssh' # "up"
  BY <1>3 DEF EofInv
<1>4. CASE ssh' = "up"
  <2>1. ASSUME NEW more \in Seq(Lines), inbound' = inbound \o more,
               \A i \in DOMAIN more : more[i].k # "eof"
        PROVE  EofInv'
    <3> DEFINE all == inbound \o more
    <3>1. /\ \A i \in DOMAIN inbound : all[i] = inbound[i]
          /\ \A i \in DOMAIN all :
                i \notin DOMAIN inbound => i - Len(inbound) \in DOMAIN more /\ all[i] = more[i - Len(inbound)]
      BY <1>1, ConcatLines
    <3>2. inbound' = all
      BY <2>1
    <3> HIDE DEF all
    <3> QED BY <1>2, <1>4, <2>1, <3>1, <3>2 DEF EofInv
  <2>2. ASSUME NEW l \in Lines, l.k # "eof"
        PROVE  <<l>> \in Seq(Lines) /\ \A i \in DOMAIN <<l>> : <<l>>[i].k # "eof"
    BY <2>2
  <2>3. \A l \in {Greet, Bad, Notify} : l \in Lines /\ l.k # "eof"
    BY DEF Greet, Bad, Notify, Line, Lines
  <2>4. CASE ServerGreets \/ ServerNotifies \/ ServerGarbles
    BY <2>1, <2>2, <2>3, <2>4 DEF ServerGreets, ServerNotifies, ServerGarbles, Send
  <2>5. ASSUME NEW r \in Verdicts, ServerAnswers(r) PROVE EofInv'
    <3> DEFINE n == Head(outbound)
               data == Line("data", n, "none")
               term == Line("term", n, r)
    <3>1. n \in Nat /\ inbound' = inbound \o IF r = "ok" THEN <<data, term>> ELSE <<term>>
      BY <2>5, HeadTailProperties DEF ServerAnswers, Send, SessionInv, SessionTypeOK
    <3>2. data \in Lines /\ data.k # "eof" /\ term \in Lines /\ term.k # "eof"
      BY <3>1 DEF Line, Lines
    <3> HIDE DEF data, term
    <3>3. <<data, term>> \in Seq(Lines) /\ \A i \in DOMAIN <<data, term>> : <<data, term>>[i].k # "eof"
      BY <3>2
    <3> QED BY <2>1, <2>2, <3>1, <3>2, <3>3
  <2>6. ~ServerQuits /\ ~ServerDrops /\ ~ServerHalfCloses
    BY <1>4 DEF ServerQuits, ServerDrops, ServerHalfCloses
  <2> QED BY <2>4, <2>5, <2>6 DEF Server
<1> QED BY <1>3, <1>4

LEMMA EofStep == SessionInv /\ EofInv /\ [Next]_vars => EofInv'
<1> SUFFICES ASSUME SessionInv, EofInv, [Next]_vars PROVE EofInv'
  OBVIOUS
<1>1. CASE Start
  <2> DEFINE rest == Tail(inbound)
  <2>1. inbound' = Tail(rest) /\ Len(inbound) >= 2 /\ UNCHANGED <<tclosed, ssh>>
    BY <1>1 DEF Start
  <2>2. inbound \in Seq(Lines) /\ inbound # <<>>
    BY <2>1, EmptySeq DEF SessionInv, SessionTypeOK
  <2>3. /\ rest \in Seq(Lines) /\ rest # <<>>
        /\ \A i \in DOMAIN rest : i + 1 \in DOMAIN inbound /\ rest[i] = inbound[i + 1]
    BY <2>1, <2>2, TailLines, HeadTailProperties, LenProperties, EmptySeq
  <2> HIDE DEF rest
  <2>4. \A i \in DOMAIN Tail(rest) : i + 1 \in DOMAIN rest /\ Tail(rest)[i] = rest[i + 1]
    BY <2>3, TailLines
  <2> QED BY <2>1, <2>3, <2>4 DEF EofInv
<1>2. CASE StartFails
  <2>1. tclosed \/ \E i \in DOMAIN inbound : inbound[i].k = "eof"
    BY <1>2 DEF StartFails, Eof, Line
  <2> QED BY <1>2, <2>1 DEF StartFails, EofInv
<1>3. CASE KeepaliveDue \/ Consume \/ UNCHANGED vars
  BY <1>3 DEF KeepaliveDue, BeginExec, Consume, vars, linkVars, EofInv
<1>4. ASSUME NEW t \in Task, TaskStep(t) PROVE EofInv'
  BY <1>4, EofTask
<1> QED BY <1>1, <1>2, <1>3, <1>4, EofLoop, EofServer DEF Next

\* The keepalive task is off for good, unless it is on.
LEMMA QuitStep ==
    ASSUME Uninterrupted, SessionInv, QuitInv, [Next]_vars
    PROVE  QuitInv'
<1> USE DEF SessionInv, SessionTypeOK
<1>0. KA \in Task /\ Caller \subseteq Task /\ KA \notin Caller
  BY TaskAssumption DEF Task
<1>1. CASE "stall" \notin Hazard
  <2>1. \A t \in Task : pc[t] # "quit"
    BY <1>1 DEF QuitInv
  <2>2. ASSUME NEW t \in Task, NEW k, pc' = [pc EXCEPT ![t] = k], k # "quit"
        PROVE  QuitInv'
    BY <1>1, <2>1, <2>2 DEF QuitInv
  <2>3. \A t \in Task : Raised(t) # "quit"
    BY DEF Raised
  <2>4. ASSUME NEW t \in Task, TaskStep(t) PROVE QuitInv'
    <3>1. ~CloseStalls(t)
      BY <1>1 DEF CloseStalls
    <3>2. CASE Exec(t) \/ FloodRetry(t)
      BY <2>2, <3>2 DEF Exec, BeginExec, FloodRetry, JoinLine
    <3>3. CASE Refused(t) \/ WriteFails(t) \/ CloseNoQuit(t)
      BY <2>2, <2>3, <3>3 DEF Refused, WriteFails, CloseNoQuit
    <3>4. CASE Write(t)
      <4>1. PICK k \in {"await", "drain"} : pc' = [pc EXCEPT ![t] = k]
        BY <3>4 DEF Write, AfterWrite
      <4> QED BY <2>2, <4>1
    <3>5. CASE DrainDone(t) \/ CloseSends(t) \/ QuitEnds(t)
      BY <2>2, <3>5 DEF DrainDone, CloseSends, QuitEnds
    <3>6. CASE \/ DrainFails(t) \/ Rejected(t) \/ TimesOutClosed(t) \/ Unwind(t)
               \/ QuitFails(t) \/ WaitClosed(t)
      BY <2>2, <2>3, <3>6 DEF DrainFails, Rejected, TimesOutClosed, Unwind, QuitFails, WaitClosed, Leave
    <3>7. CASE Answered(t)
      <4>1. PICK k \in {"flood", "idle", Raised(t)} : pc' = [pc EXCEPT ![t] = k]
        BY <3>7 DEF Answered, Leave
      <4> QED BY <2>2, <2>3, <4>1
    <3>8. CASE CommandTimeout(t) \/ CancelCaller(t)
      BY <1>1, <2>1, <3>8 DEF CommandTimeout, CancelCaller, QuitInv
    <3> QED
      BY <2>4, <3>1, <3>2, <3>3, <3>4, <3>5, <3>6, <3>7, <3>8 DEF TaskStep, Close
  <2>5. CASE Start
    <3>1. PICK k \in {"off", "dead", "idle"} : pc' = [pc EXCEPT ![KA] = k]
      BY <2>5 DEF Start
    <3> QED BY <1>0, <2>2, <3>1
  <2>6. CASE KeepaliveDue
    BY <1>0, <2>2, <2>6 DEF KeepaliveDue, BeginExec, JoinLine
  <2>7. CASE StartFails \/ ReceiveLoop \/ Server \/ Consume \/ UNCHANGED vars
    <3>1. pc' = pc
      BY <2>7 DEF StartFails, ReceiveLoop, RecvEvent, RecvData, RecvTerminator, RecvEnd, RecvCrash,
         Server, ServerGreets, ServerAnswers, ServerQuits, ServerNotifies, ServerDrops,
         ServerHalfCloses, ServerGarbles, Consume, vars, taskVars
    <3> QED BY <1>1, <2>1, <3>1 DEF QuitInv
  <2> QED BY <2>4, <2>5, <2>6, <2>7 DEF Next
<1>2. CASE "stall" \in Hazard
  <2>1. /\ Cancellable = {} /\ ~KeepaliveOn
        /\ pc[KA] = "off" /\ \A t \in Task : intr[t] # "cancel"
    BY <1>2 DEF Uninterrupted, QuitInv
  <2>2. ASSUME pc'[KA] = "off", intr' = intr \/ \E t \in Task, k \in {"no", "timeout"} : intr' = [intr EXCEPT ![t] = k]
        PROVE  QuitInv'
    BY <1>2, <2>1, <2>2 DEF QuitInv
  <2>3. ASSUME NEW t \in Task, TaskStep(t) PROVE QuitInv'
    <3>1. t # KA
      BY <1>0, <2>1, <2>3, HeadTailProperties DEF TaskStep, Exec, Refused, WriteFails, Write, FirstInLine,
         DrainDone, DrainFails, CommandTimeout, Answered, Rejected, FloodRetry, Running,
         TimesOutClosed, CancelCaller, Unwind, Close, CloseSends, CloseStalls, CloseNoQuit, BeginClose,
         QuitEnds, QuitFails, WaitClosed
    <3>2. pc' = pc \/ \E k : pc' = [pc EXCEPT ![t] = k]
      BY <2>3 DEF TaskStep, Exec, BeginExec, JoinLine, Refused, WriteFails, Write, DrainDone, DrainFails,
         CommandTimeout, Answered, Rejected, FloodRetry, TimesOutClosed, CancelCaller, Unwind, Leave,
         Close, CloseSends, CloseStalls, CloseNoQuit, QuitEnds, QuitFails, WaitClosed
    <3>3. pc'[KA] = "off"
      BY <1>0, <2>1, <3>1, <3>2
    <3>4. intr' = intr \/ \E k \in {"no", "timeout"} : intr' = [intr EXCEPT ![t] = k]
      BY <2>1, <2>3 DEF TaskStep, Exec, BeginExec, Refused, WriteFails, Write, DrainDone, DrainFails,
         CommandTimeout, Answered, Rejected, FloodRetry, TimesOutClosed, CancelCaller, Unwind,
         Close, CloseSends, CloseStalls, CloseNoQuit, BeginClose, CancelKeepalive, QuitEnds, QuitFails,
         WaitClosed
    <3> QED BY <2>2, <3>3, <3>4
  <2>4. CASE Start
    BY <1>0, <2>1, <2>2, <2>4 DEF Start
  <2>5. ~KeepaliveDue
    BY <2>1 DEF KeepaliveDue, BeginExec
  <2>6. CASE StartFails \/ ReceiveLoop \/ Server \/ Consume \/ UNCHANGED vars
    <3>1. pc' = pc
      BY <2>6 DEF StartFails, ReceiveLoop, RecvEvent, RecvData, RecvTerminator, RecvEnd, RecvCrash,
         Server, ServerGreets, ServerAnswers, ServerQuits, ServerNotifies, ServerDrops,
         ServerHalfCloses, ServerGarbles, Consume, vars, taskVars
    <3>2. intr' = intr
      BY <2>1, <2>6 DEF StartFails, ReceiveLoop, RecvEvent, RecvData, RecvTerminator, RecvEnd, RecvCrash,
         Shutdown, CancelKeepalive, Server, ServerGreets, ServerAnswers, ServerQuits, ServerNotifies,
         ServerDrops, ServerHalfCloses, ServerGarbles, Consume, vars, taskVars
    <3> QED BY <2>1, <2>2, <3>1, <3>2
  <2> QED BY <2>3, <2>4, <2>5, <2>6 DEF Next
<1> QED BY <1>1, <1>2

\* Whoever closes the session closes the transport, is about to, or finds the
\* connection gone; and what is gone does not come back.
LEMMA ReleasedStep ==
    ASSUME Uninterrupted, SessionInv, ReleaseInv, EofInv', [Next]_vars
    PROVE  ConnectionReleased'
<1> USE DEF SessionInv, SessionTypeOK
<1>0. tclosed' \in BOOLEAN /\ ssh' \in {"up", "half", "lost", "closed"}
  BY SessionTypeStep DEF SessionTypeOK
<1>1. CASE tclosed'
  BY <1>0, <1>1 DEF EofInv, ConnectionReleased
<1>2. CASE ~tclosed' /\ ssh' \notin {"lost", "closed"}
  <2> SUFFICES ASSUME closed' PROVE (\E t \in Task : pc'[t] = "quit") \/ recv' = "done"
    BY <1>2 DEF ConnectionReleased
  <2>1. ASSUME NEW t \in Task, TaskStep(t) PROVE (\E u \in Task : pc'[u] = "quit") \/ recv' = "done"
    <3>1. CASE CloseStalls(t)
      BY <3>1 DEF CloseStalls
    <3>2. CASE ~CloseStalls(t)
      <4>1. ~CloseSends(t) /\ ~CloseNoQuit(t) /\ ~QuitEnds(t) /\ ~QuitFails(t)
        BY <1>2 DEF CloseSends, CloseNoQuit, QuitEnds, QuitFails, TransportClose
      <4>2. /\ closed' = closed /\ recv' = recv /\ ssh' = ssh
            /\ tclosed' = tclosed
        BY <1>2, <2>1, <3>2, <4>1 DEF TaskStep, Close, Exec, BeginExec, Refused, WriteFails, Write,
           DrainDone, DrainFails, CommandTimeout, Answered, Rejected, FloodRetry, TimesOutClosed,
           CancelCaller, Unwind, WaitClosed, linkVars, queueVars
      <4>3. (\E u \in Task : pc[u] = "quit") \/ recv = "done"
        BY <1>2, <4>2 DEF ReleaseInv, ConnectionReleased
      <4>4. ASSUME NEW u \in Task, pc[u] = "quit" PROVE pc'[u] = "quit"
        <5>1. intr[u] # "cancel"
          BY <4>4 DEF ReleaseInv, QuitInv
        <5>2. pc' = pc \/ (\E k : pc' = [pc EXCEPT ![t] = k])
          BY <2>1, <3>2, <4>1 DEF TaskStep, Exec, BeginExec, JoinLine, Refused, WriteFails, Write,
             DrainDone, DrainFails, CommandTimeout, Answered, Rejected, FloodRetry, TimesOutClosed,
             CancelCaller, Unwind, Leave, Close, WaitClosed
        <5>3. t = u => pc' = pc
          BY <2>1, <3>2, <4>1, <4>4, <5>1 DEF TaskStep, Exec, BeginExec, Refused, WriteFails, Write,
             FirstInLine, DrainDone, DrainFails, CommandTimeout, Answered, Rejected, FloodRetry,
             Running, TimesOutClosed, CancelCaller, Unwind, Close, WaitClosed
        <5> QED BY <4>4, <5>2, <5>3
      <4> QED BY <4>2, <4>3, <4>4
    <3> QED BY <3>1, <3>2
  <2>2. CASE ReceiveLoop
    <3>1. pc' = pc /\ ssh' = ssh /\ (recv' = "done" \/ (closed' = closed /\ recv' = recv /\ tclosed' = tclosed))
      BY <2>2 DEF ReceiveLoop, RecvEvent, RecvData, RecvTerminator, RecvEnd, RecvCrash, PublishEvent,
         taskVars, queueVars
    <3> QED BY <1>2, <3>1 DEF ReleaseInv, ConnectionReleased
  <2>3. CASE Start
    <3>1. PICK k : pc' = [pc EXCEPT ![KA] = k]
      BY <2>3 DEF Start
    <3>2. recv = "new" /\ UNCHANGED <<closed, ssh, tclosed>> /\ pc[KA] = "off"
      BY <2>3 DEF Start, queueVars, PhaseInv
    <3>3. \E t \in Task : pc[t] = "quit"
      BY <1>2, <3>2 DEF ReleaseInv, ConnectionReleased
    <3> QED BY <3>1, <3>2, <3>3
  <2>4. ~StartFails
    BY <1>2 DEF StartFails
  <2>5. ~KeepaliveDue
    BY DEF KeepaliveDue, BeginExec, queueVars
  <2>6. CASE Server \/ Consume \/ UNCHANGED vars
    <3>1. UNCHANGED <<closed, pc, recv, tclosed>> /\ (ssh \in {"lost", "closed"} => ssh' = ssh)
      BY <2>6 DEF Server, ServerGreets, ServerAnswers, ServerQuits, ServerNotifies, ServerDrops,
         ServerHalfCloses, ServerGarbles, Consume, ConsumerStep, BeginWait, WaitAgain, TakeEvent,
         SeeClosed, AbandonParked, AbandonWoken, vars, taskVars, linkVars, queueVars
    <3> QED BY <1>2, <3>1 DEF ReleaseInv, ConnectionReleased
  <2> QED BY <2>1, <2>2, <2>3, <2>4, <2>5, <2>6 DEF Next
<1>3. CASE ssh' \in {"lost", "closed"}
  BY <1>3 DEF ConnectionReleased
<1> QED BY <1>0, <1>1, <1>2, <1>3

LEMMA ReleaseInit == Init => ReleaseInv
<1> SUFFICES ASSUME Init PROVE ReleaseInv
  OBVIOUS
<1>1. \A i \in DOMAIN inbound : inbound[i].k # "eof"
  BY DEF Init, Greet, Line
<1>2. ~closed /\ ~tclosed
  BY DEF Init, EQInit
<1>3. KA \in Task /\ \A t \in Task : pc[t] # "quit" /\ intr[t] # "cancel"
  BY DEF Init, Task
<1> QED BY <1>1, <1>2, <1>3 DEF Init, ReleaseInv, EofInv, QuitInv, ConnectionReleased

\* A closed session leaves no SSH connection behind but for the two ends the
\* property names (_shutdown() and close(), lines 112-140 and 300-325), if
\* nobody can be interrupted while "quit" is being sent: no peer stops reading,
\* or there is no keepalive and the application cancels nobody.
THEOREM ConnectionsReleased ==
    ASSUME Uninterrupted PROVE Spec => []ConnectionReleased
<1>1. ReleaseInv => ConnectionReleased
  BY DEF ReleaseInv
<1>2. SessionInv /\ ReleaseInv /\ [Next]_vars => ReleaseInv'
  BY EofStep, QuitStep, ReleasedStep DEF ReleaseInv
<1> QED BY <1>1, <1>2, ReleaseInit, SessionInvariant, PTL DEF Spec

=============================================================================
