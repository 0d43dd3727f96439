--------------------------- MODULE RawConnection ---------------------------
(***************************************************************************)
(* One ServerQuery session: class RawConnection of                         *)
(* src/src/atsq/connection.py over an SshTransport (transport.py).  The    *)
(* tasks that call exec() and close(), the keepalive task, the receive     *)
(* loop and the server run interleaved; asyncio switches tasks only where  *)
(* one suspends, so an action is what one task does between suspensions.   *)
(*                                                                         *)
(* Lines on the wire are records [k, n, r]: k is the kind of line, n the   *)
(* number of the command it answers (0 for none), r the verdict of a       *)
(* terminator.  Commands are numbered as they are written; the numbers are *)
(* not on the real wire, where nothing links a response to its command but *)
(* its position, which is what the properties are about.  One data line    *)
(* stands for the rows of a response.                                      *)
(*                                                                         *)
(* The event side (queue, sentinel, consumers) is module EventQueue.       *)
(***************************************************************************)
EXTENDS EventQueue

CONSTANTS Caller,        (* application tasks that call exec() and close()  *)
          KA,            (* the keepalive task                              *)
          None,          (* Python's None                                   *)
          Cancellable,   (* the callers the application may cancel          *)
          Hazard,        (* what may go wrong outside: see HazardAssumption *)
          KeepaliveOn,   (* keepalive_interval > 0                          *)
          FloodRetries,  (* flood_retries                                   *)
          MaxCalls       (* bound: exec() calls of each task                *)

\* "drop"    the SSH connection may be lost
\* "half"    the server may end the channel and leave the SSH connection up
\* "stall"   the peer may stop reading, so that drain() suspends
\* "garbage" the receive loop may meet something that makes it raise
ASSUME HazardAssumption == Hazard \subseteq {"drop", "half", "stall", "garbage"}
ASSUME TaskAssumption ==
    /\ KA \notin Caller /\ None \notin Caller \cup {KA}
    /\ Cancellable \subseteq Caller
    /\ KeepaliveOn \in BOOLEAN
    /\ FloodRetries \in Nat /\ MaxCalls \in Nat

Task == Caller \cup {KA}

VARIABLES
    lock,      (* holder of _cmd_lock                                       *)
    waitq,     (* tasks queued for _cmd_lock, FIFO                          *)
    pending,   (* the task whose future is _pending                         *)
    fut,       (* the future each task created in its current _exec_line    *)
    cmd,       (* number of the last command each task wrote                *)
    pc,        (* where each task is suspended                              *)
    intr,      (* the exception each task will find when it resumes         *)
    attempt,   (* flood retries used up by the current exec()               *)
    calls,     (* number of exec() calls made by each task                  *)
    recv,      (* the receive loop: not started, running, ended             *)
    dataBuf,   (* _data_buffer: command numbers of the lines in it          *)
    tclosed,   (* SshTransport._closed                                      *)
    ssh,       (* the asyncssh connection beneath it                        *)
    outbound,  (* written by the client, not yet read by the server         *)
    inbound,   (* sent by the server, not yet read by the receive loop      *)
    nsent      (* number of commands written                                *)

taskVars == <<lock, waitq, pending, fut, cmd, pc, intr, attempt, calls>>
linkVars == <<tclosed, ssh, outbound, inbound, nsent>>
vars == <<queueVars, taskVars, linkVars, recv, dataBuf>>

(***************************************************************************)
(* pc[t]:  "off"      keepalive task not created                           *)
(*         "idle"     no call in progress (the keepalive task: asleep)     *)
(*         "lockwait" in line for _cmd_lock                                *)
(*         "drain"    in send_line(), holding the lock                     *)
(*         "await"    on its future, holding the lock                      *)
(*         "flood"    asleep between two attempts                          *)
(*         "quit"     in close(), sending "quit"                           *)
(*         "wclose"   in close(), in the transport's wait_closed()         *)
(*         "dead"     the task has ended (keepalive task only)             *)
(***************************************************************************)
PCs == {"off", "idle", "lockwait", "drain", "await", "flood", "quit", "wclose", "dead"}

Line(k, n, r) == [k |-> k, n |-> n, r |-> r]
Greet == Line("greet", 0, "none")
Eof == Line("eof", 0, "none")
Bad == Line("bad", 0, "none")
Notify == Line("event", 0, "none")
Verdicts == {"ok", "err", "flood"}
Quit == 0                          (* the "quit" line among the commands    *)

Future(st, data, n, r) == [st |-> st, data |-> data, n |-> n, r |-> r]
NoFuture == Future("none", <<>>, 0, "none")
Unresolved == Future("waiting", <<>>, 0, "none")
\* st: "waiting"; "result" set_result(); "lost" set_exception(); "cancelled"

\* The server has accepted the SSH session and sent none, one or both
\* lines of its greeting.
Init ==
    /\ EQInit
    /\ lock = None /\ waitq = <<>> /\ pending = None
    /\ fut = [t \in Task |-> NoFuture]
    /\ cmd = [t \in Task |-> 0]
    /\ pc = [t \in Task |-> IF t = KA THEN "off" ELSE "idle"]
    /\ intr = [t \in Task |-> "no"]
    /\ attempt = [t \in Task |-> 0]
    /\ calls = [t \in Task |-> 0]
    /\ recv = "new" /\ dataBuf = <<>>
    /\ tclosed = FALSE /\ ssh = "up"
    /\ outbound = <<>> /\ nsent = 0
    /\ inbound \in {<<>>, <<Greet>>, <<Greet, Greet>>}

\* A task that leaves exec() with an exception: a caller may call again, the
\* keepalive loop returns (line 331).
Raised(t) == IF t = KA THEN "dead" ELSE "idle"

-----------------------------------------------------------------------------
(* start() *)

Start ==
    /\ recv = "new"
    /\ Len(inbound) >= 2 /\ inbound[1] = Greet /\ inbound[2] = Greet
    /\ inbound' = Tail(Tail(inbound))
    /\ recv' = "run"
    /\ pc' = [pc EXCEPT ![KA] = IF ~KeepaliveOn THEN "off"
                                ELSE IF closed THEN "dead" ELSE "idle"]
    /\ UNCHANGED <<queueVars, lock, waitq, pending, fut, cmd, intr, attempt, calls,
                   dataBuf, tclosed, ssh, outbound, nsent>>

\* The greeting does not arrive in full: read_line() raises out of start().
StartFails ==
    /\ recv = "new"
    /\ tclosed \/ \E i \in DOMAIN inbound : i <= 2 /\ inbound[i] = Eof
    /\ recv' = "failed"
    /\ tclosed' = TRUE
    /\ UNCHANGED <<queueVars, taskVars, dataBuf, ssh, outbound, inbound, nsent>>

-----------------------------------------------------------------------------
(* exec() and _exec_line() up to the write *)

\* exec() goes to the end of the line for _cmd_lock (asyncio.Lock is FIFO).
\* A session is started before it is used (class docstring).
JoinLine(t) ==
    /\ pc' = [pc EXCEPT ![t] = "lockwait"]
    /\ waitq' = Append(waitq, t)

BeginExec(t) ==
    /\ pc[t] = "idle" /\ intr[t] = "no"
    /\ calls[t] < MaxCalls
    /\ recv \notin {"new", "failed"}
    /\ JoinLine(t)
    /\ calls' = [calls EXCEPT ![t] = @ + 1]
    /\ attempt' = [attempt EXCEPT ![t] = 0]
    /\ UNCHANGED <<queueVars, lock, pending, fut, cmd, intr, linkVars, recv, dataBuf>>

Exec(t) == t \in Caller /\ BeginExec(t)

\* _keepalive_loop: the connection has been idle for keepalive_interval.
KeepaliveDue == ~closed /\ BeginExec(KA)

FirstInLine(t) ==
    /\ pc[t] = "lockwait" /\ intr[t] = "no"
    /\ lock = None
    /\ waitq # <<>> /\ Head(waitq) = t

\* The lock is ours, but the session or the transport is closed.
Refused(t) ==
    /\ FirstInLine(t)
    /\ closed \/ tclosed
    /\ waitq' = Tail(waitq)
    /\ pc' = [pc EXCEPT ![t] = Raised(t)]
    /\ UNCHANGED <<queueVars, lock, pending, fut, cmd, intr, attempt, calls,
                   linkVars, recv, dataBuf>>

\* send_line() may raise when the SSH connection is gone, or has lost its
\* channel although it stands itself.
Broken == ssh \in {"half", "lost"}

\* The write raises; send_line() marks the transport closed.
WriteFails(t) ==
    /\ FirstInLine(t)
    /\ ~closed /\ ~tclosed /\ Broken
    /\ tclosed' = TRUE
    /\ waitq' = Tail(waitq)
    /\ pc' = [pc EXCEPT ![t] = Raised(t)]
    /\ UNCHANGED <<queueVars, lock, pending, fut, cmd, intr, attempt, calls,
                   ssh, outbound, inbound, nsent, recv, dataBuf>>

\* Only a channel the server still reads carries what is written to it.
Written(item) == IF ssh = "up" THEN Append(outbound, item) ELSE outbound

\* drain() may or may not suspend after a write.
AfterWrite == {"await"} \cup (IF "stall" \in Hazard THEN {"drain"} ELSE {})

\* Seeded fault: the closed check made before the lock was taken, not after.
WriteUnchecked(t) ==
    /\ FirstInLine(t)
    /\ ~tclosed
    /\ lock' = t /\ waitq' = Tail(waitq) /\ pending' = t
    /\ fut' = [fut EXCEPT ![t] = Unresolved]
    /\ nsent' = nsent + 1
    /\ cmd' = [cmd EXCEPT ![t] = nsent + 1]
    /\ outbound' = Written(nsent + 1)
    /\ \E next \in AfterWrite : pc' = [pc EXCEPT ![t] = next]
    /\ UNCHANGED <<queueVars, intr, attempt, calls, tclosed, ssh, inbound, recv, dataBuf>>

\* The command is written: the future is _pending from before the write.
Write(t) ==
    /\ FirstInLine(t)
    /\ ~closed /\ ~tclosed
    /\ lock' = t /\ waitq' = Tail(waitq) /\ pending' = t
    /\ fut' = [fut EXCEPT ![t] = Unresolved]
    /\ nsent' = nsent + 1
    /\ cmd' = [cmd EXCEPT ![t] = nsent + 1]
    /\ outbound' = Written(nsent + 1)
    /\ \E next \in AfterWrite : pc' = [pc EXCEPT ![t] = next]
    /\ UNCHANGED <<queueVars, intr, attempt, calls, tclosed, ssh, inbound, recv, dataBuf>>

-----------------------------------------------------------------------------
(* exec() and _exec_line() from the write on *)

\* Seeded fault: no finally clause, _pending stays.
LeavePending(t, next) ==
    /\ lock' = IF lock = t THEN None ELSE lock
    /\ UNCHANGED pending
    /\ fut' = [fut EXCEPT ![t] = NoFuture]
    /\ pc' = [pc EXCEPT ![t] = next]

\* Leave the critical section, if we are in it, and go on to state next: the
\* finally clause clears _pending, the async with releases _cmd_lock.
Leave(t, next) ==
    /\ lock' = IF lock = t THEN None ELSE lock
    /\ pending' = IF lock = t THEN None ELSE pending
    /\ fut' = [fut EXCEPT ![t] = NoFuture]
    /\ pc' = [pc EXCEPT ![t] = next]

Running(t, where) == pc[t] = where /\ intr[t] = "no"

\* drain() returns: wait for the response.
DrainDone(t) ==
    /\ Running(t, "drain")
    /\ ssh \in {"up", "half"}
    /\ pc' = [pc EXCEPT ![t] = "await"]
    /\ UNCHANGED <<queueVars, lock, waitq, pending, fut, cmd, intr, attempt, calls,
                   linkVars, recv, dataBuf>>

\* drain() raises: the SSH connection or its channel went away under it.
DrainFails(t) ==
    /\ Running(t, "drain")
    /\ Broken \/ ssh = "closed"
    /\ tclosed' = TRUE
    /\ Leave(t, Raised(t))
    /\ UNCHANGED <<queueVars, waitq, cmd, intr, attempt, calls, ssh, outbound, inbound,
                   nsent, recv, dataBuf>>

\* Cancelling a task cancels the future it waits on, unless that is done.
Cancelled(f) == IF f.st = "waiting" THEN [f EXCEPT !.st = "cancelled"] ELSE f

\* command_timeout expires.  The task sees it when it next runs, even if the
\* response came in at the last moment: asyncio.timeout cancels the task.
CommandTimeout(t) ==
    /\ Running(t, "await")
    /\ intr' = [intr EXCEPT ![t] = "timeout"]
    /\ fut' = [fut EXCEPT ![t] = Cancelled(@)]
    /\ UNCHANGED <<queueVars, lock, waitq, pending, cmd, pc, attempt, calls,
                   linkVars, recv, dataBuf>>

\* Seeded fault: an attempt more than the configured retries.
RetriesFloodOnceMore(t) == fut[t].r = "flood" /\ attempt[t] <= FloodRetries

\* A flood error is retried until flood_retries are used up.
RetriesFlood(t) == fut[t].r = "flood" /\ attempt[t] < FloodRetries

\* The response is there: return the rows, raise, or sleep before a retry.
Answered(t) ==
    /\ Running(t, "await")
    /\ fut[t].st = "result"
    /\ Leave(t, IF RetriesFlood(t) THEN "flood"
                ELSE IF fut[t].r = "ok" THEN "idle" ELSE Raised(t))
    /\ attempt' = [attempt EXCEPT ![t] = IF RetriesFlood(t) THEN @ + 1 ELSE @]
    /\ UNCHANGED <<queueVars, waitq, cmd, intr, calls, linkVars, recv, dataBuf>>

\* The session was shut down while we waited.
Rejected(t) ==
    /\ Running(t, "await")
    /\ fut[t].st = "lost"
    /\ Leave(t, Raised(t))
    /\ UNCHANGED <<queueVars, waitq, cmd, intr, attempt, calls, linkVars, recv, dataBuf>>

\* The wait the server asked for is over: back in line, behind the others.
FloodRetry(t) ==
    /\ Running(t, "flood")
    /\ JoinLine(t)
    /\ UNCHANGED <<queueVars, lock, pending, fut, cmd, intr, attempt, calls,
                   linkVars, recv, dataBuf>>

\* Seeded fault: a timeout raises and leaves the connection open.
TimesOutOpen(t) ==
    /\ pc[t] = "await" /\ intr[t] = "timeout"
    /\ Leave(t, Raised(t))
    /\ intr' = [intr EXCEPT ![t] = "no"]
    /\ UNCHANGED <<queueVars, waitq, cmd, attempt, calls, linkVars, recv, dataBuf>>

\* A timeout that finds the session closed: close() returns at once.
TimesOutClosed(t) ==
    /\ pc[t] = "await" /\ intr[t] = "timeout"
    /\ closed
    /\ Leave(t, Raised(t))
    /\ intr' = [intr EXCEPT ![t] = "no"]
    /\ UNCHANGED <<queueVars, waitq, cmd, attempt, calls, linkVars, recv, dataBuf>>

\* The application cancels a task inside exec() or close().
CancelCaller(t) ==
    /\ t \in Cancellable
    /\ pc[t] # "idle" /\ intr[t] # "cancel"
    /\ intr' = [intr EXCEPT ![t] = "cancel"]
    /\ fut' = [fut EXCEPT ![t] = IF pc[t] = "await" THEN Cancelled(@) ELSE @]
    /\ UNCHANGED <<queueVars, lock, waitq, pending, cmd, pc, attempt, calls,
                   linkVars, recv, dataBuf>>

\* Out of the line for the lock, if in it.
LeaveLine(t) ==
    \/ pc[t] # "lockwait" /\ UNCHANGED waitq
    \/ \E i \in DOMAIN waitq : waitq[i] = t /\ waitq' = RemoveAt(waitq, i)

\* Seeded fault: acquire() and release() by hand, with no finally clause.
UnwindLocked(t) ==
    /\ intr[t] = "cancel" /\ pc[t] \notin {"off", "dead"}
    /\ pc' = [pc EXCEPT ![t] = Raised(t)]
    /\ LeaveLine(t)
    /\ fut' = [fut EXCEPT ![t] = NoFuture]
    /\ intr' = [intr EXCEPT ![t] = "no"]
    /\ UNCHANGED <<queueVars, lock, pending, cmd, attempt, calls, linkVars, recv, dataBuf>>

\* CancelledError unwinds the task: every async with and finally on the way
\* runs, and nothing else does (suppress(Exception) lets it through).
Unwind(t) ==
    /\ intr[t] = "cancel" /\ pc[t] \notin {"off", "dead"}
    /\ Leave(t, Raised(t))
    /\ LeaveLine(t)
    /\ intr' = [intr EXCEPT ![t] = "no"]
    /\ UNCHANGED <<queueVars, cmd, attempt, calls, linkVars, recv, dataBuf>>

-----------------------------------------------------------------------------
(* _shutdown() and close() *)

\* Seeded fault: _shutdown() forgets the caller that waits for a response.
FailPendingNot == fut

FailPending ==
    IF pending # None /\ fut[pending].st = "waiting"
    THEN [fut EXCEPT ![pending].st = "lost"]
    ELSE fut

\* Seeded fault: the keepalive task is left asleep.
CancelKeepaliveNot(i) == intr' = i

\* _shutdown() cancels the keepalive task, wherever it is; i is intr with
\* the calling task's own change already applied.
CancelKeepalive(i) ==
    intr' = IF pc[KA] \in {"off", "dead"} THEN i ELSE [i EXCEPT ![KA] = "cancel"]

\* close() is called by the application, or by _exec_line() after a timeout.
\* It also cancels the receive loop.  (_shutdown() cancels the keepalive task
\* even when that is the one inside close().)
BeginClose(t) ==
    /\ \/ t \in Caller /\ pc[t] = "idle"
       \/ pc[t] = "await" /\ intr[t] = "timeout"
    /\ CloseStream
    /\ CancelKeepalive([intr EXCEPT ![t] = "no"])
    /\ recv' = IF recv = "run" THEN "cancelled" ELSE recv
    /\ UNCHANGED <<waitq, cmd, attempt, calls, dataBuf, inbound, nsent>>

\* transport.close(), up to its wait_closed()
TransportClose ==
    /\ tclosed' = TRUE
    /\ ssh' = "closed"

\* "quit" is sent without delay.
CloseSends(t) ==
    /\ BeginClose(t)
    /\ ~tclosed /\ ssh # "lost"
    /\ outbound' = Written(Quit)
    /\ TransportClose
    /\ fut' = FailPending
    /\ pc' = [pc EXCEPT ![t] = "wclose"]
    /\ UNCHANGED <<lock, pending>>

\* "quit" is written but the peer does not read: drain() suspends.
CloseStalls(t) ==
    /\ "stall" \in Hazard
    /\ BeginClose(t)
    /\ ~tclosed /\ ssh # "lost"
    /\ outbound' = Written(Quit)
    /\ fut' = FailPending
    /\ pc' = [pc EXCEPT ![t] = "quit"]
    /\ UNCHANGED <<lock, pending, tclosed, ssh>>

\* There is no transport left to send on: it is known to be closed, or the
\* write says so.  Nothing to wait for.
CloseNoQuit(t) ==
    /\ BeginClose(t)
    /\ tclosed \/ Broken
    /\ tclosed' = TRUE
    /\ lock' = IF lock = t THEN None ELSE lock
    /\ pending' = IF lock = t THEN None ELSE pending
    /\ fut' = [FailPending EXCEPT ![t] = NoFuture]
    /\ pc' = [pc EXCEPT ![t] = Raised(t)]
    /\ UNCHANGED <<ssh, outbound>>

\* Seeded fault: the two seconds are over and close() raises TimeoutError.
QuitEndsOpen(t) ==
    /\ Running(t, "quit")
    /\ ~tclosed /\ ssh # "lost"
    /\ Leave(t, Raised(t))
    /\ UNCHANGED <<queueVars, waitq, cmd, intr, attempt, calls, linkVars, recv, dataBuf>>

\* drain() of "quit" returns or the two seconds are over.
QuitEnds(t) ==
    /\ Running(t, "quit")
    /\ ~tclosed /\ ssh # "lost"
    /\ TransportClose
    /\ pc' = [pc EXCEPT ![t] = "wclose"]
    /\ UNCHANGED <<queueVars, lock, waitq, pending, fut, cmd, intr, attempt, calls,
                   outbound, inbound, nsent, recv, dataBuf>>

\* drain() of "quit" raises, or the transport got closed meanwhile.
QuitFails(t) ==
    /\ Running(t, "quit")
    /\ tclosed \/ Broken
    /\ tclosed' = TRUE
    /\ Leave(t, Raised(t))
    /\ UNCHANGED <<queueVars, waitq, cmd, intr, attempt, calls, ssh, outbound, inbound,
                   nsent, recv, dataBuf>>

\* transport.close() returns; so does close(), to the application or to the
\* _exec_line() that timed out.
WaitClosed(t) ==
    /\ Running(t, "wclose")
    /\ Leave(t, Raised(t))
    /\ UNCHANGED <<queueVars, waitq, cmd, intr, attempt, calls, linkVars, recv, dataBuf>>

Close(t) == CloseSends(t) \/ CloseStalls(t) \/ CloseNoQuit(t)

TaskStep(t) ==
    \/ Exec(t) \/ Refused(t) \/ WriteFails(t) \/ Write(t)
    \/ DrainDone(t) \/ DrainFails(t)
    \/ CommandTimeout(t) \/ Answered(t) \/ Rejected(t) \/ FloodRetry(t)
    \/ TimesOutClosed(t) \/ CancelCaller(t) \/ Unwind(t)
    \/ Close(t) \/ QuitEnds(t) \/ QuitFails(t) \/ WaitClosed(t)

-----------------------------------------------------------------------------
(* _recv_loop().  A line that has arrived may be read although the transport *)
(* was closed since: read_line() serves what is buffered first.              *)

Reads(kind) == recv = "run" /\ inbound # <<>> /\ Head(inbound).k = kind

RecvEvent ==
    /\ Reads("event")
    /\ PublishEvent
    /\ inbound' = Tail(inbound)
    /\ UNCHANGED <<taskVars, tclosed, ssh, outbound, nsent, recv, dataBuf>>

RecvData ==
    /\ Reads("data")
    /\ dataBuf' = Append(dataBuf, Head(inbound).n)
    /\ inbound' = Tail(inbound)
    /\ UNCHANGED <<queueVars, taskVars, tclosed, ssh, outbound, nsent, recv>>

\* Seeded fault: the rows of one response leak into the next.
BufferAfterTerminatorKept == dataBuf

BufferAfterTerminator == <<>>

\* The error line completes a response.  It goes to whoever is waiting, with
\* the rows received since the last one; if nobody is, it is dropped.
RecvTerminator ==
    /\ Reads("term")
    /\ fut' = IF pending # None /\ fut[pending].st = "waiting"
              THEN [fut EXCEPT ![pending] =
                      Future("result", dataBuf, Head(inbound).n, Head(inbound).r)]
              ELSE fut
    /\ dataBuf' = BufferAfterTerminator
    /\ inbound' = Tail(inbound)
    /\ UNCHANGED <<queueVars, lock, waitq, pending, cmd, pc, intr, attempt, calls,
                   tclosed, ssh, outbound, nsent, recv>>

\* Seeded fault: consumers are not told.
ShutdownSilent ==
    IF closed THEN UNCHANGED <<queueVars, intr, fut>>
    ELSE /\ closed' = TRUE /\ UNCHANGED <<queue, getters, wstate, published, got>>
         /\ CancelKeepalive(intr) /\ fut' = FailPending

\* _shutdown(), which does nothing when the session is closed already.
Shutdown ==
    IF closed THEN UNCHANGED <<queueVars, intr, fut>>
    ELSE CloseStream /\ CancelKeepalive(intr) /\ fut' = FailPending

\* read_line() raises ConnectionClosedError at the end of the stream.
RecvEnd ==
    /\ recv = "run"
    /\ tclosed \/ Reads("eof")
    /\ tclosed' = TRUE
    /\ recv' = "done"
    /\ Shutdown
    /\ UNCHANGED <<lock, waitq, pending, cmd, pc, attempt, calls, ssh, outbound, inbound,
                   nsent, dataBuf>>

\* Anything else that is raised, by a line that does not parse or by asyncssh,
\* ends the loop and the session, and leaves the transport as it is.
RecvCrash ==
    /\ Reads("bad")
    /\ inbound' = Tail(inbound)
    /\ recv' = "done"
    /\ Shutdown
    /\ UNCHANGED <<lock, waitq, pending, cmd, pc, attempt, calls, tclosed, ssh, outbound,
                   nsent, dataBuf>>

ReceiveLoop == RecvEvent \/ RecvData \/ RecvTerminator \/ RecvEnd \/ RecvCrash

-----------------------------------------------------------------------------
(* The server and the network, as RawConnection relies on them: commands are *)
(* read in order, one response each, and lines are not lost or reordered.    *)

Send(lines) == inbound' = inbound \o lines

\* The two lines of the greeting, if they did not come with the session.
ServerGreets ==
    /\ ssh = "up" /\ recv = "new"
    /\ Len(SelectSeq(inbound, LAMBDA l : l = Greet)) < 2
    /\ Send(<<Greet>>)
    /\ UNCHANGED <<queueVars, taskVars, recv, dataBuf, tclosed, ssh, outbound, nsent>>

\* A successful command returns rows, a failed one only its error line.
ServerAnswers(r) ==
    /\ ssh = "up"
    /\ outbound # <<>> /\ Head(outbound) # Quit
    /\ LET n == Head(outbound) IN
       Send(IF r = "ok" THEN <<Line("data", n, "none"), Line("term", n, r)>>
                        ELSE <<Line("term", n, r)>>)
    /\ outbound' = Tail(outbound)
    /\ UNCHANGED <<queueVars, taskVars, recv, dataBuf, tclosed, ssh, nsent>>

ServerQuits ==
    /\ ssh = "up"
    /\ outbound # <<>> /\ Head(outbound) = Quit
    /\ ssh' = "lost" /\ outbound' = <<>>
    /\ Send(<<Eof>>)
    /\ UNCHANGED <<queueVars, taskVars, recv, dataBuf, tclosed, nsent>>

\* Notifications come once a command has registered for them.
ServerNotifies ==
    /\ ssh = "up" /\ nsent > 0
    /\ published + Len(SelectSeq(inbound, LAMBDA l : l = Notify)) < MaxEvents
    /\ Send(<<Notify>>)
    /\ UNCHANGED <<queueVars, taskVars, recv, dataBuf, tclosed, ssh, outbound, nsent>>

ServerDrops ==
    /\ "drop" \in Hazard
    /\ ssh \in {"up", "half"}
    /\ ssh' = "lost" /\ outbound' = <<>>
    /\ Send(IF ssh = "up" THEN <<Eof>> ELSE <<>>)
    /\ UNCHANGED <<queueVars, taskVars, recv, dataBuf, tclosed, nsent>>

ServerHalfCloses ==
    /\ "half" \in Hazard
    /\ ssh = "up"
    /\ ssh' = "half" /\ outbound' = <<>>
    /\ Send(<<Eof>>)
    /\ UNCHANGED <<queueVars, taskVars, recv, dataBuf, tclosed, nsent>>

ServerGarbles ==
    /\ "garbage" \in Hazard
    /\ ssh = "up" /\ recv = "run" /\ \A i \in DOMAIN inbound : inbound[i] # Bad
    /\ Send(<<Bad>>)
    /\ UNCHANGED <<queueVars, taskVars, recv, dataBuf, tclosed, ssh, outbound, nsent>>

Server ==
    \/ ServerGreets
    \/ \E r \in Verdicts : ServerAnswers(r)
    \/ ServerQuits \/ ServerNotifies
    \/ ServerDrops \/ ServerHalfCloses \/ ServerGarbles

Consume == \E w \in Consumer : ConsumerStep(w) /\ UNCHANGED <<taskVars, linkVars, recv, dataBuf>>

Next ==
    \/ Start \/ StartFails \/ KeepaliveDue
    \/ \E t \in Task : TaskStep(t)
    \/ ReceiveLoop \/ Server \/ Consume

Spec == Init /\ [][Next]_vars

\* The event loop runs what is ready and fires timers that are due, and the
\* receive loop reads what has arrived.  Nothing is assumed of the server, the
\* network or the application, nor that drain() ever returns while the SSH
\* connection stands.
Fairness ==
    /\ \A t \in Task :
        /\ WF_vars(Refused(t) \/ WriteFails(t) \/ Write(t))
        /\ WF_vars(DrainFails(t) /\ ssh # "half")
        /\ WF_vars(CommandTimeout(t) \/ Answered(t) \/ Rejected(t))
        /\ WF_vars(TimesOutClosed(t) \/ (pc[t] = "await" /\ Close(t)))
        /\ WF_vars(Unwind(t) \/ FloodRetry(t))
        /\ WF_vars(QuitEnds(t) \/ QuitFails(t) \/ WaitClosed(t))
    /\ WF_vars(ReceiveLoop)

FairSpec == Spec /\ Fairness

-----------------------------------------------------------------------------
(* Properties *)

Lines == [k : {"greet", "eof", "bad", "event", "data", "term"},
          n : Nat, r : Verdicts \cup {"none"}]
Futures == [st : {"none", "waiting", "result", "lost", "cancelled"},
            data : Seq(Nat), n : Nat, r : Verdicts \cup {"none"}]

SessionTypeOK ==
    /\ lock \in Task \cup {None} /\ pending \in Task \cup {None}
    /\ waitq \in Seq(Task)
    /\ fut \in [Task -> Futures]
    /\ cmd \in [Task -> Nat]
    /\ pc \in [Task -> PCs]
    /\ intr \in [Task -> {"no", "timeout", "cancel"}]
    /\ attempt \in [Task -> 0 .. FloodRetries] /\ calls \in [Task -> 0 .. MaxCalls]
    /\ recv \in {"new", "run", "done", "cancelled", "failed"}
    /\ dataBuf \in Seq(Nat)
    /\ tclosed \in BOOLEAN /\ ssh \in {"up", "half", "lost", "closed"}
    /\ outbound \in Seq(Nat) /\ inbound \in Seq(Lines) /\ nsent \in Nat

\* The state is well formed; no call uses more attempts than flood_retries.
RCTypeOK == EQTypeOK /\ SessionTypeOK

\* The lock is held by exactly one task, from its write to its way out of
\* _exec_line(), close() after a timeout included; _pending is that task's.
InExec(t) == pc[t] \in {"drain", "await"}
LockInv ==
    /\ pending = lock
    /\ \A t \in Task : InExec(t) => lock = t
    /\ lock # None => InExec(lock) \/ (closed /\ pc[lock] \in {"quit", "wclose"})

Outstanding ==
    {n \in 1 .. nsent : \/ \E i \in DOMAIN outbound : outbound[i] = n
                        \/ \E i \in DOMAIN inbound : inbound[i].k = "term" /\ inbound[i].n = n}

\* "exactly one in-flight command per connection; the command lock enforces
\* that" (lines 9-11): while the session is open, at most one command has
\* been written whose response has not been read, whoever timed out.
OneInFlight == ~closed => Cardinality(Outstanding) <= 1

\* A caller is handed the response to its own command, with the rows of that
\* response and no others, although nothing on the wire says whose it is.
ResponseMatches ==
    \A t \in Task : fut[t].st = "result" =>
        /\ fut[t].n = cmd[t]
        /\ fut[t].data = IF fut[t].r = "ok" THEN <<cmd[t]>> ELSE <<>>

\* Nobody waits on a future that has lost the receive loop that would resolve
\* it: every end of the session, wherever it starts, fails the pending one.
AwaitedFutureServed ==
    \A t \in Task : fut[t].st = "waiting" => ~closed /\ recv = "run"

\* Whoever is still asleep, in line or mid-retry when the session closes can
\* neither write another command nor be handed a response.
ClosedIsFinal ==
    [][closed => /\ closed' /\ nsent' = nsent
                 /\ \A t \in Task : fut'[t].st = "result" => fut[t].st = "result"]_vars

\* A closed session does not leave an SSH connection behind, unless close()
\* is still busy saying goodbye; but two ends of a session do, for good: a
\* line that crashed the receive loop, and a channel the server ended alone.
ConnectionReleased ==
    closed => \/ ssh \in {"lost", "closed"} \/ \E t \in Task : pc[t] = "quit"
              \/ recv = "done" /\ ~tclosed
              \/ ssh = "half" /\ tclosed

\* Every exec() and close() returns or raises, whatever the server does, with
\* one exception: drain() is awaited outside the command timeout, so a peer
\* that stops reading holds the task in it and those in line behind it.
EveryCallReturns ==
    \A t \in Caller : []<>(pc[t] = "idle") \/ <>[](\E u \in Task : pc[u] = "drain")

\* Once the session is closed the keepalive task and the receive loop end; the
\* loop outlives only a close() that came before start() was done and was cut
\* short before it reached the transport.
BackgroundEnds == closed ~> pc[KA] \in {"off", "dead"} /\ (recv # "run" \/ ~tclosed)
=============================================================================
