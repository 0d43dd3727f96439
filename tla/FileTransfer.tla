---------------------------- MODULE FileTransfer ----------------------------
(***************************************************************************)
(* upload() and download() of src/src/atsq/filetransfer.py: a query        *)
(* command hands out a key and a port, then a TCP connection of its own    *)
(* carries the key and the bytes.  One application task calls them, one    *)
(* after the other, for one file: it uploads, resumes an upload that did   *)
(* not get through, downloads.  Timeout, cancellation, the socket and the  *)
(* file server run interleaved with it.                                    *)
(*                                                                         *)
(* What is written waits in the buffer of the asyncio transport (unsent),  *)
(* then in the buffers of the two kernels (flight), until the server reads *)
(* it.  drain() waits for the first, never for the second.                 *)
(***************************************************************************)
EXTENDS Naturals, Sequences

CONSTANTS
    Payload,     (* what may be uploaded: sequences of bytes                *)
    Key,         (* the ftkey on the wire                                   *)
    HighWater,   (* most the transport may hold for drain() to return       *)
    SockBuf,     (* what the kernels take before the server reads           *)
    Hazard,      (* "reset": the connection may be reset; "short": the      *)
                 (* server may end a download early                         *)
    MaxCalls     (* bound: transfers                                        *)

Byte == UNION {{data[i] : i \in DOMAIN data} : data \in Payload}

ASSUME TransferAssumption ==
    /\ Payload \subseteq Seq(Byte) /\ Key \notin Byte
    /\ HighWater \in Nat /\ SockBuf \in Nat /\ MaxCalls \in Nat
    /\ Hazard \subseteq {"reset", "short"}

VARIABLES
    pc,        (* where the call is suspended                               *)
    op,        (* the call in progress, or the last one                     *)
    outcome,   (* what it returns or raises, once that is decided           *)
    row,       (* the server's answer to the ftinit command                 *)
    timer,     (* asyncio.timeout(): "off", "armed" or "fired"              *)
    chan,      (* the data channel: "none", "up", "eof" after the server    *)
               (* closed its end, "lost" after a reset                      *)
    wclosed,   (* writer.close() was called                                 *)
    eofSent,   (* writer.write_eof() was called                             *)
    unsent,    (* in the transport's write buffer                           *)
    flight,    (* in the kernels, on the way to the server                  *)
    rcvd,      (* in the StreamReader                                       *)
    serving,   (* the server: "none", has given out a "key", serves "up"    *)
               (* or "down"                                                 *)
    file,      (* the file on the server                                    *)
    intended,  (* history: the data of the last upload that began the file  *)
    calls      (* number of calls made                                      *)

callVars == <<pc, op, outcome, row, timer>>
sockVars == <<chan, wclosed, eofSent, unsent, flight, rcvd>>
serverVars == <<serving, file, intended>>
vars == <<callVars, sockVars, serverVars, calls>>

Kinds == {"up", "down"}
Outcomes == {"none", "ok", "refused", "oserror", "reset", "short", "timeout", "cancelled"}
Call(kind, data, resume) == [kind |-> kind, data |-> data, resume |-> resume]

Init ==
    /\ pc = "idle" /\ op = Call("down", <<>>, FALSE) /\ outcome = "none"
    /\ row = [kind |-> "down", size |-> 0, seekpos |-> 0]
    /\ timer = "off"
    /\ chan = "none" /\ wclosed = TRUE /\ eofSent = FALSE
    /\ unsent = <<>> /\ flight = <<>> /\ rcvd = <<>>
    /\ serving = "none" /\ file = <<>> /\ intended = <<>>
    /\ calls = 0

-----------------------------------------------------------------------------
(* _init(): the query command *)

\* Only an upload of the same data is resumed, which the code leaves to the
\* application to see to.
Begin(c) ==
    /\ pc = "idle" /\ calls < MaxCalls
    /\ c.resume => c.data = intended
    /\ pc' = "init" /\ op' = c /\ outcome' = "none" /\ timer' = "off"
    /\ calls' = calls + 1
    /\ UNCHANGED <<row, sockVars, serverVars>>

Upload == \E data \in Payload, resume \in BOOLEAN : Begin(Call("up", data, resume))
Download == Begin(Call("down", <<>>, FALSE))

\* The server answers with key, port and size or seekpos.  It has one
\* transfer of a file at a time.  The timeout starts.
Granted ==
    /\ pc = "init"
    /\ chan = "none" /\ flight = <<>>
    /\ serving' = "key"
    /\ IF op.kind = "up" /\ ~op.resume THEN file' = <<>> /\ intended' = op.data
                                       ELSE UNCHANGED <<file, intended>>
    /\ row' = [kind |-> op.kind,
               size |-> IF op.kind = "up" THEN Len(op.data) ELSE Len(file),
               seekpos |-> IF op.resume THEN Len(file) ELSE 0]
    /\ pc' = "dial" /\ timer' = "armed"
    /\ UNCHANGED <<op, outcome, sockVars, calls>>

\* exec() raises, or the row has a status in place of a key.
Refused ==
    /\ pc = "init"
    /\ pc' = "idle" /\ outcome' = "refused"
    /\ UNCHANGED <<op, row, timer, sockVars, serverVars, calls>>

-----------------------------------------------------------------------------
(* The data channel *)

\* Seeded fault: a resumed upload starts over.
RemainingAll == op.data

Remaining == SubSeq(op.data, row.seekpos + 1, Len(op.data))

\* The connection is made; key and data are written and drain() called.
Dialed ==
    /\ pc = "dial"
    /\ chan' = "up" /\ wclosed' = FALSE /\ eofSent' = FALSE
    /\ unsent' = <<Key>> \o (IF op.kind = "up" THEN Remaining ELSE <<>>)
    /\ rcvd' = <<>>
    /\ pc' = "drain"
    /\ UNCHANGED <<op, outcome, row, timer, flight, serverVars, calls>>

DialFails ==
    /\ pc = "dial"
    /\ pc' = "idle" /\ outcome' = "oserror"
    /\ UNCHANGED <<op, row, timer, sockVars, serverVars, calls>>

\* Seeded fault: nobody waits for the buffer.
DrainedAtOnce == TRUE

Drained == Len(unsent) <= HighWater

\* drain() returns; an upload announces its end.
DrainDone ==
    /\ pc = "drain" /\ chan # "lost" /\ Drained
    /\ eofSent' = (op.kind = "up")
    /\ pc' = "read"
    /\ UNCHANGED <<op, outcome, row, timer, chan, wclosed, unsent, flight, rcvd, serverVars,
                   calls>>

\* Seeded fault: the channel is closed only when all went well.
FinishIfOk(result) ==
    /\ outcome' = result
    /\ IF result = "ok" THEN pc' = "closing" /\ wclosed' = TRUE
                        ELSE pc' = "idle" /\ UNCHANGED wclosed

\* The try block is left: the finally clause closes the channel and waits.
Finish(result) ==
    /\ outcome' = result
    /\ pc' = "closing" /\ wclosed' = TRUE

\* Seeded fault: read() in place of readexactly().
ReadResultAny ==
    IF chan = "eof" THEN {"ok"} ELSE IF chan = "lost" THEN {"reset"} ELSE {}

\* read() to the end of the stream; readexactly() to the size announced.
ReadResult ==
    {result \in {"ok", "short", "reset"} :
        CASE result = "ok"    -> IF op.kind = "up" THEN chan = "eof" ELSE Len(rcvd) = row.size
          [] result = "short" -> op.kind = "down" /\ chan = "eof" /\ Len(rcvd) < row.size
          [] OTHER            -> chan = "lost"}

ReadDone ==
    /\ pc = "read"
    /\ \E result \in ReadResult : Finish(result)
    /\ UNCHANGED <<op, row, timer, chan, eofSent, unsent, flight, rcvd, serverVars, calls>>

\* drain() raises after a reset.
DrainFails ==
    /\ pc = "drain" /\ chan = "lost"
    /\ Finish("reset")
    /\ UNCHANGED <<op, row, timer, chan, eofSent, unsent, flight, rcvd, serverVars, calls>>

\* Seeded fault: the timeout covers the dialling only.
TimedDialOnly == {"dial"}

Timed == {"dial", "drain", "read", "closing"}

\* CancelledError, at whatever the call is suspended on; in wait_closed() it
\* leaves the channel to be closed behind the call's back.
Interrupted(result) ==
    \/ pc \in {"init", "dial", "closing"} /\ pc' = "idle" /\ outcome' = result
       /\ UNCHANGED wclosed
    \/ pc \in {"drain", "read"} /\ Finish(result)

\* The timeout expires.  It does so once.
Timeout ==
    /\ timer = "armed" /\ pc \in Timed
    /\ timer' = "fired"
    /\ Interrupted("timeout")
    /\ UNCHANGED <<op, row, chan, eofSent, unsent, flight, rcvd, serverVars, calls>>

CancelCall ==
    /\ pc # "idle"
    /\ Interrupted("cancelled")
    /\ UNCHANGED <<op, row, timer, chan, eofSent, unsent, flight, rcvd, serverVars, calls>>

\* wait_closed() returns when the buffer is empty, or raises after a reset,
\* in place of whatever was being returned or raised.
WaitClosed ==
    /\ pc = "closing"
    /\ unsent = <<>> \/ chan = "lost"
    /\ outcome' = IF chan = "lost" THEN "reset" ELSE outcome
    /\ pc' = "idle" /\ chan' = "none"
    /\ UNCHANGED <<op, row, timer, wclosed, eofSent, unsent, flight, rcvd, serverVars, calls>>

-----------------------------------------------------------------------------
(* The socket *)

\* The transport hands on what the kernel takes.
Flush ==
    /\ chan \in {"up", "eof"}
    /\ unsent # <<>> /\ Len(flight) < SockBuf
    /\ flight' = Append(flight, Head(unsent))
    /\ unsent' = Tail(unsent)
    /\ UNCHANGED <<callVars, chan, wclosed, eofSent, rcvd, serverVars, calls>>

\* A channel nobody waits for any more is closed once it is flushed.
ClosedBehind ==
    /\ pc \in {"idle", "init"} /\ chan # "none" /\ wclosed
    /\ unsent = <<>> \/ chan = "lost"
    /\ chan' = "none"
    /\ UNCHANGED <<callVars, wclosed, eofSent, unsent, flight, rcvd, serverVars, calls>>

Reset ==
    /\ "reset" \in Hazard
    /\ chan \in {"up", "eof"}
    /\ chan' = "lost" /\ unsent' = <<>> /\ flight' = <<>>
    /\ UNCHANGED <<callVars, wclosed, eofSent, rcvd, serverVars, calls>>

-----------------------------------------------------------------------------
(* The file server *)

ServerReads ==
    /\ flight # <<>>
    /\ flight' = Tail(flight)
    /\ IF Head(flight) = Key
       THEN serving' = row.kind /\ UNCHANGED file
       ELSE /\ file' = IF Len(file) < row.size THEN Append(file, Head(flight)) ELSE file
            /\ UNCHANGED serving
    /\ UNCHANGED <<callVars, chan, wclosed, eofSent, unsent, rcvd, intended, calls>>

\* "The server closes the socket once it accepted all bytes" (line 90), or
\* when no more will come.
UploadEnds ==
    /\ serving = "up" /\ chan = "up"
    /\ \/ Len(file) = row.size
       \/ eofSent /\ unsent = <<>> /\ flight = <<>>
    /\ chan' = "eof"
    /\ UNCHANGED <<callVars, wclosed, eofSent, unsent, flight, rcvd, serverVars, calls>>

ServerSends ==
    /\ serving = "down" /\ chan = "up" /\ ~wclosed
    /\ Len(rcvd) < row.size
    /\ rcvd' = Append(rcvd, file[Len(rcvd) + 1])
    /\ UNCHANGED <<callVars, chan, wclosed, eofSent, unsent, flight, serverVars, calls>>

DownloadEnds ==
    /\ serving = "down" /\ chan = "up"
    /\ Len(rcvd) = row.size \/ "short" \in Hazard
    /\ chan' = "eof"
    /\ UNCHANGED <<callVars, wclosed, eofSent, unsent, flight, rcvd, serverVars, calls>>

-----------------------------------------------------------------------------
Transfer ==
    \/ Granted \/ Refused
    \/ Dialed \/ DialFails
    \/ DrainDone \/ DrainFails
    \/ ReadDone \/ WaitClosed

Socket == Flush \/ ClosedBehind \/ Reset
Server == ServerReads \/ UploadEnds \/ ServerSends \/ DownloadEnds
Next == Upload \/ Download \/ Transfer \/ Timeout \/ CancelCall \/ Socket \/ Server

Spec == Init /\ [][Next]_vars

\* The event loop runs what is ready, the timer fires, the transport flushes
\* what the kernel takes, exec() returns (RawConnection, EveryCallReturns).
\* Nothing is assumed of the file server: it may never read or close.
Fairness ==
    /\ WF_vars(Granted \/ Refused)
    /\ WF_vars(DrainDone \/ DrainFails \/ ReadDone)
    /\ WF_vars(WaitClosed)
    /\ WF_vars(Timeout)
    /\ WF_vars(Flush)

FairSpec == Spec /\ Fairness

-----------------------------------------------------------------------------
(* Properties *)

\* The state is well formed; and an upload goes on to wait for the server only
\* when the network has taken it, all but HighWater bytes.
FTTypeOK ==
    /\ pc \in {"idle", "init", "dial", "drain", "read", "closing"}
    /\ op \in [kind : Kinds, data : Payload \cup {<<>>}, resume : BOOLEAN]
    /\ outcome \in Outcomes
    /\ row \in [kind : Kinds, size : Nat, seekpos : Nat]
    /\ timer \in {"off", "armed", "fired"}
    /\ chan \in {"none", "up", "eof", "lost"} /\ wclosed \in BOOLEAN /\ eofSent \in BOOLEAN
    /\ unsent \in Seq(Byte \cup {Key}) /\ flight \in Seq(Byte \cup {Key})
    /\ Len(flight) <= SockBuf
    /\ pc = "read" => Len(unsent) <= HighWater
    /\ rcvd \in Seq(Byte) /\ file \in Seq(Byte) /\ intended \in Seq(Byte)
    /\ serving \in {"none", "key", "up", "down"} /\ calls \in 0 .. MaxCalls

\* However many attempts were reset, timed out or were cancelled, and at
\* whichever byte each was resumed: an upload that returns has put exactly
\* its data on the server, the server being as line 90 has it.
UploadComplete == op.kind = "up" /\ outcome = "ok" => file = op.data

\* A download that returns has every byte of the file and no other, although
\* the server may end early or reset the connection at any byte.
DownloadExact == op.kind = "down" /\ outcome = "ok" => rcvd = file

\* No way out of a transfer leaves its data channel open behind it.
ChannelClosed == pc = "idle" => chan = "none" \/ wclosed

\* Every transfer returns or raises, whatever the file server does: what can
\* hang is covered by the timeout.
TransferReturns == pc # "idle" ~> pc = "idle"
=============================================================================
