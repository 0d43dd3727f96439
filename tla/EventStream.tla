---------------------------- MODULE EventStream ----------------------------
(***************************************************************************)
(* What a connection promises to the consumers of its server events, with  *)
(* no queue, sentinel or future in sight: the events form one stream,      *)
(* numbered in the order the server sent them; each is handed to at most   *)
(* one consumer; they leave the stream oldest first; an event is lost only *)
(* when Capacity events are already unread, and then it is the oldest one. *)
(* EventQueue is shown to implement this module.                           *)
(***************************************************************************)
EXTENDS Naturals

CONSTANTS Consumer,  (* the tasks that pull events                          *)
          Capacity   (* most unread events kept; 0 means no limit           *)

VARIABLES closed,    (* the connection is gone: no event will follow        *)
          published, (* number of events received from the server so far    *)
          consumed,  (* number of events delivered or lost, oldest first    *)
          got        (* got[c]: the last event delivered to c, 0 for none   *)

vars == <<closed, published, consumed, got>>

Unread == published - consumed

\* An arrival (or the end of the stream) costs the oldest unread event if
\* the stream is full, and nothing otherwise.
MakeRoom ==
    consumed' = IF Capacity > 0 /\ Unread >= Capacity THEN consumed + 1
                                                      ELSE consumed

Init ==
    /\ closed = FALSE
    /\ published = 0
    /\ consumed = 0
    /\ got = [c \in Consumer |-> 0]

Publish ==
    /\ ~closed
    /\ MakeRoom
    /\ published' = published + 1
    /\ UNCHANGED <<closed, got>>

Deliver(c) ==
    /\ Unread > 0
    /\ consumed' = consumed + 1
    /\ got' = [got EXCEPT ![c] = consumed + 1]
    /\ UNCHANGED <<closed, published>>

Close ==
    /\ ~closed
    /\ closed' = TRUE
    /\ MakeRoom
    /\ UNCHANGED <<published, got>>

Next ==
    \/ Publish
    \/ \E c \in Consumer : Deliver(c)
    \/ Close

Spec == Init /\ [][Next]_vars
=============================================================================
