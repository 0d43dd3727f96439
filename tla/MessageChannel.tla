--------------------------- MODULE MessageChannel ---------------------------
(***************************************************************************)
(* What a session promises about the direction from the server: messages   *)
(* are received whole, once, in the order they were sent; when the session *)
(* is over nothing more is received.                                       *)
(***************************************************************************)
EXTENDS Naturals, Sequences

CONSTANT None

VARIABLES
    underway,  (* sent and not received                                     *)
    received,  (* the message this step received, or None                   *)
    over       (* the session has ended                                     *)

Init == underway = <<>> /\ received = None /\ over = FALSE

Send ==
    /\ Len(underway') > Len(underway)
    /\ SubSeq(underway', 1, Len(underway)) = underway
    /\ received' = None
    /\ UNCHANGED over

Receive ==
    /\ ~over /\ underway # <<>>
    /\ received' = Head(underway) /\ underway' = Tail(underway)
    /\ UNCHANGED over

\* The message is dealt with.
Handle == received' = None /\ UNCHANGED <<underway, over>>

End ==
    /\ ~over /\ over'
    /\ received' = None
    /\ UNCHANGED underway

Next == Send \/ Receive \/ Handle \/ End

Spec == Init /\ [][Next]_<<underway, received, over>>
=============================================================================
