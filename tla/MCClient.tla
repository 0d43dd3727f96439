------------------------------ MODULE MCClient ------------------------------
(* Client on small instances.  The delays are chosen so that the backoff    *)
(* meets its cap on a value that is no power of two.                        *)
EXTENDS Client

MCSetup == <<"session", "greeting", "clientupdate", "servernotifyregister">>
MCHandlerCount == [name \in {"a", "b", "*"} |->
    CASE name = "a" -> 2 [] name = "b" -> 0 [] name = "*" -> 1]

(* Each deviation from how the documentation has a client used alone, and   *)
(* all of them together.                                                    *)
MCEarly == {{"early"}}
MCReady == {{"ready"}}
MCUsages == {{}, {"early"}, {"ready"}, {"shared", "early", "ready"}}
=============================================================================
