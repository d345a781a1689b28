---------------------------- MODULE MCExitQueue ----------------------------
(* Instances of ExitQueue small enough for TLC. *)
EXTENDS ExitQueue, TLC

CONSTANTS c1, c2, c3, c4

MCChildren == {c1, c2, c3, c4}
\* a success, a failure, a child killed by a signal, another failure
MCStatus == c1 :> [exited |-> TRUE, code |-> 0]
         @@ c2 :> [exited |-> TRUE, code |-> 2]
         @@ c3 :> [exited |-> FALSE, code |-> 0]
         @@ c4 :> [exited |-> TRUE, code |-> 3]
=============================================================================
