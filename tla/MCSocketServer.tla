--------------------------- MODULE MCSocketServer ---------------------------
(* A small instance of SocketServer: two clients send, all of them come and go. *)
EXTENDS SocketServer, TLC

CONSTANTS c1, c2, c3

MCClients == {c1, c2, c3}
MCMaxInbox == (c1 :> 1) @@ (c2 :> 1) @@ (c3 :> 0)
=============================================================================
