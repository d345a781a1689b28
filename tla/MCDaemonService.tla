-------------------------- MODULE MCDaemonService --------------------------
(* DaemonService for TLC: processes are model values; one client starts    *)
(* workflows, the other ones run what users do besides.                    *)
EXTENDS DaemonService, TLC

CONSTANTS c1, c2

MCClients == {c1, c2}
MCCommands ==
  c1 :> {"start", "attach", "status", "list", "states", "query", "pause", "resume"} @@ c2 :> {"abandon"}
MCMaxLines == c1 :> 1 @@ c2 :> 0
============================================================================
