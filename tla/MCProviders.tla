---------------------------- MODULE MCProviders ----------------------------
(* Providers for TLC: the first thread always queries claude, the second    *)
(* one is of any kind.                                                      *)
EXTENDS Providers, TLC

CONSTANTS t1, t2

MCKinds == (t1 :> {"claude"}) @@ (t2 :> {"claude", "api", "flow", "ollama", "mock"})
MCPair == (t1 :> {"claude"}) @@ (t2 :> {"claude"})
=============================================================================
