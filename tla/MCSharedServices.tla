-------------------------- MODULE MCSharedServices --------------------------
(* A small instance of SharedServices.                                       *)
EXTENDS SharedServices
=============================================================================
