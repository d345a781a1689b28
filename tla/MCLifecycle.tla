---------------------------- MODULE MCLifecycle ----------------------------
(* A small instance of Lifecycle: roles with neighbouring port ranges.       *)
EXTENDS Lifecycle, TLC

CONSTANTS builder, analysis

MCRoles == {builder, analysis}
MCOffset == builder :> 0 @@ analysis :> PortsPerRole
Symmetry == Permutations(Names)
=============================================================================
