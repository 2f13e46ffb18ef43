------------------------------- MODULE MCMirror -------------------------------
(***************************************************************************)
(* Mirror with the round-robin tables of MCReplicaOps.                     *)
(***************************************************************************)
EXTENDS Mirror, MCReplicaOps

=============================================================================
