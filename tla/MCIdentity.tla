------------------------------ MODULE MCIdentity ------------------------------
(***************************************************************************)
(* Identity with the round-robin tables of MCReplicaOps.  Neither threads  *)
(* nor users are told apart but by what they do.                           *)
(***************************************************************************)
EXTENDS Identity, MCReplicaOps

Symmetry == Permutations(Threads) \cup Permutations(Users)

=============================================================================
