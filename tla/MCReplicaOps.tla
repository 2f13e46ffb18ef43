----------------------------- MODULE MCReplicaOps -----------------------------
(***************************************************************************)
(* The round-robin tables of the mount lines the runs use: "a=b" and        *)
(* "a=b=:c=:d".                                                            *)
(***************************************************************************)
EXTENDS ReplicaOps, TLC

TwoHigh == 0 :> 0 @@ 1 :> 1
NoLow   == <<>>
TwoLow  == 0 :> 2 @@ 1 :> 3

=============================================================================
