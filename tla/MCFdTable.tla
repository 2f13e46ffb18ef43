------------------------------ MODULE MCFdTable ------------------------------
(***************************************************************************)
(* A mount as do_mount sizes it from a limit of 14 descriptors and two     *)
(* replicas: the table gets (14 - 6) / 2 = 4 slots, and files of replicas  *)
(* get the descriptors 4 .. 13 (/dev/fuse is 3).                           *)
(* The hash sends some descriptors to the last slot, so the search wraps   *)
(* around, and makes others collide.                                       *)
(***************************************************************************)
EXTENDS FdTable

Limit14 == 4 .. 13
HashSpread == [f \in Fds |-> (f \div 2 + 1) % FdBufSize]

=============================================================================
