------------------------------- MODULE Replicas -------------------------------
(***************************************************************************)
(* The replica table built at mount time (conf.c) and the policies every   *)
(* file-system handler of fs.c consults: which replica to ask next         *)
(* (choose_replica), which replicas to disable after an operation          *)
(* (disable_faulty_replicas) and which result to report when none          *)
(* answered (get_first_error).                                             *)
(*                                                                         *)
(* A set of replicas stands for each int array indexed by replica: the     *)
(* `disabled' flags, and the entries of an operation's err_list that are   *)
(* not zero.  err_list[i] is set exactly where fail_cnt is incremented, so *)
(* fail_cnt # 0 iff that set is not empty.                                 *)
(***************************************************************************)
EXTENDS Naturals

CONSTANTS
  MaxReplica,      \* config.max_replica
  MaxHigh,         \* config.max_replica_high
  MaxLow,          \* config.max_replica_low
  RoundRobinHigh,  \* config.round_robin_high: 0..MaxHigh-1 -> replica
  RoundRobinLow    \* config.round_robin_low:  0..MaxLow-1  -> replica

Replicas == 0 .. MaxReplica - 1

HighReplicas == {RoundRobinHigh[i] : i \in 0 .. MaxHigh - 1}
LowReplicas  == {RoundRobinLow[i] : i \in 0 .. MaxLow - 1}

(***************************************************************************)
(* What do_mount leaves behind for a replica list with no empty field and  *)
(* at least one high-priority path: the two tables list every replica      *)
(* once.  (With no high-priority path the first choose_replica divides by  *)
(* zero; see the README.)                                                  *)
(***************************************************************************)
Lists(table, size) ==
  /\ table \in [0 .. size - 1 -> Replicas]
  /\ \A i, j \in 0 .. size - 1 : table[i] = table[j] => i = j

RightTables ==
  /\ MaxHigh \in Nat \ {0} /\ MaxLow \in Nat /\ MaxReplica = MaxHigh + MaxLow
  /\ Lists(RoundRobinHigh, MaxHigh) /\ Lists(RoundRobinLow, MaxLow)
  /\ HighReplicas \cup LowReplicas = Replicas
  /\ HighReplicas \cap LowReplicas = {}

ASSUME TableAssumption == RightTables

-----------------------------------------------------------------------------

(* Mutants: the attempt number is not added to the turn; the last high      *)
(* replica is left out.                                                    *)
ChosenReplicaSame(try, high, low) ==
  IF try < MaxHigh
    THEN RoundRobinHigh[high % MaxHigh]
    ELSE RoundRobinLow[(low + try - MaxHigh) % MaxLow]
ChosenReplicaEarlyLow(try, high, low) ==
  IF try + 1 < MaxHigh \/ MaxLow = 0
    THEN RoundRobinHigh[(high + try) % MaxHigh]
    ELSE RoundRobinLow[(low + try + 1 - MaxHigh) % MaxLow]

(* choose_replica, the part that reads the two turns: attempt number try    *)
(* (0-based) goes round the high-priority table, then round the low one.   *)
ChosenReplica(try, high, low) ==
  IF try < MaxHigh
    THEN RoundRobinHigh[(high + try) % MaxHigh]
    ELSE RoundRobinLow[(low + try - MaxHigh) % MaxLow]

(* choose_replica, the part that moves a turn: the high one on the first    *)
(* attempt of an operation, the low one when the high table is exhausted.  *)
TurnMoves(try) == try = 0 \/ (try = MaxHigh /\ MaxLow > 0)
NextTurnPastEnd(turn, size) == (turn + 1) % (size + 1)
NextTurn(turn, size) == (turn + 1) % size

(* The test of disable_faulty_replicas: `if (fail_cnt && succ_cnt)'.        *)
PartialSuccessAnyFail(took, failed) == failed # {}
PartialSuccess(took, failed) == took # {} /\ failed # {}

(* Mutant: the test of `disabled' inverted.                                 *)
GetFirstErrorInverted(disabled, failed) ==
  IF failed \cap disabled # {} THEN "error" ELSE "ok"

(* get_first_error: an error that a replica still enabled reported, or 0.   *)
GetFirstError(disabled, failed) ==
  IF failed \ disabled # {} THEN "error" ELSE "ok"

=============================================================================
