------------------------------ MODULE ReplicaOps ------------------------------
(***************************************************************************)
(* The request handlers of fs.c, run by the worker threads of the FUSE     *)
(* main loop over the shared, unlocked `config'.  A request goes through   *)
(* one or more attempts, each on one replica, then disables the replicas   *)
(* that failed where another succeeded, then replies.                      *)
(*                                                                         *)
(* One action is one access to the shared state, or one system call: an    *)
(* attempt first tests `disabled', and another thread may set it before    *)
(* the call.  System calls fail, and memory runs out, at any time.         *)
(*                                                                         *)
(* With -s, FUSE serves requests one at a time: that is one thread.        *)
(***************************************************************************)
EXTENDS Replicas, Handlers

CONSTANT Threads  \* the worker threads of FUSE; one with -s

VARIABLES
  disabled,       \* replicas with config.replicas[i].disabled # 0
  currHigh,       \* config.curr_replica_high
  currLow,        \* config.curr_replica_low
  pc,             \* where each thread is in its handler
  op,             \* the handler's profile
  try,            \* the loop counter i of the handler
  local,          \* choose_replica: the turn loaded, then the replica chosen
  took,           \* replicas whose call succeeded; succ_cnt # 0 iff not empty
  short,          \* those of them that took a part of the request
  failed,         \* replicas with err_list[i] # 0
  passed,         \* replicas passed over because xlate gave NULL
  ret,            \* class of the last value returned to FUSE
  missed          \* history: replicas that lack an update another one took

shared == <<disabled, currHigh, currLow>>
work   == <<op, took, short, failed, passed>>
vars   == <<shared, pc, try, local, work, ret, missed>>

NoOp == [Reader EXCEPT !.loop = "none"]

Results == {"none", "ok", "error", "refused", "nosys", "emfile"}

TypeOK ==
  /\ disabled \subseteq Replicas
  /\ currHigh \in 0 .. MaxHigh - 1
  /\ currLow \in Nat /\ (MaxLow > 0 => currLow < MaxLow)
  /\ pc \in [Threads -> {"idle", "load", "store", "choose", "attempt", "call", "sweep"}]
  /\ op \in [Threads -> Handlers \cup {NoOp}]
  /\ try \in [Threads -> 0 .. MaxReplica]
  /\ local \in [Threads -> Nat]
  /\ took \in [Threads -> SUBSET Replicas]
  /\ short \in [Threads -> SUBSET Replicas]
  /\ failed \in [Threads -> SUBSET Replicas]
  /\ passed \in [Threads -> SUBSET Replicas]
  /\ ret \in [Threads -> Results]
  /\ missed \subseteq Replicas

(* `config' as initialised at fs.c:21-36 and by do_mount.                   *)
Init ==
  /\ disabled = {}
  /\ currHigh = 0 /\ currLow = 0
  /\ pc = [t \in Threads |-> "idle"]
  /\ op = [t \in Threads |-> NoOp]
  /\ try = [t \in Threads |-> 0]
  /\ local = [t \in Threads |-> 0]
  /\ took = [t \in Threads |-> {}]
  /\ short = [t \in Threads |-> {}]
  /\ failed = [t \in Threads |-> {}]
  /\ passed = [t \in Threads |-> {}]
  /\ ret = [t \in Threads |-> "none"]
  /\ missed = {}

-----------------------------------------------------------------------------

(* Mutant of GoTo: the loop runs while i <= max_replica.                    *)
GoToPastEnd(t, h, n) ==
  /\ try' = [try EXCEPT ![t] = n]
  /\ pc' = [pc EXCEPT ![t] =
       IF n > MaxReplica THEN "sweep"
       ELSE IF h.loop = "all" THEN "attempt"
       ELSE IF TurnMoves(n) THEN "load" ELSE "choose"]
  /\ local' = [local EXCEPT ![t] = 0]

(* Enter attempt number n of handler h, or leave the loop after the last.   *)
(* A "first" loop enters each attempt through choose_replica.              *)
GoTo(t, h, n) ==
  /\ try' = [try EXCEPT ![t] = IF n = MaxReplica THEN 0 ELSE n]
  /\ pc' = [pc EXCEPT ![t] =
       IF n = MaxReplica THEN "sweep"
       ELSE IF h.loop = "all" THEN "attempt"
       ELSE IF TurnMoves(n) THEN "load" ELSE "choose"]
  /\ local' = [local EXCEPT ![t] = 0]

(* FUSE hands a request to t.  The head of every handler: counters and      *)
(* err_list cleared.                                                       *)
Begin(t, h) ==
  /\ pc[t] = "idle"
  /\ op' = [op EXCEPT ![t] = h]
  /\ ret' = [ret EXCEPT ![t] = "none"]
  /\ GoTo(t, h, 0)
  /\ UNCHANGED <<shared, took, short, failed, passed, missed>>

(* The handler gives up at its head: -ENOMEM from calloc, or -EINVAL for a  *)
(* descriptor-table slot that is empty.                                    *)
Refuse(t) ==
  /\ pc[t] = "idle"
  /\ ret' = [ret EXCEPT ![t] = "refused"]
  /\ UNCHANGED <<shared, pc, try, local, work, missed>>

(* choose_replica loads the turn it is about to move...                     *)
LoadTurn(t) ==
  /\ pc[t] = "load"
  /\ local' = [local EXCEPT ![t] = IF try[t] = 0 THEN currHigh ELSE currLow]
  /\ pc' = [pc EXCEPT ![t] = "store"]
  /\ UNCHANGED <<shared, try, work, ret, missed>>

(* ... stores the next one...                                              *)
StoreTurn(t) ==
  /\ pc[t] = "store"
  /\ IF try[t] = 0
       THEN currHigh' = NextTurn(local[t], MaxHigh) /\ UNCHANGED currLow
       ELSE currLow' = NextTurn(local[t], MaxLow) /\ UNCHANGED currHigh
  /\ pc' = [pc EXCEPT ![t] = "choose"]
  /\ local' = [local EXCEPT ![t] = 0]
  /\ UNCHANGED <<disabled, try, work, ret, missed>>

(* ... and reads it again to pick a replica.                               *)
Choose(t) ==
  /\ pc[t] = "choose"
  /\ local' = [local EXCEPT ![t] = ChosenReplica(try[t], currHigh, currLow)]
  /\ pc' = [pc EXCEPT ![t] = "attempt"]
  /\ UNCHANGED <<shared, try, work, ret, missed>>

(* The replica of the current iteration.                                   *)
Target(t) == IF op[t].loop = "first" THEN local[t] ELSE try[t]

NextIteration(t) == GoTo(t, op[t], try[t] + 1)

(* Past the test of `disabled', which is not made again.                   *)
Trying(t, r) == pc[t] = "call" /\ r = Target(t)

(* Mutant of SkipDisabled: `continue' without the increment.               *)
SkipDisabledStuck(t) == pc[t] = "attempt" /\ Target(t) \in disabled /\ UNCHANGED vars

(* Another mutant: a reader asks choose_replica again for the same attempt. *)
SkipDisabledRetries(t) ==
  /\ pc[t] = "attempt" /\ Target(t) \in disabled
  /\ GoTo(t, op[t], try[t])
  /\ UNCHANGED <<shared, work, ret, missed>>

(* `continue' on a disabled replica.                                       *)
SkipDisabled(t) ==
  /\ pc[t] = "attempt" /\ Target(t) \in disabled
  /\ NextIteration(t)
  /\ UNCHANGED <<shared, work, ret, missed>>

(* The replica is in use: it is asked.                                     *)
Test(t) ==
  /\ pc[t] = "attempt" /\ Target(t) \notin disabled
  /\ pc' = [pc EXCEPT ![t] = "call"]
  /\ UNCHANGED <<shared, try, local, work, ret, missed>>

(* xlate gave NULL.                                                        *)
NoPath(t, r) ==
  /\ Trying(t, r) /\ op[t].xlate # "none"
  /\ IF op[t].xlate = "fail"
       THEN failed' = [failed EXCEPT ![t] = @ \cup {r}] /\ UNCHANGED passed
       ELSE passed' = [passed EXCEPT ![t] = @ \cup {r}] /\ UNCHANGED failed
  /\ NextIteration(t)
  /\ UNCHANGED <<shared, op, took, short, ret, missed>>

(* The system call failed: err_list[r] = -errno.                           *)
CallFails(t, r) ==
  /\ Trying(t, r) /\ ~op[t].rejects
  /\ failed' = [failed EXCEPT ![t] = @ \cup {r}]
  /\ NextIteration(t)
  /\ UNCHANGED <<shared, op, took, short, passed, ret, missed>>

(* Mutant: the first success ends every loop.                              *)
CallSucceedsBreaks(t, r, partly) ==
  /\ Trying(t, r) /\ ~op[t].rejects /\ (partly => op[t].short)
  /\ took' = [took EXCEPT ![t] = @ \cup {r}]
  /\ short' = [short EXCEPT ![t] = IF partly THEN @ \cup {r} ELSE @]
  /\ GoTo(t, op[t], MaxReplica)
  /\ UNCHANGED <<shared, op, failed, passed, ret, missed>>

(* The system call succeeded, perhaps for a part of the request; the first  *)
(* success ends a "first" loop.                                            *)
CallSucceeds(t, r, partly) ==
  /\ Trying(t, r) /\ ~op[t].rejects /\ (partly => op[t].short)
  /\ took' = [took EXCEPT ![t] = @ \cup {r}]
  /\ short' = [short EXCEPT ![t] = IF partly THEN @ \cup {r} ELSE @]
  /\ GoTo(t, op[t], IF op[t].loop = "first" THEN MaxReplica ELSE try[t] + 1)
  /\ UNCHANGED <<shared, op, failed, passed, ret, missed>>

(* Mutant of Sweep: it starts at replica 1.                                *)
SweepFromOne(t) ==
  /\ pc[t] = "sweep" /\ try[t] < MaxReplica
  /\ PartialSuccess(took[t], failed[t])
  /\ disabled' = IF try[t] \in failed[t] \ {0} THEN disabled \cup {try[t]} ELSE disabled
  /\ try' = [try EXCEPT ![t] = @ + 1]
  /\ UNCHANGED <<currHigh, currLow, pc, local, work, ret, missed>>

(* disable_faulty_replicas, one iteration: disable_replica(i) if it failed. *)
Sweep(t) ==
  /\ pc[t] = "sweep" /\ try[t] < MaxReplica
  /\ PartialSuccess(took[t], failed[t])
  /\ disabled' = IF try[t] \in failed[t] THEN disabled \cup {try[t]} ELSE disabled
  /\ try' = [try EXCEPT ![t] = @ + 1]
  /\ UNCHANGED <<currHigh, currLow, pc, local, work, ret, missed>>

(* The thread leaves its handler with result r.                            *)
Return(t, r) ==
  /\ ret' = [ret EXCEPT ![t] = r]
  /\ pc' = [pc EXCEPT ![t] = "idle"]
  /\ op' = [op EXCEPT ![t] = NoOp]
  /\ try' = [try EXCEPT ![t] = 0]
  /\ took' = [took EXCEPT ![t] = {}]
  /\ short' = [short EXCEPT ![t] = {}]
  /\ failed' = [failed EXCEPT ![t] = {}]
  /\ passed' = [passed EXCEPT ![t] = {}]
  /\ local' = [local EXCEPT ![t] = 0]
  /\ UNCHANGED shared

(* mknod of anything but a file or a FIFO: -ENOSYS, from inside the loop.   *)
Unsupported(t, r) ==
  /\ Trying(t, r) /\ op[t].rejects
  /\ Return(t, "nosys")
  /\ UNCHANGED missed

(* The tail of every handler.  open and create may find tab_fd full.       *)
Reply(t) ==
  /\ pc[t] = "sweep"
  /\ try[t] = MaxReplica \/ ~PartialSuccess(took[t], failed[t])
  /\ \/ took[t] = {} /\ Return(t, GetFirstError(disabled, failed[t]))
     \/ took[t] # {} /\ Return(t, "ok")
     \/ took[t] # {} /\ op[t].table /\ Return(t, "emfile")
  /\ missed' = IF op[t].updates /\ took[t] # {}
       THEN missed \cup (Replicas \ (took[t] \cup passed[t])) ELSE missed

-----------------------------------------------------------------------------

Attempt(t) ==
  \/ SkipDisabled(t) \/ Test(t)
  \/ \E r \in Replicas :
       \/ NoPath(t, r)
       \/ CallFails(t, r)
       \/ \E partly \in BOOLEAN : CallSucceeds(t, r, partly)
       \/ Unsupported(t, r)

(* What a thread does by itself once it serves a request.                  *)
Step(t) ==
  \/ LoadTurn(t) \/ StoreTurn(t) \/ Choose(t) \/ Attempt(t) \/ Sweep(t) \/ Reply(t)

Next == \E t \in Threads : (\E h \in Handlers : Begin(t, h)) \/ Refuse(t) \/ Step(t)

Spec == Init /\ [][Next]_vars

(* The scheduler runs every worker thread and system calls return.         *)
FairSpec == Spec /\ \A t \in Threads : WF_vars(Step(t))

-----------------------------------------------------------------------------
(***************************************************************************)
(* Properties of any number of worker threads.                             *)
(***************************************************************************)

(* A replica that lacks an update another replica took is disabled by the   *)
(* time the update is answered, and stays so: no later request reads its   *)
(* stale data.  (Updates passed over or taken in part are the exception:    *)
(* Mirror says what they break.)                                           *)
MissedUpdateDisables == missed \subseteq disabled

(* A replica that fails an update which succeeds on some replica is         *)
(* eventually disabled, whoever else disables it or others meanwhile.      *)
FailedUpdateIsDisabled ==
  \A t \in Threads, r \in Replicas :
    (pc[t] = "sweep" /\ op[t].updates /\ r \in failed[t] /\ took[t] # {}) ~> r \in disabled

(* Every request is answered, however the replicas fail and whatever the    *)
(* other threads do to the turns and to the flags during its loop.         *)
EveryRequestReplies == \A t \in Threads : pc[t] # "idle" ~> pc[t] = "idle"

(* Whatever the turns do under a request's feet, the replica it asks is one *)
(* of the table: config.replicas and err_list are indexed inside.          *)
AttemptsInTable ==
  \A t \in Threads : pc[t] \in {"attempt", "call"} => Target(t) \in Replicas

(* The steps t has left at most: five for each attempt of the loop, one for *)
(* each replica of the sweep, and the reply.                               *)
Left(t) ==
  CASE pc[t] = "idle"    -> 0
    [] pc[t] = "sweep"   -> (MaxReplica - try[t]) + 1
    [] pc[t] = "call"    -> 5 * (MaxReplica - try[t]) + MaxReplica - 3
    [] pc[t] = "attempt" -> 5 * (MaxReplica - try[t]) + MaxReplica - 2
    [] pc[t] = "choose"  -> 5 * (MaxReplica - try[t]) + MaxReplica - 1
    [] pc[t] = "store"   -> 5 * (MaxReplica - try[t]) + MaxReplica
    [] pc[t] = "load"    -> 5 * (MaxReplica - try[t]) + MaxReplica + 1

(* Every request ends within 6 max_replica + 1 steps of its own thread: each *)
(* step brings the reply nearer.  With a scheduler that is fair this is why *)
(* every request is answered.                                              *)
RequestsAreBounded ==
  [][\A t \in Threads : pc[t] # "idle" =>
       /\ Left(t) \in 1 .. 6 * MaxReplica + 1
       /\ Left(t)' <= Left(t)
       /\ Step(t) => Left(t)' < Left(t)]_vars

(***************************************************************************)
(* Properties of a mount with -s, one thread.                              *)
(***************************************************************************)

(* The rule "disable if and only if at least one replica succeeded" never   *)
(* leaves the mount without a replica.                                     *)
SomeReplicaEnabled == disabled # Replicas

(* A reader reports an error only when it got an answer from no replica     *)
(* that is enabled: every one of them was tried.                           *)
ReadErrorMeansNoReplica ==
  [][\A t \in Threads :
       (pc[t] = "sweep" /\ op[t].loop = "first" /\ ret'[t] = "error")
         => Replicas \ disabled \subseteq failed[t] \cup passed[t]]_vars

(* A low-priority replica is asked only after every enabled high-priority   *)
(* one has been, whichever turn the request started at.                    *)
LowPriorityLast ==
  \A t \in Threads, r \in LowReplicas :
    (Trying(t, r) /\ op[t].loop = "first")
      => HighReplicas \subseteq disabled \cup failed[t] \cup passed[t]

(* A request that is answered with success was carried out by a replica,    *)
(* unless memory for a path ran out on one.                                *)
HonestSuccess ==
  [][\A t \in Threads :
       (pc[t] = "sweep" /\ pc'[t] = "idle" /\ ret'[t] = "ok")
         => took[t] \cup passed[t] # {}]_vars

(* A replica is disabled only if an operation that failed on it succeeded   *)
(* on another replica.                                                     *)
DisableNeedsOtherSuccess ==
  [][\A r \in disabled' \ disabled :
       \E t \in Threads : r \in failed[t] /\ took[t] \ {r} # {}]_vars

=============================================================================
