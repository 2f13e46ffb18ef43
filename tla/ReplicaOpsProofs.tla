--------------------------- MODULE ReplicaOpsProofs ---------------------------
(***************************************************************************)
(* Theorems about the request handlers, for any replica list do_mount      *)
(* accepts and any number of worker threads.                               *)
(***************************************************************************)
EXTENDS ReplicaOps, TLAPS

(* What a % b of choose_replica leaves is an index of a table of size b.    *)
LEMMA ModRange ==
  ASSUME NEW a \in Nat, NEW b \in Nat \ {0}
  PROVE  a % b \in 0 .. b - 1
  BY SMT

LEMMA NextTurnRange ==
  ASSUME NEW turn \in Nat, NEW size \in Nat, size > 0
  PROVE  NextTurn(turn, size) \in 0 .. size - 1
  BY ModRange DEF NextTurn

LEMMA TableFacts ==
  /\ MaxHigh \in Nat /\ MaxHigh > 0 /\ MaxLow \in Nat
  /\ MaxReplica \in Nat /\ MaxReplica > 0 /\ MaxReplica = MaxHigh + MaxLow
  BY TableAssumption DEF RightTables

(* The replica an attempt asks for is one of the table.                    *)
LEMMA ChosenReplicaType ==
  ASSUME NEW n \in Nat, n < MaxReplica, NEW high \in Nat, NEW low \in Nat
  PROVE  ChosenReplica(n, high, low) \in Replicas
<1>1. CASE n < MaxHigh
  <2>1. (high + n) % MaxHigh \in 0 .. MaxHigh - 1
    BY ModRange, TableFacts
  <2> QED BY <1>1, <2>1, TableAssumption DEF ChosenReplica, Lists, RightTables
<1>2. CASE n >= MaxHigh
  <2>1. MaxLow # 0 /\ low + n - MaxHigh \in Nat
    BY <1>2, TableFacts
  <2>2. (low + n - MaxHigh) % MaxLow \in 0 .. MaxLow - 1
    BY <2>1, ModRange, TableFacts
  <2> QED BY <1>2, <2>2, TableAssumption, TableFacts DEF ChosenReplica, Lists, RightTables
<1> QED BY <1>1, <1>2, TableFacts

(* Every handler that changes replicas loops over all of them.             *)
LEMMA UpdatersLoopOverAll ==
  ASSUME NEW h \in Handlers \cup {NoOp}
  PROVE  h.loop = "all" \/ h.updates = FALSE
<1>1. Reader.updates = FALSE /\ NoOp.updates = FALSE
  BY DEF Reader, NoOp
<1>2. chiron_read.updates = FALSE
  BY DEF Reader, chiron_read
<1>3. Updater.loop = "all"
  BY DEF Updater, Reader
<1>4. chiron_mknod(TRUE).loop = "all" /\ chiron_mknod(FALSE).loop = "all"
  BY DEF Updater, Reader, chiron_mknod
<1>5. chiron_write.loop = "all" /\ chiron_create.loop = "all" /\ chiron_open.loop = "all"
  BY DEF Updater, Reader, chiron_write, chiron_create, chiron_open
<1>6. h \in {NoOp, Reader, chiron_read, Updater, chiron_mknod(TRUE), chiron_mknod(FALSE),
             chiron_write, chiron_create, chiron_open}
  BY DEF Handlers, chiron_getattr, chiron_access, chiron_readlink, chiron_readdir,
    chiron_truncate, chiron_chmod, chiron_chown, chiron_utime, chiron_rmdir,
    chiron_unlink, chiron_mkdir, chiron_symlink, chiron_rename, chiron_link
<1> QED
  BY <1>1, <1>2, <1>3, <1>4, <1>5, <1>6

-----------------------------------------------------------------------------
(***************************************************************************)
(* The inductive invariant.                                                *)
(***************************************************************************)

(* Where in the loop a thread may be: inside, it has an attempt left; in    *)
(* choose_replica, it runs a reader, and moves a turn at its own attempt.  *)
Control(t) ==
  /\ pc[t] \in {"load", "store", "choose", "attempt", "call"} => try[t] < MaxReplica
  /\ pc[t] \in {"load", "store", "choose"} => op[t].loop # "all"
  /\ pc[t] \in {"load", "store"} => TurnMoves(try[t])

Accounted(t) == took[t] \cup passed[t] \cup failed[t] \cup disabled

(* A loop over all replicas leaves none unaccounted for behind it...        *)
LoopCovers(t) ==
  op[t].loop = "all" =>
    /\ pc[t] \in {"attempt", "call"} => \A r \in Replicas : r < try[t] => r \in Accounted(t)
    /\ pc[t] = "sweep" => Replicas \subseteq Accounted(t)

(* ... and the sweep no failed replica enabled.                            *)
SweepCovers(t) ==
  pc[t] = "sweep" =>
    \A r \in Replicas : r \in failed[t] /\ r < try[t] => r \in disabled

ThreadInv(t) == Control(t) /\ LoopCovers(t) /\ SweepCovers(t)

LoopInv == \A t \in Threads : ThreadInv(t)

IInv == TypeOK /\ LoopInv /\ MissedUpdateDisables

LEMMA InitIInv == Init => IInv
<1> SUFFICES ASSUME Init PROVE IInv
  OBVIOUS
<1>1. TypeOK
  BY TableFacts, SMT DEF Init, TypeOK, Results
<1>2. LoopInv
  BY DEF Init, LoopInv, ThreadInv, Control, LoopCovers, SweepCovers
<1>3. MissedUpdateDisables
  BY DEF Init, MissedUpdateDisables
<1> QED BY <1>1, <1>2, <1>3 DEF IInv

(* Moving to an attempt or to the sweep keeps the three it writes typed.    *)
LEMMA GoToType ==
  ASSUME TypeOK, NEW t \in Threads, NEW h, NEW n \in 0 .. MaxReplica, GoTo(t, h, n)
  PROVE  /\ pc' \in [Threads -> {"idle", "load", "store", "choose", "attempt", "call", "sweep"}]
         /\ try' \in [Threads -> 0 .. MaxReplica]
         /\ local' \in [Threads -> Nat]
<1>1. pc' \in [Threads -> {"idle", "load", "store", "choose", "attempt", "call", "sweep"}]
  BY DEF GoTo, TypeOK
<1>2. try' \in [Threads -> 0 .. MaxReplica]
  BY TableFacts DEF GoTo, TypeOK
<1>3. local' \in [Threads -> Nat]
  BY DEF GoTo, TypeOK
<1> QED BY <1>1, <1>2, <1>3

LEMMA TypeStep == IInv /\ [Next]_vars => TypeOK'
<1> SUFFICES ASSUME IInv, [Next]_vars PROVE TypeOK'
  OBVIOUS
<1> USE DEF Results
<1>0. TypeOK /\ LoopInv
  BY DEF IInv
<1>a. ASSUME NEW t \in Threads, pc[t] \in {"attempt", "call"}
      PROVE  try[t] + 1 \in 0 .. MaxReplica
  BY <1>0, <1>a, TableFacts DEF LoopInv, ThreadInv, Control, TypeOK
<1>1. ASSUME NEW t \in Threads, NEW h \in Handlers, Begin(t, h)
      PROVE  TypeOK'
  BY <1>0, <1>1, GoToType, TableFacts DEF Begin, TypeOK, shared
<1>2. ASSUME NEW t \in Threads, Refuse(t)
      PROVE  TypeOK'
  BY <1>0, <1>2 DEF Refuse, TypeOK, shared, work
<1>3. ASSUME NEW t \in Threads, LoadTurn(t)
      PROVE  TypeOK'
  <2>1. currHigh \in Nat /\ currLow \in Nat
    BY <1>0, TableFacts DEF TypeOK
  <2> QED BY <1>0, <1>3, <2>1 DEF LoadTurn, TypeOK, shared, work
<1>4. ASSUME NEW t \in Threads, StoreTurn(t)
      PROVE  TypeOK'
  <2>1. local[t] \in Nat /\ TurnMoves(try[t])
    BY <1>0, <1>4 DEF TypeOK, LoopInv, ThreadInv, Control, StoreTurn
  <2>2. currHigh' \in 0 .. MaxHigh - 1
    <3>1. NextTurn(local[t], MaxHigh) \in 0 .. MaxHigh - 1
      BY <2>1, NextTurnRange, TableFacts
    <3> QED BY <1>0, <1>4, <3>1 DEF StoreTurn, TypeOK
  <2>3. currLow' \in Nat /\ (MaxLow > 0 => currLow' < MaxLow)
    <3>1. CASE try[t] = 0
      BY <1>0, <1>4, <3>1 DEF StoreTurn, TypeOK
    <3>2. CASE try[t] # 0
      <4>1. MaxLow > 0
        BY <3>2, <2>1 DEF TurnMoves
      <4>2. NextTurn(local[t], MaxLow) \in 0 .. MaxLow - 1
        BY <2>1, <4>1, NextTurnRange, TableFacts
      <4> QED BY <1>4, <3>2, <4>1, <4>2, TableFacts DEF StoreTurn
    <3> QED BY <3>1, <3>2
  <2> QED BY <1>0, <1>4, <2>2, <2>3 DEF StoreTurn, TypeOK, work
<1>5. ASSUME NEW t \in Threads, Choose(t)
      PROVE  TypeOK'
  <2>1. try[t] \in Nat /\ try[t] < MaxReplica /\ currHigh \in Nat /\ currLow \in Nat
    BY <1>0, <1>5, TableFacts DEF Choose, LoopInv, ThreadInv, Control, TypeOK
  <2>2. ChosenReplica(try[t], currHigh, currLow) \in Replicas
    BY <2>1, ChosenReplicaType
  <2>3. ChosenReplica(try[t], currHigh, currLow) \in Nat
    BY <2>2, TableFacts DEF Replicas
  <2> QED BY <1>0, <1>5, <2>3 DEF Choose, TypeOK, shared, work
<1>6. ASSUME NEW t \in Threads, SkipDisabled(t)
      PROVE  TypeOK'
  BY <1>0, <1>6, <1>a, GoToType DEF SkipDisabled, NextIteration, TypeOK, shared, work
<1>t. ASSUME NEW t \in Threads, Test(t)
      PROVE  TypeOK'
  BY <1>0, <1>t DEF Test, TypeOK, shared, work
<1>7. ASSUME NEW t \in Threads, NEW r \in Replicas, NoPath(t, r)
      PROVE  TypeOK'
  BY <1>0, <1>7, <1>a, GoToType DEF NoPath, Trying, NextIteration, TypeOK, shared
<1>8. ASSUME NEW t \in Threads, NEW r \in Replicas, CallFails(t, r)
      PROVE  TypeOK'
  BY <1>0, <1>8, <1>a, GoToType DEF CallFails, Trying, NextIteration, TypeOK, shared
<1>9. ASSUME NEW t \in Threads, NEW r \in Replicas, NEW partly \in BOOLEAN,
             CallSucceeds(t, r, partly)
      PROVE  TypeOK'
  <2>1. PICK n \in 0 .. MaxReplica : GoTo(t, op[t], n)
    BY <1>9, <1>a, TableFacts DEF CallSucceeds, Trying
  <2> QED BY <1>0, <1>9, <2>1, GoToType DEF CallSucceeds, TypeOK, shared
<1>10. ASSUME NEW t \in Threads, NEW r \in Replicas, Unsupported(t, r)
       PROVE  TypeOK'
  BY <1>0, <1>10, TableFacts DEF Unsupported, Return, TypeOK, shared
<1>11. ASSUME NEW t \in Threads, Sweep(t)
       PROVE  TypeOK'
  <2>1. try[t] \in Replicas /\ try[t] + 1 \in 0 .. MaxReplica
    BY <1>0, <1>11, TableFacts DEF Sweep, TypeOK, Replicas
  <2> QED BY <1>0, <1>11, <2>1 DEF Sweep, TypeOK, work
<1>12. ASSUME NEW t \in Threads, Reply(t)
       PROVE  TypeOK'
  <2>1. PICK r \in Results : Return(t, r)
    BY <1>12 DEF Reply, GetFirstError
  <2>2. missed' \subseteq Replicas
    BY <1>0, <1>12 DEF Reply, TypeOK
  <2> QED BY <1>0, <2>1, <2>2, TableFacts DEF Return, TypeOK, shared
<1>13. CASE UNCHANGED vars
  BY <1>0, <1>13 DEF vars, shared, work, TypeOK
<1> QED
  BY <1>1, <1>2, <1>3, <1>4, <1>5, <1>6, <1>t, <1>7, <1>8, <1>9, <1>10, <1>11, <1>12,
     <1>13 DEF Next, Step, Attempt

-----------------------------------------------------------------------------

(* A thread that another one's step leaves where it is.                    *)
Rests(u) ==
  /\ pc'[u] = pc[u] /\ op'[u] = op[u] /\ try'[u] = try[u] /\ local'[u] = local[u]
  /\ took'[u] = took[u] /\ passed'[u] = passed[u] /\ failed'[u] = failed[u]
  /\ disabled \subseteq disabled'

LEMMA RestingThread ==
  ASSUME NEW u \in Threads, ThreadInv(u), Rests(u)
  PROVE  ThreadInv(u)'
  BY DEF ThreadInv, Rests, Control, LoopCovers, SweepCovers, Accounted

(* A step of one thread lets the others rest; no step enables a replica.    *)
LEMMA OthersRest ==
  ASSUME TypeOK, NEW t \in Threads, NEW u \in Threads, u # t,
         Step(t) \/ Refuse(t) \/ \E h \in Handlers : Begin(t, h)
  PROVE  Rests(u)
<1> USE DEF Rests, TypeOK
<1>1. ASSUME NEW h \in Handlers, Begin(t, h) PROVE Rests(u)
  BY <1>1 DEF Begin, GoTo, shared
<1>2. CASE Refuse(t)
  BY <1>2 DEF Refuse, shared, work
<1>3. CASE LoadTurn(t)
  BY <1>3 DEF LoadTurn, shared, work
<1>4. CASE StoreTurn(t)
  BY <1>4 DEF StoreTurn, work
<1>5. CASE Choose(t)
  BY <1>5 DEF Choose, shared, work
<1>6. CASE SkipDisabled(t)
  BY <1>6 DEF SkipDisabled, NextIteration, GoTo, shared, work
<1>t. CASE Test(t)
  BY <1>t DEF Test, shared, work
<1>7. ASSUME NEW r \in Replicas, NoPath(t, r) PROVE Rests(u)
  BY <1>7 DEF NoPath, NextIteration, GoTo, shared
<1>8. ASSUME NEW r \in Replicas, CallFails(t, r) PROVE Rests(u)
  BY <1>8 DEF CallFails, NextIteration, GoTo, shared
<1>9. ASSUME NEW r \in Replicas, NEW partly \in BOOLEAN, CallSucceeds(t, r, partly)
      PROVE  Rests(u)
  BY <1>9 DEF CallSucceeds, GoTo, shared
<1>10. ASSUME NEW r \in Replicas, Unsupported(t, r) PROVE Rests(u)
  BY <1>10 DEF Unsupported, Return, shared
<1>11. CASE Sweep(t)
  BY <1>11 DEF Sweep, work
<1>12. CASE Reply(t)
  <2>1. PICK r \in Results : Return(t, r)
    BY <1>12 DEF Reply, GetFirstError, Results
  <2> QED BY <2>1 DEF Return, shared
<1> QED
  BY <1>1, <1>2, <1>3, <1>4, <1>5, <1>6, <1>t, <1>7, <1>8, <1>9, <1>10, <1>11, <1>12
  DEF Step, Attempt

(* An iteration that accounts for its replica and moves on.                *)
LEMMA IterationAccounts ==
  ASSUME TypeOK, NEW t \in Threads, ThreadInv(t), pc[t] \in {"attempt", "call"},
         op' = op, disabled' = disabled, Target(t) \in Accounted(t)',
         Accounted(t) \subseteq Accounted(t)',
         NEW n \in {try[t] + 1, MaxReplica},
         op[t].loop = "all" => n = try[t] + 1,
         GoTo(t, op[t], n)
  PROVE  ThreadInv(t)'
<1>1. try[t] \in Nat /\ try[t] < MaxReplica /\ try[t] + 1 \in 0 .. MaxReplica
  BY TableFacts DEF ThreadInv, Control, TypeOK
<1>2. CASE n = MaxReplica
  <2>1. pc'[t] = "sweep" /\ try'[t] = 0
    BY <1>2 DEF GoTo, TypeOK
  <2>2. Control(t)'
    BY <2>1 DEF Control
  <2>3. \A r \in Replicas : ~(r < 0)
    BY TableFacts DEF Replicas
  <2>4. SweepCovers(t)'
    BY <2>1, <2>3 DEF SweepCovers
  <2>5. ASSUME op[t].loop = "all", NEW r \in Replicas
        PROVE  r \in Accounted(t)'
    <3>1. r < try[t] \/ r = try[t]
      BY <1>1, <1>2, <2>5, TableFacts DEF Replicas
    <3>2. r < try[t] => r \in Accounted(t)
      BY <2>5 DEF ThreadInv, LoopCovers
    <3>3. r = try[t] => r \in Accounted(t)'
      BY <2>5 DEF Target
    <3> QED BY <3>1, <3>2, <3>3
  <2>6. LoopCovers(t)'
    BY <2>1, <2>5 DEF LoopCovers
  <2> QED BY <2>2, <2>4, <2>6 DEF ThreadInv
<1>3. CASE n # MaxReplica
  <2>1. try'[t] = try[t] + 1 /\ pc'[t] \in {"load", "choose", "attempt"}
    BY <1>1, <1>3 DEF GoTo, TypeOK
  <2>2. pc'[t] \in {"load", "choose"} => op[t].loop # "all"
    BY <1>1, <1>3 DEF GoTo, TypeOK
  <2>3. pc'[t] = "load" => TurnMoves(try[t] + 1)
    BY <1>1, <1>3 DEF GoTo, TypeOK
  <2>4. Control(t)'
    <3>1. try[t] + 1 < MaxReplica
      BY <1>1, <1>3, TableFacts
    <3> QED BY <2>1, <2>2, <2>3, <3>1 DEF Control, TurnMoves
  <2>5. SweepCovers(t)'
    BY <2>1 DEF SweepCovers
  <2>6. ASSUME op[t].loop = "all", NEW r \in Replicas, r < try[t] + 1
        PROVE  r \in Accounted(t)'
    <3>1. r < try[t] \/ r = try[t]
      BY <1>1, <2>6, TableFacts DEF Replicas
    <3>2. r < try[t] => r \in Accounted(t)
      BY <2>6 DEF ThreadInv, LoopCovers
    <3>3. r = try[t] => r \in Accounted(t)'
      BY <2>6 DEF Target
    <3> QED BY <3>1, <3>2, <3>3
  <2>7. LoopCovers(t)'
    BY <2>1, <2>6 DEF LoopCovers
  <2> QED BY <2>4, <2>5, <2>7 DEF ThreadInv
<1> QED BY <1>2, <1>3

LEMMA LoopStep == IInv /\ [Next]_vars => LoopInv'
<1> SUFFICES ASSUME IInv, [Next]_vars PROVE LoopInv'
  OBVIOUS
<1>0. TypeOK /\ LoopInv
  BY DEF IInv
<1>o. ASSUME NEW t \in Threads, Step(t) \/ Refuse(t) \/ \E h \in Handlers : Begin(t, h),
             ThreadInv(t)'
      PROVE  LoopInv'
  <2>1. ASSUME NEW u \in Threads, u # t PROVE ThreadInv(u)'
    BY <1>0, <1>o, <2>1, OthersRest, RestingThread DEF LoopInv
  <2> QED BY <1>o, <2>1 DEF LoopInv
<1>1. ASSUME NEW t \in Threads, NEW h \in Handlers, Begin(t, h)
      PROVE  ThreadInv(t)'
  <2>1. op'[t] = h /\ try'[t] = 0 /\ pc'[t] \in {"load", "choose", "attempt"}
    BY <1>0, <1>1, TableFacts DEF Begin, GoTo, TypeOK
  <2>2. pc'[t] \in {"load", "choose"} => h.loop # "all"
    BY <1>0, <1>1, TableFacts DEF Begin, GoTo, TypeOK
  <2>3. \A r \in Replicas : ~(r < 0)
    BY TableFacts DEF Replicas
  <2> QED BY <2>1, <2>2, <2>3, TableFacts
      DEF ThreadInv, Control, LoopCovers, SweepCovers, TurnMoves
<1>2. ASSUME NEW t \in Threads, Refuse(t)
      PROVE  ThreadInv(t)'
  BY <1>0, <1>2 DEF Refuse, LoopInv, ThreadInv, Control, LoopCovers, SweepCovers,
     Accounted, shared, work
<1>3. ASSUME NEW t \in Threads, LoadTurn(t) \/ StoreTurn(t) \/ Choose(t)
      PROVE  ThreadInv(t)'
  <2>1. op' = op /\ try' = try /\ pc[t] \in {"load", "store", "choose"}
    BY <1>3 DEF LoadTurn, StoreTurn, Choose, work
  <2>2. (pc[t] = "load" /\ pc'[t] = "store") \/ pc'[t] \in {"choose", "attempt"}
    BY <1>0, <1>3 DEF LoadTurn, StoreTurn, Choose, TypeOK
  <2> QED BY <1>0, <2>1, <2>2 DEF LoopInv, ThreadInv, Control, LoopCovers, SweepCovers
<1>4. ASSUME NEW t \in Threads, SkipDisabled(t)
      PROVE  ThreadInv(t)'
  <2>1. Target(t) \in Accounted(t)' /\ Accounted(t) \subseteq Accounted(t)'
    BY <1>4 DEF SkipDisabled, Accounted, shared, work
  <2> QED BY <1>0, <1>4, <2>1, IterationAccounts
      DEF SkipDisabled, NextIteration, LoopInv, shared, work
<1>t. ASSUME NEW t \in Threads, Test(t)
      PROVE  ThreadInv(t)'
  <2>1. pc[t] = "attempt" /\ pc'[t] = "call" /\ try' = try /\ op' = op
    BY <1>0, <1>t DEF Test, TypeOK, work
  <2>2. Accounted(t)' = Accounted(t)
    BY <1>t DEF Test, Accounted, shared, work
  <2> QED BY <1>0, <2>1, <2>2 DEF LoopInv, ThreadInv, Control, LoopCovers, SweepCovers
<1>5. ASSUME NEW t \in Threads, NEW r \in Replicas, NoPath(t, r)
      PROVE  ThreadInv(t)'
  <2>1. Target(t) \in Accounted(t)' /\ Accounted(t) \subseteq Accounted(t)'
    BY <1>0, <1>5 DEF NoPath, Trying, Accounted, TypeOK, shared
  <2> QED BY <1>0, <1>5, <2>1, IterationAccounts
      DEF NoPath, Trying, NextIteration, LoopInv, shared
<1>6. ASSUME NEW t \in Threads, NEW r \in Replicas, CallFails(t, r)
      PROVE  ThreadInv(t)'
  <2>1. Target(t) \in Accounted(t)' /\ Accounted(t) \subseteq Accounted(t)'
    BY <1>0, <1>6 DEF CallFails, Trying, Accounted, TypeOK, shared
  <2> QED BY <1>0, <1>6, <2>1, IterationAccounts
      DEF CallFails, Trying, NextIteration, LoopInv, shared
<1>7. ASSUME NEW t \in Threads, NEW r \in Replicas, NEW partly \in BOOLEAN,
             CallSucceeds(t, r, partly)
      PROVE  ThreadInv(t)'
  <2>1. Target(t) \in Accounted(t)' /\ Accounted(t) \subseteq Accounted(t)'
    BY <1>0, <1>7 DEF CallSucceeds, Trying, Accounted, TypeOK, shared
  <2>2. PICK n \in {try[t] + 1, MaxReplica} :
          GoTo(t, op[t], n) /\ (op[t].loop = "all" => n = try[t] + 1)
    BY <1>7 DEF CallSucceeds
  <2> QED BY <1>0, <1>7, <2>1, <2>2, IterationAccounts
      DEF CallSucceeds, Trying, LoopInv, shared
<1>8. ASSUME NEW t \in Threads, Sweep(t)
      PROVE  ThreadInv(t)'
  <2>1. try[t] \in Nat /\ try'[t] = try[t] + 1 /\ pc' = pc /\ pc[t] = "sweep"
    BY <1>0, <1>8, TableFacts DEF Sweep, TypeOK
  <2>2. /\ failed' = failed /\ took' = took /\ passed' = passed /\ op' = op
        /\ disabled \subseteq disabled'
        /\ try[t] \in failed[t] => try[t] \in disabled'
    BY <1>8 DEF Sweep, work
  <2>3. Control(t)' /\ LoopCovers(t)'
    BY <1>0, <2>1, <2>2 DEF LoopInv, ThreadInv, Control, LoopCovers, Accounted
  <2>4. SweepCovers(t)'
    <3> SUFFICES ASSUME NEW r \in Replicas, r \in failed[t], r < try[t] + 1
                 PROVE  r \in disabled'
      BY <2>1, <2>2 DEF SweepCovers
    <3>1. r < try[t] \/ r = try[t]
      BY <2>1, TableFacts DEF Replicas
    <3> QED BY <1>0, <2>1, <2>2, <3>1 DEF LoopInv, ThreadInv, SweepCovers
  <2> QED BY <2>3, <2>4 DEF ThreadInv
<1>9. ASSUME NEW t \in Threads, Reply(t) \/ \E r \in Replicas : Unsupported(t, r)
      PROVE  ThreadInv(t)'
  <2>1. PICK r \in Results : Return(t, r)
    BY <1>9 DEF Reply, Unsupported, GetFirstError, Results
  <2>2. pc'[t] = "idle"
    BY <1>0, <2>1 DEF Return, TypeOK
  <2> QED BY <2>2 DEF ThreadInv, Control, LoopCovers, SweepCovers
<1>10. CASE UNCHANGED vars
  BY <1>0, <1>10 DEF vars, shared, work, LoopInv, ThreadInv, Control, LoopCovers,
     SweepCovers, Accounted
<1> QED
  BY <1>o, <1>1, <1>2, <1>3, <1>4, <1>t, <1>5, <1>6, <1>7, <1>8, <1>9, <1>10
  DEF Next, Step, Attempt

(* Only a reply to an update records missed replicas; the sweep has         *)
(* disabled them by then.                                                  *)
LEMMA MissedStep == IInv /\ [Next]_vars => MissedUpdateDisables'
<1> SUFFICES ASSUME IInv, [Next]_vars PROVE MissedUpdateDisables'
  OBVIOUS
<1>0. TypeOK /\ LoopInv /\ missed \subseteq disabled
  BY DEF IInv, MissedUpdateDisables
<1>1. ASSUME NEW t \in Threads, Reply(t)
      PROVE  MissedUpdateDisables'
  <2>1. disabled' = disabled
    BY <1>1 DEF Reply, Return, shared
  <2>2. ASSUME op[t].updates, took[t] # {}, NEW r \in Replicas \ (took[t] \cup passed[t])
        PROVE  r \in disabled
    <3>1. op[t].loop = "all"
      BY <1>0, <2>2, UpdatersLoopOverAll DEF TypeOK
    <3>2. r \in failed[t] \/ r \in disabled
      BY <1>0, <1>1, <2>2, <3>1 DEF LoopInv, ThreadInv, LoopCovers, Accounted, Reply
    <3>3. ASSUME r \in failed[t] PROVE r \in disabled
      <4>1. try[t] = MaxReplica
        BY <1>1, <2>2, <3>3 DEF Reply, PartialSuccess
      <4>2. r < try[t]
        BY <4>1, TableFacts DEF Replicas
      <4> QED BY <1>0, <1>1, <3>3, <4>2 DEF LoopInv, ThreadInv, SweepCovers, Reply
    <3> QED BY <3>2, <3>3
  <2> QED BY <1>0, <1>1, <2>1, <2>2 DEF Reply, MissedUpdateDisables
<1>2. ASSUME NEW t \in Threads, ~Reply(t),
             Step(t) \/ Refuse(t) \/ \E h \in Handlers : Begin(t, h)
      PROVE  missed' = missed /\ disabled \subseteq disabled'
  BY <1>2 DEF Step, Attempt, Begin, Refuse, LoadTurn, StoreTurn, Choose, SkipDisabled,
     Test, NoPath, CallFails, CallSucceeds, Unsupported, Return, Sweep, shared
<1>3. CASE UNCHANGED vars
  BY <1>0, <1>3 DEF vars, shared, MissedUpdateDisables
<1> QED BY <1>0, <1>1, <1>2, <1>3 DEF Next, Step, MissedUpdateDisables

(* The state of the handlers keeps its type, whatever the replica list and  *)
(* the threads: the turns stay inside the round-robin tables (fs.c:160-167) *)
(* and an attempt number inside max_replica.                               *)
THEOREM TypeCorrect == Spec => []TypeOK
<1>1. Init => IInv
  BY InitIInv
<1>2. IInv /\ [Next]_vars => IInv'
  BY TypeStep, LoopStep, MissedStep DEF IInv
<1>3. IInv => TypeOK
  BY DEF IInv
<1> QED BY <1>1, <1>2, <1>3, PTL DEF Spec

(* A replica that lacks an update another replica took is disabled (fs.c:   *)
(* the call of disable_faulty_replicas after every loop of an updating     *)
(* handler), for any number of replicas and of concurrent requests.        *)
THEOREM MissedUpdateIsDisabled == Spec => []MissedUpdateDisables
<1>1. Init => IInv
  BY InitIInv
<1>2. IInv /\ [Next]_vars => IInv'
  BY TypeStep, LoopStep, MissedStep DEF IInv
<1>3. IInv => MissedUpdateDisables
  BY DEF IInv
<1> QED BY <1>1, <1>2, <1>3, PTL DEF Spec
-----------------------------------------------------------------------------
(***************************************************************************)
(* The table and the number of steps.                                      *)
(***************************************************************************)

(* A step that lands in an attempt without choose_replica is one of a loop  *)
(* over all replicas.                                                      *)
LEMMA GoToAll ==
  ASSUME TypeOK, NEW t \in Threads, NEW h, NEW n, GoTo(t, h, n), pc'[t] \in {"attempt", "call"}
  PROVE  h.loop = "all"
  BY DEF GoTo, TypeOK

LEMMA TargetStep == IInv /\ AttemptsInTable /\ [Next]_vars => AttemptsInTable'
<1> SUFFICES ASSUME IInv, AttemptsInTable, [Next]_vars PROVE AttemptsInTable'
  OBVIOUS
<1>0. TypeOK /\ TypeOK' /\ LoopInv /\ LoopInv'
  BY TypeStep, LoopStep DEF IInv
<1>1. CASE UNCHANGED vars
  BY <1>1 DEF vars, work, AttemptsInTable, Target
<1>2. ASSUME NEW t \in Threads, Step(t) \/ Refuse(t) \/ \E h \in Handlers : Begin(t, h),
             NEW u \in Threads, u # t, pc'[u] \in {"attempt", "call"}
      PROVE  Target(u)' \in Replicas
  <2>1. Rests(u)
    BY <1>0, <1>2, OthersRest
  <2> QED BY <1>2, <2>1 DEF Rests, AttemptsInTable, Target
<1>3. ASSUME NEW t \in Threads, Step(t) \/ Refuse(t) \/ \E h \in Handlers : Begin(t, h),
             pc'[t] \in {"attempt", "call"}
      PROVE  Target(t)' \in Replicas
  <2>1. try'[t] \in Replicas
    BY <1>0, <1>3, TableFacts DEF LoopInv, ThreadInv, Control, TypeOK, Replicas
  <2>2. op'[t].loop = "all" => Target(t)' \in Replicas
    BY <2>1 DEF Target
  <2>3. ASSUME NEW h \in Handlers, Begin(t, h) PROVE op'[t].loop = "all"
    BY <1>0, <1>3, <2>3, GoToAll DEF Begin, TypeOK
  <2>4. CASE Refuse(t)
    BY <1>0, <1>3, <2>4 DEF Refuse, TypeOK
  <2>5. CASE LoadTurn(t) \/ StoreTurn(t)
    BY <1>0, <1>3, <2>5 DEF LoadTurn, StoreTurn, TypeOK
  <2>6. CASE Choose(t)
    <3>1. try[t] \in Nat /\ try[t] < MaxReplica /\ currHigh \in Nat /\ currLow \in Nat
      BY <1>0, <2>6, TableFacts DEF Choose, LoopInv, ThreadInv, Control, TypeOK
    <3>2. local'[t] \in Replicas
      BY <1>0, <2>6, <3>1, ChosenReplicaType DEF Choose, TypeOK
    <3> QED BY <2>1, <3>2 DEF Target
  <2>7. CASE Attempt(t)
    <3>1. CASE \E r \in Replicas : Unsupported(t, r)
      BY <1>0, <1>3, <3>1 DEF Unsupported, Return, TypeOK
    <3>t. CASE Test(t)
      <4>1. Target(t)' = Target(t) /\ pc[t] = "attempt"
        BY <3>t DEF Test, Target, work
      <4> QED BY <4>1 DEF AttemptsInTable
    <3>2. CASE ~Test(t) /\ ~\E r \in Replicas : Unsupported(t, r)
      <4>1. op' = op /\ \E n : GoTo(t, op[t], n)
        BY <2>7, <3>2 DEF Attempt, SkipDisabled, NoPath, CallFails, CallSucceeds,
           NextIteration, work
      <4> QED BY <1>0, <1>3, <2>2, <4>1, GoToAll
    <3> QED BY <3>1, <3>t, <3>2
  <2>8. CASE Sweep(t)
    BY <1>3, <2>8 DEF Sweep
  <2>9. CASE Reply(t)
    <3>1. \E a : Return(t, a)
      BY <2>9 DEF Reply
    <3> QED BY <1>0, <1>3, <3>1 DEF Return, TypeOK
  <2> QED BY <1>3, <2>2, <2>3, <2>4, <2>5, <2>6, <2>7, <2>8, <2>9 DEF Step
<1> QED BY <1>1, <1>2, <1>3 DEF Next, AttemptsInTable

(* Every index of config.replicas and err_list is inside (the loops of the  *)
(* handlers and choose_replica, fs.c:148-214), for any number of threads.   *)
THEOREM AttemptsAreInTable == Spec => []AttemptsInTable
<1>1. Init => IInv /\ AttemptsInTable
  BY InitIInv DEF Init, AttemptsInTable
<1>2. IInv /\ AttemptsInTable /\ [Next]_vars => IInv' /\ AttemptsInTable'
  BY TypeStep, LoopStep, MissedStep, TargetStep DEF IInv
<1> QED BY <1>1, <1>2, PTL DEF Spec

LEMMA LeftRange ==
  ASSUME TypeOK, NEW t \in Threads, Control(t), pc[t] # "idle"
  PROVE  Left(t) \in 1 .. 6 * MaxReplica + 1
<1>1. try[t] \in 0 .. MaxReplica /\ MaxReplica \in Nat
  BY TableFacts DEF TypeOK
<1>2. CASE pc[t] = "sweep"
  BY <1>1, <1>2 DEF Left
<1>3. CASE pc[t] \in {"load", "store", "choose", "attempt", "call"}
  <2>1. try[t] < MaxReplica
    BY <1>3 DEF Control
  <2> QED BY <1>1, <1>3, <2>1 DEF Left
<1> QED BY <1>2, <1>3 DEF TypeOK

LEMMA NextLeft ==
  ASSUME TypeOK', NEW t \in Threads, Control(t)'
  PROVE  Left(t)' \in Nat
<1>1. try'[t] \in 0 .. MaxReplica /\ MaxReplica \in Nat
  BY TableFacts DEF TypeOK
<1>2. pc'[t] \in {"load", "store", "choose", "attempt", "call"} => try'[t] < MaxReplica
  BY DEF Control
<1>3. pc'[t] \in {"idle", "load", "store", "choose", "attempt", "call", "sweep"}
  BY DEF TypeOK
<1> QED BY <1>1, <1>2, <1>3 DEF Left

(* A later attempt, or the sweep, is nearer to the reply than this attempt. *)
LEMMA GoToNearer ==
  ASSUME TypeOK, NEW t \in Threads, Control(t), pc[t] \in {"attempt", "call"},
         NEW n \in try[t] + 1 .. MaxReplica, GoTo(t, op[t], n)
  PROVE  Left(t)' < Left(t)
<1>1. try[t] \in Nat /\ try[t] < MaxReplica /\ MaxReplica \in Nat
  BY TableFacts DEF TypeOK, Control
<1>2. Left(t) \in Nat /\ Left(t) >= 5 * (MaxReplica - try[t]) + MaxReplica - 3
  BY <1>1 DEF Left
<1>3. CASE n = MaxReplica
  <2>1. pc'[t] = "sweep" /\ try'[t] = 0
    BY <1>3 DEF GoTo, TypeOK
  <2>2. Left(t)' = MaxReplica - 0 + 1
    BY <2>1 DEF Left
  <2> QED BY <1>1, <1>2, <2>2
<1>4. CASE n # MaxReplica
  <2>1. pc'[t] \in {"attempt", "load", "choose"} /\ try'[t] = n
    BY <1>4 DEF GoTo, TypeOK
  <2>2. Left(t)' \in 5 * (MaxReplica - n) + MaxReplica - 2 .. 5 * (MaxReplica - n) + MaxReplica + 1
    BY <1>1, <2>1 DEF Left
  <2> QED BY <1>1, <1>2, <2>2
<1> QED BY <1>3, <1>4

LEMMA StepNearer ==
  ASSUME TypeOK, NEW t \in Threads, Control(t), Step(t)
  PROVE  Left(t)' < Left(t)
<1>0. try[t] \in 0 .. MaxReplica /\ MaxReplica \in Nat
  BY TableFacts DEF TypeOK
<1>1. CASE LoadTurn(t) \/ StoreTurn(t) \/ Choose(t)
  <2>1. try' = try
    BY <1>1 DEF LoadTurn, StoreTurn, Choose
  <2>2. \/ pc[t] = "load" /\ pc'[t] = "store"
        \/ pc[t] = "store" /\ pc'[t] = "choose"
        \/ pc[t] = "choose" /\ pc'[t] = "attempt"
    BY <1>1 DEF LoadTurn, StoreTurn, Choose, TypeOK
  <2> QED BY <1>0, <2>1, <2>2 DEF Left
<1>2. ASSUME NEW a, Return(t, a), pc[t] # "idle" PROVE Left(t)' < Left(t)
  <2>1. pc'[t] = "idle"
    BY <1>2 DEF Return, TypeOK
  <2>2. Left(t)' = 0
    BY <2>1 DEF Left
  <2> QED BY <1>2, <2>2, LeftRange, TableFacts
<1>t. CASE Test(t)
  <2>1. pc[t] = "attempt" /\ pc'[t] = "call" /\ try' = try
    BY <1>t DEF Test, TypeOK
  <2> QED BY <1>0, <2>1 DEF Left
<1>3. CASE Attempt(t) /\ ~Test(t)
  <2>0. pc[t] \in {"attempt", "call"} /\ try[t] < MaxReplica
    BY <1>3 DEF Attempt, SkipDisabled, NoPath, CallFails, CallSucceeds, Unsupported, Trying,
       Control
  <2>1. CASE \E r \in Replicas : Unsupported(t, r)
    BY <1>2, <2>0, <2>1 DEF Unsupported
  <2>2. CASE ~\E r \in Replicas : Unsupported(t, r)
    <3>1. GoTo(t, op[t], try[t] + 1) \/ GoTo(t, op[t], MaxReplica)
      BY <1>3, <2>2 DEF Attempt, SkipDisabled, NoPath, CallFails, CallSucceeds, NextIteration
    <3>2. try[t] + 1 \in try[t] + 1 .. MaxReplica /\ MaxReplica \in try[t] + 1 .. MaxReplica
      BY <1>0, <2>0
    <3> QED BY <2>0, <3>1, <3>2, GoToNearer
  <2> QED BY <2>1, <2>2
<1>4. CASE Sweep(t)
  <2>1. pc[t] = "sweep" /\ pc'[t] = "sweep" /\ try'[t] = try[t] + 1
    BY <1>4 DEF Sweep, TypeOK
  <2> QED BY <1>0, <2>1 DEF Left
<1>5. CASE Reply(t)
  <2>1. pc[t] = "sweep" /\ \E a : Return(t, a)
    BY <1>5 DEF Reply
  <2> QED BY <1>2, <2>1
<1> QED BY <1>1, <1>t, <1>3, <1>4, <1>5 DEF Step

(* A request ends within 6 max_replica + 1 steps of its thread (the loops   *)
(* of the handlers and of disable_faulty_replicas).                        *)
THEOREM RequestIsBounded == Spec => RequestsAreBounded
<1>1. Init => IInv
  BY InitIInv
<1>2. IInv /\ [Next]_vars => IInv'
  BY TypeStep, LoopStep, MissedStep DEF IInv
<1>3. ASSUME IInv, [Next]_vars
      PROVE  [\A t \in Threads : pc[t] # "idle" =>
                /\ Left(t) \in 1 .. 6 * MaxReplica + 1
                /\ Left(t)' <= Left(t)
                /\ Step(t) => Left(t)' < Left(t)]_vars
  <2> SUFFICES ASSUME NEW t \in Threads, pc[t] # "idle"
               PROVE  /\ Left(t) \in 1 .. 6 * MaxReplica + 1
                      /\ Left(t)' <= Left(t)
                      /\ Step(t) => Left(t)' < Left(t)
    OBVIOUS
  <2>1. TypeOK /\ Control(t)
    BY <1>3 DEF IInv, LoopInv, ThreadInv
  <2>2. Left(t) \in 1 .. 6 * MaxReplica + 1
    BY <2>1, LeftRange
  <2>3. Step(t) => Left(t)' < Left(t)
    BY <2>1, StepNearer
  <2>4. CASE UNCHANGED vars
    <3>1. Left(t)' = Left(t)
      BY <2>4 DEF vars, Left
    <3> QED BY <2>2, <2>3, <3>1, TableFacts
  <2>5. ASSUME NEW u \in Threads, Step(u) \/ Refuse(u) \/ \E h \in Handlers : Begin(u, h)
        PROVE  Left(t)' <= Left(t)
    <3>1. CASE u = t
      <4>1. Step(t)
        BY <2>5, <3>1 DEF Refuse, Begin
      <4>2. Left(t)' < Left(t)
        BY <2>3, <4>1
      <4>3. Left(t)' \in Nat
        BY <1>2, <1>3, NextLeft DEF IInv, LoopInv, ThreadInv
      <4> QED BY <2>2, <4>2, <4>3, TableFacts
    <3>2. CASE u # t
      <4>1. Rests(t)
        BY <2>1, <2>5, <3>2, OthersRest
      <4>2. Left(t)' = Left(t)
        BY <4>1 DEF Rests, Left
      <4> QED BY <2>2, <4>2, TableFacts
    <3> QED BY <3>1, <3>2
  <2> QED BY <1>3, <2>2, <2>3, <2>4, <2>5 DEF Next
<1> QED BY <1>1, <1>2, <1>3, PTL DEF Spec, RequestsAreBounded

=============================================================================
