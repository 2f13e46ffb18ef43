------------------------ MODULE ReplicaOpsSerialProofs ------------------------
(***************************************************************************)
(* Theorems about a mount with -s, which serves one request at a time, for *)
(* any replica list do_mount accepts.  With a second thread none of them   *)
(* holds, as the runs read_gives_up and false_success show.                *)
(***************************************************************************)
EXTENDS ReplicaOpsProofs

(* Going round a table of size N from index h.                             *)
LEMMA ModSum ==
  ASSUME NEW N \in Nat, N > 0, NEW h \in 0 .. N - 1, NEW a \in 0 .. N - 1
  PROVE  (h + a) % N = IF h + a < N THEN h + a ELSE h + a - N
<1>1. CASE h + a < N
  BY <1>1, SMT
<1>2. CASE h + a >= N
  BY <1>2, SMT
<1> QED BY <1>1, <1>2

LEMMA RoundDistinct ==
  ASSUME NEW N \in Nat, N > 0, NEW h \in 0 .. N - 1,
         NEW a \in 0 .. N - 1, NEW b \in 0 .. N - 1, (h + a) % N = (h + b) % N
  PROVE  a = b
<1>1. /\ (h + a) % N = IF h + a < N THEN h + a ELSE h + a - N
      /\ (h + b) % N = IF h + b < N THEN h + b ELSE h + b - N
  BY ModSum
<1> QED BY <1>1

LEMMA RoundCovers ==
  ASSUME NEW N \in Nat, N > 0, NEW h \in 0 .. N - 1, NEW i \in 0 .. N - 1
  PROVE  \E a \in 0 .. N - 1 : (h + a) % N = i
<1> DEFINE a == IF i >= h THEN i - h ELSE i - h + N
<1>1. a \in 0 .. N - 1
  OBVIOUS
<1>2. (h + a) % N = IF h + a < N THEN h + a ELSE h + a - N
  BY <1>1, ModSum
<1>3. (h + a) % N = i
  BY <1>1, <1>2
<1> QED BY <1>1, <1>3

Turns(high, low) ==
  high \in 0 .. MaxHigh - 1 /\ low \in Nat /\ (MaxLow > 0 => low < MaxLow)

(* The attempts below MaxHigh ask the high-priority replicas, all of them,  *)
(* the others the low-priority ones, all of them...                        *)
LEMMA ChosenHigh ==
  ASSUME NEW high, NEW low, Turns(high, low), NEW n \in 0 .. MaxHigh - 1
  PROVE  ChosenReplica(n, high, low) \in HighReplicas
<1>1. (high + n) % MaxHigh \in 0 .. MaxHigh - 1
  BY ModRange, TableFacts DEF Turns
<1> QED BY <1>1, TableFacts DEF ChosenReplica, HighReplicas

LEMMA EveryHighChosen ==
  ASSUME NEW high, NEW low, Turns(high, low), NEW r \in HighReplicas
  PROVE  \E n \in 0 .. MaxHigh - 1 : ChosenReplica(n, high, low) = r
<1>1. PICK i \in 0 .. MaxHigh - 1 : r = RoundRobinHigh[i]
  BY DEF HighReplicas
<1>2. PICK n \in 0 .. MaxHigh - 1 : (high + n) % MaxHigh = i
  BY RoundCovers, TableFacts DEF Turns
<1> QED BY <1>1, <1>2, TableFacts DEF ChosenReplica

LEMMA ChosenLow ==
  ASSUME NEW high, NEW low, Turns(high, low), NEW n \in MaxHigh .. MaxReplica - 1
  PROVE  ChosenReplica(n, high, low) \in LowReplicas
<1>1. MaxLow > 0 /\ n - MaxHigh \in Nat /\ low + n - MaxHigh \in Nat
  BY TableFacts DEF Turns
<1>2. (low + n - MaxHigh) % MaxLow \in 0 .. MaxLow - 1
  BY <1>1, ModRange, TableFacts
<1> QED BY <1>2, TableFacts DEF ChosenReplica, LowReplicas

LEMMA EveryLowChosen ==
  ASSUME NEW high, NEW low, Turns(high, low), NEW r \in LowReplicas
  PROVE  \E n \in MaxHigh .. MaxReplica - 1 : ChosenReplica(n, high, low) = r
<1>1. PICK i \in 0 .. MaxLow - 1 : r = RoundRobinLow[i]
  BY DEF LowReplicas
<1>2. MaxLow > 0 /\ low \in 0 .. MaxLow - 1
  BY <1>1, TableFacts DEF Turns
<1>3. PICK a \in 0 .. MaxLow - 1 : (low + a) % MaxLow = i
  BY <1>2, RoundCovers, TableFacts
<1>4. MaxHigh + a \in MaxHigh .. MaxReplica - 1 /\ low + (MaxHigh + a) - MaxHigh = low + a
  BY <1>2, TableFacts
<1>5. ChosenReplica(MaxHigh + a, high, low) = RoundRobinLow[(low + a) % MaxLow]
  BY <1>4, TableFacts DEF ChosenReplica
<1> QED BY <1>1, <1>3, <1>4, <1>5

(* ... so the attempts of one loop ask every replica once.                  *)
LEMMA EveryReplicaChosen ==
  ASSUME NEW high, NEW low, Turns(high, low), NEW r \in Replicas
  PROVE  \E n \in 0 .. MaxReplica - 1 : ChosenReplica(n, high, low) = r
  BY EveryHighChosen, EveryLowChosen, TableAssumption, TableFacts DEF RightTables

LEMMA ChosenDistinct ==
  ASSUME NEW high, NEW low, Turns(high, low),
         NEW m \in Nat, NEW n \in Nat, m < n, n < MaxReplica
  PROVE  ChosenReplica(m, high, low) # ChosenReplica(n, high, low)
<1>1. CASE n < MaxHigh
  <2>1. m \in 0 .. MaxHigh - 1 /\ n \in 0 .. MaxHigh - 1
    BY <1>1, TableFacts
  <2>2. (high + m) % MaxHigh # (high + n) % MaxHigh
    BY <2>1, RoundDistinct, TableFacts DEF Turns
  <2>3. (high + m) % MaxHigh \in 0 .. MaxHigh - 1 /\ (high + n) % MaxHigh \in 0 .. MaxHigh - 1
    BY <2>1, ModRange, TableFacts DEF Turns
  <2> QED BY <2>1, <2>2, <2>3, TableAssumption, TableFacts DEF ChosenReplica, Lists, RightTables
<1>2. CASE m < MaxHigh /\ n >= MaxHigh
  <2>1. m \in 0 .. MaxHigh - 1 /\ n \in MaxHigh .. MaxReplica - 1
    BY <1>2, TableFacts
  <2> QED BY <2>1, ChosenHigh, ChosenLow, TableAssumption DEF RightTables
<1>3. CASE m >= MaxHigh
  <2>1. /\ MaxLow > 0 /\ low \in 0 .. MaxLow - 1
        /\ m - MaxHigh \in 0 .. MaxLow - 1 /\ n - MaxHigh \in 0 .. MaxLow - 1
    BY <1>3, TableFacts DEF Turns
  <2>2. (low + (m - MaxHigh)) % MaxLow # (low + (n - MaxHigh)) % MaxLow
    BY <2>1, RoundDistinct, TableFacts
  <2>3. /\ (low + (m - MaxHigh)) % MaxLow \in 0 .. MaxLow - 1
        /\ (low + (n - MaxHigh)) % MaxLow \in 0 .. MaxLow - 1
    BY <2>1, ModRange, TableFacts
  <2>4. /\ low + (m - MaxHigh) = low + m - MaxHigh
        /\ low + (n - MaxHigh) = low + n - MaxHigh
    BY <2>1, TableFacts
  <2> QED BY <1>3, <2>2, <2>3, <2>4, TableAssumption, TableFacts DEF ChosenReplica, Lists, RightTables
<1> QED BY <1>1, <1>2, <1>3, TableFacts

-----------------------------------------------------------------------------
(***************************************************************************)
(* The inductive invariant of the only thread.                             *)
(***************************************************************************)

Chosen(n) == ChosenReplica(n, currHigh, currLow)

(* What the results gathered so far say, at any point of a handler: a       *)
(* replica has one result, no replica that took the request is disabled,   *)
(* and none that failed it as long as no replica took it.                  *)
Outcome(t) ==
  /\ took[t] \cap failed[t] = {} /\ took[t] \cap disabled = {}
  /\ took[t] = {} => failed[t] \cap disabled = {}
  /\ pc[t] = "idle" => took[t] = {} /\ failed[t] = {} /\ passed[t] = {}
  /\ pc[t] # "idle" => ret[t] = "none" /\ op[t].loop \in {"first", "all"}

(* Inside a loop over all replicas, results stem from the replicas behind.  *)
AllBehind(t) ==
  (pc[t] \in {"attempt", "call"} /\ op[t].loop = "all") =>
    \A r \in took[t] \cup failed[t] : r < try[t]

(* Inside a reader's loop, no replica took the request, and the replicas    *)
(* asked are those of the attempts made.                                   *)
FirstBehind(t) ==
  (pc[t] \in {"load", "store", "choose", "attempt", "call"} /\ op[t].loop = "first") =>
    /\ took[t] = {}
    /\ \A r \in failed[t] : \E n \in 0 .. try[t] - 1 : Chosen(n) = r
    /\ \A n \in 0 .. try[t] - 1 : Chosen(n) \in failed[t] \cup passed[t] \cup disabled
    /\ pc[t] \in {"attempt", "call"} => local[t] = Chosen(try[t])

(* After it, one took the request or every one was tried.                   *)
FirstEnds(t) ==
  (pc[t] = "sweep" /\ op[t].loop = "first") =>
    took[t] # {} \/ Replicas \subseteq failed[t] \cup passed[t] \cup disabled

(* With nobody to disable it meanwhile, a replica found in use is in use    *)
(* when it is asked.                                                       *)
StillEnabled(t) == pc[t] = "call" => Target(t) \notin disabled

SerialThread(t) ==
  Outcome(t) /\ AllBehind(t) /\ FirstBehind(t) /\ FirstEnds(t) /\ StillEnabled(t)

SerialInv ==
  /\ IInv
  /\ SomeReplicaEnabled
  /\ \A t \in Threads : SerialThread(t)

LEMMA TurnsInRange == TypeOK => Turns(currHigh, currLow)
  BY DEF TypeOK, Turns

(* What GoTo leaves in pc and try.                                         *)
LEMMA GoToLands ==
  ASSUME TypeOK, NEW t \in Threads, NEW n \in 0 .. MaxReplica, GoTo(t, op[t], n)
  PROVE  /\ n = MaxReplica => pc'[t] = "sweep" /\ try'[t] = 0
         /\ n # MaxReplica =>
              /\ try'[t] = n
              /\ op[t].loop = "all" => pc'[t] = "attempt"
              /\ op[t].loop # "all" => pc'[t] \in {"load", "choose"}
  BY DEF GoTo, TypeOK

(* An iteration that does not end the loop: its target fails, is passed     *)
(* over or is disabled already.                                            *)
LEMMA IterationGoesOn ==
  ASSUME IInv, NEW t \in Threads, SerialThread(t), pc[t] \in {"attempt", "call"},
         NextIteration(t), UNCHANGED <<shared, op, took, ret>>,
         failed[t] \subseteq failed'[t], passed[t] \subseteq passed'[t],
         failed'[t] \subseteq failed[t] \cup {Target(t)},
         failed'[t] = failed[t] \/ Target(t) \notin disabled,
         Target(t) \in failed'[t] \cup passed'[t] \cup disabled
  PROVE  SerialThread(t)'
<1>1. /\ TypeOK /\ Control(t)
      /\ Outcome(t) /\ AllBehind(t) /\ FirstBehind(t)
  BY DEF IInv, LoopInv, ThreadInv, SerialThread
<1>2. /\ try[t] \in Nat /\ try[t] + 1 \in 0 .. MaxReplica
      /\ failed[t] \subseteq Replicas /\ took[t] \subseteq Replicas
      /\ \A r \in Replicas : r \in Nat
      /\ op[t].loop \in {"first", "all"}
  BY <1>1, TableFacts DEF Control, TypeOK, Replicas, Outcome
<1>3. /\ try[t] + 1 = MaxReplica => pc'[t] = "sweep" /\ try'[t] = 0
      /\ try[t] + 1 # MaxReplica =>
           /\ try'[t] = try[t] + 1
           /\ op[t].loop = "all" => pc'[t] = "attempt"
           /\ op[t].loop # "all" => pc'[t] \in {"load", "choose"}
  BY <1>1, <1>2, GoToLands DEF NextIteration
<1>4. disabled' = disabled /\ currHigh' = currHigh /\ currLow' = currLow
  BY DEF shared
<1>5. Target(t) \notin took[t]
  BY <1>1, <1>2 DEF Target, AllBehind, FirstBehind
<1>6. Outcome(t)'
  <2>1. took[t] \cap failed'[t] = {} /\ failed'[t] \cap disabled = failed[t] \cap disabled
    BY <1>1, <1>5 DEF Outcome
  <2>2. pc'[t] # "idle" /\ ret'[t] = "none" /\ op'[t].loop \in {"first", "all"}
    BY <1>1, <1>2, <1>3 DEF Outcome
  <2> QED BY <1>1, <1>4, <2>1, <2>2 DEF Outcome
<1>7. AllBehind(t)'
  <2> SUFFICES ASSUME op[t].loop = "all", pc'[t] \in {"attempt", "call"},
                      NEW r \in took[t] \cup failed'[t]
               PROVE  r < try'[t]
    BY DEF AllBehind
  <2>1. try'[t] = try[t] + 1
    BY <1>2, <1>3
  <2>2. r \in took[t] \cup failed[t] => r < try[t] /\ r \in Nat
    BY <1>1, <1>2 DEF AllBehind
  <2>3. r \in failed'[t] => r \in failed[t] \/ r = try[t]
    BY DEF Target
  <2> QED BY <1>2, <2>1, <2>2, <2>3
<1>8. ASSUME op[t].loop = "first"
      PROVE  /\ took[t] = {}
             /\ \A r \in failed'[t] : \E n \in 0 .. try[t] : Chosen(n) = r
             /\ \A n \in 0 .. try[t] : Chosen(n) \in failed'[t] \cup passed'[t] \cup disabled
  <2>1. /\ took[t] = {}
        /\ \A r \in failed[t] : \E n \in 0 .. try[t] - 1 : Chosen(n) = r
        /\ \A n \in 0 .. try[t] - 1 : Chosen(n) \in failed[t] \cup passed[t] \cup disabled
        /\ Target(t) = Chosen(try[t])
    BY <1>1, <1>8 DEF FirstBehind, Target
  <2>2. \A n \in 0 .. try[t] : n \in 0 .. try[t] - 1 \/ n = try[t]
    BY <1>2
  <2>3. 0 .. try[t] - 1 \subseteq 0 .. try[t] /\ try[t] \in 0 .. try[t]
    BY <1>2
  <2> QED BY <2>1, <2>2, <2>3
<1>9. FirstBehind(t)'
  <2> SUFFICES ASSUME op[t].loop = "first", pc'[t] \in {"load", "store", "choose", "attempt", "call"}
               PROVE  FirstBehind(t)'
    BY DEF FirstBehind
  <2>1. try'[t] = try[t] + 1 /\ pc'[t] \notin {"attempt", "call"} /\ (try[t] + 1) - 1 = try[t]
    BY <1>2, <1>3
  <2>2. \A n : Chosen(n)' = Chosen(n)
    BY <1>4 DEF Chosen
  <2> QED BY <1>4, <1>8, <2>1, <2>2 DEF FirstBehind
<1>10. FirstEnds(t)'
  <2> SUFFICES ASSUME op[t].loop = "first", pc'[t] = "sweep", NEW r \in Replicas
               PROVE  r \in failed'[t] \cup passed'[t] \cup disabled
    BY <1>4 DEF FirstEnds
  <2>1. try[t] = MaxReplica - 1
    BY <1>2, <1>3, TableFacts
  <2>2. PICK n \in 0 .. MaxReplica - 1 : Chosen(n) = r
    BY <1>1, TurnsInRange, EveryReplicaChosen DEF Chosen
  <2> QED BY <1>8, <2>1, <2>2
<1>11. StillEnabled(t)'
  BY <1>2, <1>3 DEF StillEnabled
<1> QED BY <1>6, <1>7, <1>9, <1>10, <1>11 DEF SerialThread

LEMMA HandlersLoop ==
  ASSUME NEW h \in Handlers
  PROVE  h.loop \in {"first", "all"}
<1>1. Reader.loop = "first" /\ chiron_read.loop = "first"
  BY DEF Reader, chiron_read
<1>2. Updater.loop = "all"
  BY DEF Updater, Reader
<1>3. chiron_mknod(TRUE).loop = "all" /\ chiron_mknod(FALSE).loop = "all"
  BY DEF Updater, Reader, chiron_mknod
<1>4. chiron_write.loop = "all" /\ chiron_create.loop = "all" /\ chiron_open.loop = "all"
  BY DEF Updater, Reader, chiron_write, chiron_create, chiron_open
<1>5. h \in {Reader, chiron_read, Updater, chiron_mknod(TRUE), chiron_mknod(FALSE),
             chiron_write, chiron_create, chiron_open}
  BY DEF Handlers, chiron_getattr, chiron_access, chiron_readlink, chiron_readdir,
    chiron_truncate, chiron_chmod, chiron_chown, chiron_utime, chiron_rmdir,
    chiron_unlink, chiron_mkdir, chiron_symlink, chiron_rename, chiron_link
<1> QED BY <1>1, <1>2, <1>3, <1>4, <1>5

LEMMA ReturnClears ==
  ASSUME TypeOK, NEW t \in Threads, NEW r, Return(t, r)
  PROVE  SerialThread(t)'
<1>1. pc'[t] = "idle" /\ took'[t] = {} /\ failed'[t] = {} /\ passed'[t] = {}
  BY DEF Return, TypeOK
<1> QED BY <1>1 DEF SerialThread, Outcome, AllBehind, FirstBehind, FirstEnds, StillEnabled

LEMMA InitSerialInv == Init => SerialInv
<1> SUFFICES ASSUME Init PROVE SerialInv
  OBVIOUS
<1>1. SomeReplicaEnabled
  <2>1. 0 \in Replicas
    BY TableFacts DEF Replicas
  <2> QED BY <2>1 DEF Init, SomeReplicaEnabled
<1>2. ASSUME NEW t \in Threads PROVE SerialThread(t)
  BY DEF Init, SerialThread, Outcome, AllBehind, FirstBehind, FirstEnds, StillEnabled
<1> QED BY <1>1, <1>2, InitIInv DEF SerialInv

(* The steps of the thread that serves requests.                           *)
LEMMA SerialThreadStep ==
  ASSUME SerialInv, NEW t \in Threads,
         Step(t) \/ Refuse(t) \/ \E h \in Handlers : Begin(t, h)
  PROVE  SerialThread(t)'
<1>0. /\ IInv /\ TypeOK /\ SerialThread(t) /\ Outcome(t) /\ Control(t)
      /\ AllBehind(t) /\ FirstBehind(t) /\ FirstEnds(t) /\ StillEnabled(t)
  BY DEF SerialInv, SerialThread, IInv, LoopInv, ThreadInv
<1>1. ASSUME NEW h \in Handlers, Begin(t, h)
      PROVE  SerialThread(t)'
  <2>1. /\ pc'[t] \in {"load", "choose", "attempt"} /\ try'[t] = 0 /\ op'[t] = h
        /\ ret'[t] = "none" /\ pc[t] = "idle"
        /\ pc'[t] = "attempt" => h.loop = "all"
    BY <1>0, <1>1, TableFacts DEF Begin, GoTo, TypeOK, TurnMoves
  <2>2. h.loop \in {"first", "all"}
    BY HandlersLoop
  <2>3. /\ took' = took /\ failed' = failed /\ passed' = passed /\ disabled' = disabled
    BY <1>1 DEF Begin, shared
  <2>4. took[t] = {} /\ failed[t] = {} /\ passed[t] = {}
    BY <1>0, <2>1 DEF Outcome
  <2>5. \A n \in 0 .. 0 - 1 : FALSE
    OBVIOUS
  <2> QED BY <2>1, <2>2, <2>3, <2>4, <2>5
      DEF SerialThread, Outcome, AllBehind, FirstBehind, FirstEnds, StillEnabled
<1>2. CASE Refuse(t)
  BY <1>0, <1>2 DEF Refuse, shared, work, SerialThread, Outcome, AllBehind, FirstBehind,
     FirstEnds, StillEnabled
<1>3. CASE LoadTurn(t)
  <2>1. pc[t] = "load" /\ pc'[t] = "store"
    BY <1>0, <1>3 DEF LoadTurn, TypeOK
  <2>2. /\ UNCHANGED <<shared, try, work, ret>> /\ \A n : Chosen(n)' = Chosen(n)
    BY <1>3 DEF LoadTurn, shared, Chosen
  <2> QED BY <1>0, <2>1, <2>2 DEF shared, work, SerialThread, Outcome, AllBehind,
      FirstBehind, FirstEnds, StillEnabled
<1>4. CASE StoreTurn(t)
  <2>1. pc[t] = "store" /\ pc'[t] = "choose" /\ try'[t] = try[t]
    BY <1>0, <1>4 DEF StoreTurn, TypeOK
  <2>2. UNCHANGED <<disabled, work, ret>>
    BY <1>4 DEF StoreTurn
  <2>3. ASSUME NEW n \in 0 .. try[t] - 1 PROVE Chosen(n)' = Chosen(n)
    <3>1. try[t] = MaxHigh /\ n < MaxHigh
      BY <1>0, <2>1, <2>3, TableFacts DEF Control, TurnMoves, TypeOK
    <3>2. currHigh' = currHigh
      BY <1>4, <3>1, TableFacts DEF StoreTurn
    <3> QED BY <3>1, <3>2 DEF Chosen, ChosenReplica
  <2> QED BY <1>0, <2>1, <2>2, <2>3 DEF work, SerialThread, Outcome, AllBehind,
      FirstBehind, FirstEnds, StillEnabled
<1>5. CASE Choose(t)
  <2>1. pc[t] = "choose" /\ pc'[t] = "attempt" /\ local'[t] = Chosen(try[t])
    BY <1>0, <1>5 DEF Choose, TypeOK, Chosen
  <2>2. UNCHANGED <<shared, try, work, ret>> /\ \A n : Chosen(n)' = Chosen(n)
    BY <1>5 DEF Choose, shared, Chosen
  <2>3. op[t].loop = "first"
    BY <1>0, <2>1 DEF Control, Outcome
  <2> QED BY <1>0, <2>1, <2>2, <2>3 DEF shared, work, SerialThread, Outcome, AllBehind,
      FirstBehind, FirstEnds, StillEnabled
<1>6. CASE SkipDisabled(t)
  <2>1. /\ failed'[t] = failed[t] /\ passed'[t] = passed[t]
        /\ pc[t] = "attempt" /\ NextIteration(t) /\ UNCHANGED <<shared, op, took, ret>>
        /\ Target(t) \in disabled
    BY <1>6 DEF SkipDisabled, work
  <2> QED BY <1>0, <2>1, IterationGoesOn
<1>7. CASE Test(t)
  <2>1. pc[t] = "attempt" /\ pc'[t] = "call" /\ Target(t) \notin disabled
    BY <1>0, <1>7 DEF Test, TypeOK
  <2>2. /\ UNCHANGED <<shared, try, local, work, ret>> /\ \A n : Chosen(n)' = Chosen(n)
    BY <1>7 DEF Test, shared, Chosen
  <2>3. Target(t)' = Target(t)
    BY <2>2 DEF Target, work
  <2> QED BY <1>0, <2>1, <2>2, <2>3 DEF shared, work, SerialThread, Outcome, AllBehind,
      FirstBehind, FirstEnds, StillEnabled
<1>8. ASSUME NEW r \in Replicas, NoPath(t, r)
      PROVE  SerialThread(t)'
  <2>1. /\ pc[t] = "call" /\ NextIteration(t) /\ UNCHANGED <<shared, op, took, ret>>
        /\ r = Target(t) /\ r \notin disabled
    BY <1>0, <1>8 DEF NoPath, Trying, StillEnabled
  <2>2. \/ failed'[t] = failed[t] \cup {r} /\ passed'[t] = passed[t]
        \/ failed'[t] = failed[t] /\ passed'[t] = passed[t] \cup {r}
    BY <1>0, <1>8 DEF NoPath, TypeOK
  <2> QED BY <1>0, <2>1, <2>2, IterationGoesOn
<1>9. ASSUME NEW r \in Replicas, CallFails(t, r)
      PROVE  SerialThread(t)'
  <2>1. /\ pc[t] = "call" /\ NextIteration(t) /\ UNCHANGED <<shared, op, took, ret>>
        /\ r = Target(t) /\ r \notin disabled
    BY <1>0, <1>9 DEF CallFails, Trying, StillEnabled
  <2>2. failed'[t] = failed[t] \cup {r} /\ passed'[t] = passed[t]
    BY <1>0, <1>9 DEF CallFails, TypeOK
  <2> QED BY <1>0, <2>1, <2>2, IterationGoesOn
<1>10. ASSUME NEW r \in Replicas, NEW partly \in BOOLEAN, CallSucceeds(t, r, partly)
      PROVE  SerialThread(t)'
  <2>1. /\ pc[t] = "call" /\ r = Target(t) /\ r \notin disabled
        /\ UNCHANGED <<shared, op, failed, passed, ret>>
        /\ took'[t] = took[t] \cup {r}
    BY <1>0, <1>10 DEF CallSucceeds, Trying, TypeOK, StillEnabled
  <2>2. try[t] \in Nat /\ try[t] < MaxReplica /\ \A x \in Replicas : x \in Nat
    BY <1>0, <2>1, TableFacts DEF Control, TypeOK, Replicas
  <2>3. r \notin failed[t]
    <3>1. CASE op[t].loop = "all"
      BY <1>0, <2>1, <2>2, <3>1 DEF AllBehind, Target
    <3>2. CASE op[t].loop = "first"
      <4>1. SUFFICES ASSUME r \in failed[t] PROVE FALSE
        OBVIOUS
      <4>2. r = Chosen(try[t])
        BY <1>0, <2>1, <3>2 DEF FirstBehind, Target
      <4>3. PICK n \in 0 .. try[t] - 1 : Chosen(n) = r
        BY <1>0, <2>1, <3>2, <4>1 DEF FirstBehind
      <4>4. n \in Nat /\ n < try[t]
        BY <2>2
      <4> QED BY <1>0, <2>2, <4>2, <4>3, <4>4, TurnsInRange, ChosenDistinct DEF Chosen
    <3> QED BY <1>0, <2>1, <3>1, <3>2 DEF Outcome
  <2>4. Outcome(t)' /\ pc'[t] \in {"attempt", "sweep"}
        /\ (pc'[t] = "attempt" => op[t].loop = "all" /\ try'[t] = try[t] + 1)
    <3>1. CASE op[t].loop = "first"
      <4>1. pc'[t] = "sweep"
        BY <1>0, <1>10, <3>1 DEF CallSucceeds, GoTo, TypeOK
      <4> QED BY <1>0, <2>1, <2>3, <4>1 DEF Outcome, shared
    <3>2. CASE op[t].loop = "all"
      <4>1. pc'[t] = "sweep" \/ (pc'[t] = "attempt" /\ try'[t] = try[t] + 1)
        BY <1>0, <1>10, <3>2 DEF CallSucceeds, GoTo, TypeOK
      <4> QED BY <1>0, <2>1, <2>3, <3>2, <4>1 DEF Outcome, shared
    <3> QED BY <1>0, <2>1, <3>1, <3>2 DEF Outcome
  <2>5. AllBehind(t)'
    <3> SUFFICES ASSUME op[t].loop = "all", pc'[t] = "attempt",
                        NEW x \in took[t] \cup failed[t] \cup {r}
                 PROVE  x < try[t] + 1
      BY <2>1, <2>4 DEF AllBehind
    <3>1. x \in took[t] \cup failed[t] => x < try[t] /\ x \in Nat
      BY <1>0, <2>1, <2>2 DEF AllBehind, TypeOK
    <3>2. x = r => x = try[t]
      BY <2>1 DEF Target
    <3> QED BY <2>2, <3>1, <3>2
  <2>6. FirstBehind(t)' /\ FirstEnds(t)' /\ StillEnabled(t)'
    BY <2>1, <2>4 DEF FirstBehind, FirstEnds, StillEnabled
  <2> QED BY <2>4, <2>5, <2>6 DEF SerialThread
<1>11. ASSUME NEW r \in Replicas, Unsupported(t, r)
       PROVE  SerialThread(t)'
  BY <1>0, <1>11, ReturnClears DEF Unsupported
<1>12. CASE Sweep(t)
  <2>1. /\ pc[t] = "sweep" /\ took[t] # {} /\ UNCHANGED <<pc, work, ret>>
        /\ disabled' \subseteq disabled \cup failed[t]
    BY <1>12 DEF Sweep, PartialSuccess
  <2> QED BY <1>0, <2>1 DEF work, SerialThread, Outcome, AllBehind, FirstBehind,
      FirstEnds, StillEnabled
<1>13. CASE Reply(t)
  <2>1. PICK r \in Results : Return(t, r)
    BY <1>13 DEF Reply, GetFirstError, Results
  <2> QED BY <1>0, <2>1, ReturnClears
<1> QED
  BY <1>1, <1>2, <1>3, <1>4, <1>5, <1>6, <1>7, <1>8, <1>9, <1>10, <1>11, <1>12, <1>13
  DEF Step, Attempt

(* One request at a time: the -s option.                                   *)
OneThread == \A t, u \in Threads : t = u

LEMMA SerialStep ==
  ASSUME OneThread
  PROVE  SerialInv /\ [Next]_vars => SerialInv'
<1> SUFFICES ASSUME SerialInv, [Next]_vars PROVE SerialInv'
  OBVIOUS
<1>0. IInv /\ TypeOK /\ SomeReplicaEnabled
  BY DEF SerialInv, IInv
<1>1. IInv'
  BY <1>0, TypeStep, LoopStep, MissedStep DEF IInv
<1>2. CASE UNCHANGED vars
  <2>1. \A n : Chosen(n)' = Chosen(n)
    BY <1>2 DEF vars, shared, Chosen
  <2>2. ASSUME NEW t \in Threads PROVE SerialThread(t)'
    <3>1. SerialThread(t) /\ Target(t)' = Target(t)
      BY <1>2 DEF SerialInv, vars, work, Target
    <3> QED BY <1>2, <2>1, <3>1 DEF vars, shared, work, SerialThread, Outcome, AllBehind,
        FirstBehind, FirstEnds, StillEnabled
  <2> QED BY <1>0, <1>1, <1>2, <2>2 DEF SerialInv, SomeReplicaEnabled, vars, shared
<1>3. ASSUME NEW t \in Threads, Step(t) \/ Refuse(t) \/ \E h \in Handlers : Begin(t, h)
      PROVE  SerialInv'
  <2>1. \A u \in Threads : SerialThread(u)'
    BY <1>3, SerialThreadStep DEF OneThread
  <2>2. SomeReplicaEnabled'
    <3>1. CASE Sweep(t)
      <4>1. PICK x \in took[t] : TRUE
        BY <3>1 DEF Sweep, PartialSuccess
      <4>2. x \in Replicas /\ x \notin disabled /\ x \notin failed[t]
        BY <1>0, <4>1 DEF TypeOK, SerialInv, SerialThread, Outcome
      <4>3. disabled' \subseteq disabled \cup failed[t]
        BY <3>1 DEF Sweep
      <4> QED BY <4>2, <4>3 DEF SomeReplicaEnabled
    <3>2. CASE ~Sweep(t)
      <4>1. disabled' = disabled
        BY <1>3, <3>2 DEF Step, Attempt, Begin, Refuse, LoadTurn, StoreTurn, Choose,
           SkipDisabled, Test, NoPath, CallFails, CallSucceeds, Unsupported, Reply, Return, shared
      <4> QED BY <1>0, <4>1 DEF SomeReplicaEnabled
    <3> QED BY <3>1, <3>2
  <2> QED BY <1>1, <2>1, <2>2 DEF SerialInv
<1> QED BY <1>2, <1>3 DEF Next

(* disable_faulty_replicas (fs.c:209-226) never disables the last replica:  *)
(* one of those that took the request stays enabled.                       *)
THEOREM ReplicaStaysEnabled ==
  ASSUME OneThread
  PROVE  Spec => []SomeReplicaEnabled
<1>1. Init => SerialInv
  BY InitSerialInv
<1>2. SerialInv /\ [Next]_vars => SerialInv'
  BY SerialStep
<1>3. SerialInv => SomeReplicaEnabled
  BY DEF SerialInv
<1> QED BY <1>1, <1>2, <1>3, PTL DEF Spec

(* choose_replica (fs.c:153-187) leaves the low-priority replicas for after *)
(* the high-priority ones, from whichever turn a request starts.           *)
THEOREM LowPriorityIsLast ==
  ASSUME OneThread
  PROVE  Spec => []LowPriorityLast
<1>1. Init => SerialInv
  BY InitSerialInv
<1>2. SerialInv /\ [Next]_vars => SerialInv'
  BY SerialStep
<1>3. SerialInv => LowPriorityLast
  <2> SUFFICES ASSUME SerialInv, NEW t \in Threads, NEW r \in LowReplicas,
                      Trying(t, r), op[t].loop = "first", NEW x \in HighReplicas
               PROVE  x \in disabled \cup failed[t] \cup passed[t]
    BY DEF LowPriorityLast
  <2>1. TypeOK /\ FirstBehind(t) /\ Control(t) /\ pc[t] = "call"
    BY DEF SerialInv, IInv, LoopInv, ThreadInv, SerialThread, Trying
  <2>2. try[t] \in 0 .. MaxReplica - 1
    BY <2>1, TableFacts DEF Control, TypeOK
  <2>3. r = Chosen(try[t])
    BY <2>1 DEF FirstBehind, Trying, Target
  <2>4. try[t] >= MaxHigh
    <3> SUFFICES ASSUME try[t] < MaxHigh PROVE FALSE
      BY <2>2, TableFacts
    <3>1. Chosen(try[t]) \in HighReplicas
      BY <2>1, <2>2, TurnsInRange, ChosenHigh, TableFacts DEF Chosen
    <3> QED BY <2>3, <3>1, TableAssumption DEF RightTables
  <2>5. PICK n \in 0 .. MaxHigh - 1 : Chosen(n) = x
    BY <2>1, TurnsInRange, EveryHighChosen DEF Chosen
  <2>6. n \in 0 .. try[t] - 1
    BY <2>2, <2>4, TableFacts
  <2> QED BY <2>1, <2>5, <2>6 DEF FirstBehind
<1> QED BY <1>1, <1>2, <1>3, PTL DEF Spec

(* A step that makes a request of t end is its reply or the ENOSYS of mknod. *)
LEMMA EndOfRequest ==
  ASSUME SerialInv, Next, NEW t \in Threads, pc[t] = "sweep", ret'[t] # "none",
         OneThread
  PROVE  Reply(t)
<1>1. TypeOK /\ ret[t] = "none"
  BY DEF SerialInv, IInv, SerialThread, Outcome
<1>2. PICK u \in Threads : Step(u) \/ Refuse(u) \/ \E h \in Handlers : Begin(u, h)
  BY DEF Next
<1>3. u = t
  BY DEF OneThread
<1>4. Sweep(t) \/ Reply(t)
  BY <1>2, <1>3 DEF Step, Attempt, Begin, Refuse, LoadTurn, StoreTurn, Choose,
     SkipDisabled, Test, NoPath, CallFails, CallSucceeds, Unsupported, Trying
<1>5. ~Sweep(t)
  BY <1>1 DEF Sweep
<1> QED BY <1>4, <1>5

(* A reader (fs.c:508-565, 626-885) reports an error only when each replica *)
(* still enabled failed it or was passed over.                             *)
THEOREM ReadErrorNeedsEveryReplica ==
  ASSUME OneThread
  PROVE  Spec => ReadErrorMeansNoReplica
<1>1. Init => SerialInv
  BY InitSerialInv
<1>2. SerialInv /\ [Next]_vars => SerialInv'
  BY SerialStep
<1> DEFINE Step1 == \A t \in Threads :
              (pc[t] = "sweep" /\ op[t].loop = "first" /\ ret'[t] = "error")
                => Replicas \ disabled \subseteq failed[t] \cup passed[t]
<1>3. SerialInv /\ [Next]_vars => [Step1]_vars
  <2> SUFFICES ASSUME SerialInv, Next, NEW t \in Threads, pc[t] = "sweep",
                      op[t].loop = "first", ret'[t] = "error"
               PROVE  Replicas \ disabled \subseteq failed[t] \cup passed[t]
    OBVIOUS
  <2>1. Reply(t) /\ TypeOK
    BY EndOfRequest DEF SerialInv, IInv
  <2>2. took[t] = {}
    BY <2>1 DEF Reply, Return, TypeOK
  <2> QED BY <2>2 DEF SerialInv, SerialThread, FirstEnds
<1> QED BY <1>1, <1>2, <1>3, PTL DEF Spec, ReadErrorMeansNoReplica

(* A handler answers 0 only when a replica took the request, or memory for  *)
(* a path ran out: get_first_error (fs.c:264-280) returns 0 of itself only *)
(* when no replica is enabled.                                             *)
THEOREM SuccessIsHonest ==
  ASSUME OneThread
  PROVE  Spec => HonestSuccess
<1>1. Init => SerialInv
  BY InitSerialInv
<1>2. SerialInv /\ [Next]_vars => SerialInv'
  BY SerialStep
<1> DEFINE Step1 == \A t \in Threads :
              (pc[t] = "sweep" /\ pc'[t] = "idle" /\ ret'[t] = "ok")
                => took[t] \cup passed[t] # {}
<1>3. SerialInv /\ [Next]_vars => [Step1]_vars
  <2> SUFFICES ASSUME SerialInv, Next, NEW t \in Threads, pc[t] = "sweep",
                      ret'[t] = "ok", took[t] = {}, passed[t] = {}
               PROVE  FALSE
    OBVIOUS
  <2>1. /\ Reply(t) /\ TypeOK /\ Outcome(t) /\ FirstEnds(t) /\ LoopCovers(t)
        /\ SomeReplicaEnabled
    BY EndOfRequest DEF SerialInv, IInv, SerialThread, LoopInv, ThreadInv
  <2>2. failed[t] \subseteq disabled
    BY <2>1 DEF Reply, Return, TypeOK, GetFirstError
  <2>3. failed[t] = {}
    BY <2>1, <2>2 DEF Outcome
  <2>4. Replicas \subseteq disabled
    BY <2>1, <2>3 DEF Outcome, FirstEnds, LoopCovers, Accounted
  <2> QED BY <2>1, <2>4 DEF SomeReplicaEnabled, TypeOK
<1> QED BY <1>1, <1>2, <1>3, PTL DEF Spec, HonestSuccess

(* A replica is disabled (fs.c:189-194) only after an operation that failed *)
(* on it succeeded on another one.                                         *)
THEOREM DisabledForOther ==
  ASSUME OneThread
  PROVE  Spec => DisableNeedsOtherSuccess
<1>1. Init => SerialInv
  BY InitSerialInv
<1>2. SerialInv /\ [Next]_vars => SerialInv'
  BY SerialStep
<1> DEFINE Step1 == \A r \in disabled' \ disabled :
              \E t \in Threads : r \in failed[t] /\ took[t] \ {r} # {}
<1>3. SerialInv /\ [Next]_vars => [Step1]_vars
  <2> SUFFICES ASSUME SerialInv, Next, NEW r \in disabled' \ disabled
               PROVE  \E t \in Threads : r \in failed[t] /\ took[t] \ {r} # {}
    OBVIOUS
  <2>1. PICK t \in Threads : Step(t) \/ Refuse(t) \/ \E h \in Handlers : Begin(t, h)
    BY DEF Next
  <2>2. Sweep(t)
    BY <2>1 DEF Step, Attempt, Begin, Refuse, LoadTurn, StoreTurn, Choose, SkipDisabled,
       Test, NoPath, CallFails, CallSucceeds, Unsupported, Reply, Return, shared
  <2>3. r \in failed[t] /\ took[t] # {}
    BY <2>2 DEF Sweep, PartialSuccess
  <2>4. took[t] \cap failed[t] = {}
    BY DEF SerialInv, SerialThread, Outcome
  <2> QED BY <2>3, <2>4
<1> QED BY <1>1, <1>2, <1>3, PTL DEF Spec, DisableNeedsOtherSuccess

=============================================================================
