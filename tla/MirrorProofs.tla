----------------------------- MODULE MirrorProofs -----------------------------
(***************************************************************************)
(* A mount with -s implements SingleCopy, for any replica list do_mount     *)
(* accepts and any contents.                                               *)
(***************************************************************************)
EXTENDS Mirror, ReplicaOpsSerialProofs

(* The contents do not guide the handlers: a behaviour of Mirror is one of  *)
(* ReplicaOps, and has its properties.                                     *)
LEMMA MirrorThreadStep ==
  ASSUME NEW t \in Threads, MStep(t)
  PROVE  (\E h \in Handlers : Begin(t, h)) \/ Refuse(t) \/ Step(t)
<1>1. CASE \E h \in Handlers : MBegin(t, h)
  BY <1>1 DEF MBegin
<1>2. CASE Inner(t)
  BY <1>2 DEF Inner, Step, Attempt
<1>3. CASE \E r \in Replicas, partly \in BOOLEAN : MCallSucceeds(t, r, partly)
  BY <1>3 DEF MCallSucceeds, Step, Attempt
<1>4. CASE \E r \in Replicas : MUnsupported(t, r)
  BY <1>4 DEF MUnsupported, Step, Attempt
<1>5. CASE MReply(t)
  BY <1>5 DEF MReply, Step
<1> QED BY <1>1, <1>2, <1>3, <1>4, <1>5 DEF MStep

LEMMA MirrorStep == [MNext]_mvars => [Next]_vars
  BY MirrorThreadStep DEF MNext, Next, mvars

(* The contents only watch: every behaviour of Mirror is one of ReplicaOps, *)
(* so what is proved of the handlers holds of the handlers with contents.  *)
THEOREM MirrorIsReplicaOps == MSpec => Spec
<1>1. MInit => Init
  BY DEF MInit
<1> QED BY <1>1, MirrorStep, PTL DEF MSpec, Spec

-----------------------------------------------------------------------------
(***************************************************************************)
(* The inductive invariant, in three layers.  Of any threads: the types,    *)
(* and an update keeps its buffer.  While one update at a time is served:   *)
(* between two updates the replicas in use agree, and inside one those that *)
(* took all of it hold its value.  Of one thread: also SerialInv.           *)
(***************************************************************************)

Loaded(t) == op[t].updates => val[t] \in Values

MTypeInv == IInv /\ MTypeOK /\ \A t \in Threads : Loaded(t)

Agree == \A r, s \in Replicas \ disabled : copy[r] = copy[s]

Whole ==
  /\ (\A t \in Threads : ~Updating(t)) => Agree
  /\ \A t \in Threads : Updating(t) => \A r \in took[t] \ short[t] : copy[r] = val[t]

(* mknod answers ENOSYS before any replica took the request, and a request  *)
(* begins with none.                                                       *)
Rejecting(t) == op[t].rejects => took[t] = {}
Idle(t) == pc[t] = "idle" => took[t] = {}

CopyInv ==
  /\ MTypeInv
  /\ \A t \in Threads : Rejecting(t) /\ Idle(t)
  /\ sound => Whole

MInv == SerialInv /\ CopyInv

(* The updates of a file come one after the other, as the lock the kernel   *)
(* takes on its inode makes the writes do; reads come at any time.          *)
OneUpdater == \A t, u \in Threads : op[t].updates /\ op[u].updates => t = u

LEMMA NoOpReads == NoOp.updates = FALSE /\ NoOp.loop = "none" /\ NoOp.table = FALSE
  BY DEF NoOp, Reader

LEMMA HandlersUpdate ==
  ASSUME NEW h \in Handlers \cup {NoOp}
  PROVE  /\ h.updates => h.loop = "all"
         /\ h.updates \in BOOLEAN /\ h.table \in BOOLEAN
         /\ h.table => h.loop = "all"
         /\ (~h.updates /\ h.loop = "all") => h.table
<1>1. h \in {NoOp, Reader, chiron_read, Updater, chiron_mknod(TRUE), chiron_mknod(FALSE),
             chiron_write, chiron_create, chiron_open}
  BY DEF Handlers, chiron_getattr, chiron_access, chiron_readlink, chiron_readdir,
    chiron_truncate, chiron_chmod, chiron_chown, chiron_utime, chiron_rmdir,
    chiron_unlink, chiron_mkdir, chiron_symlink, chiron_rename, chiron_link
<1>2. CASE h \in {NoOp, Reader, chiron_read}
  <2>1. Reader.updates = FALSE /\ Reader.loop = "first" /\ Reader.table = FALSE
    BY DEF Reader
  <2>2. chiron_read.updates = FALSE /\ chiron_read.loop = "first" /\ chiron_read.table = FALSE
    BY DEF Reader, chiron_read
  <2> QED BY <1>2, <2>1, <2>2, NoOpReads
<1>3. CASE h \in {Updater, chiron_mknod(TRUE), chiron_mknod(FALSE), chiron_write}
  <2>1. Updater.loop = "all" /\ Updater.updates = TRUE /\ Updater.table = FALSE
    BY DEF Updater, Reader
  <2>2. /\ chiron_mknod(TRUE).loop = "all" /\ chiron_mknod(FALSE).loop = "all"
        /\ chiron_mknod(TRUE).updates = TRUE /\ chiron_mknod(FALSE).updates = TRUE
        /\ chiron_mknod(TRUE).table = FALSE /\ chiron_mknod(FALSE).table = FALSE
    BY DEF Updater, Reader, chiron_mknod
  <2>3. chiron_write.loop = "all" /\ chiron_write.updates = TRUE /\ chiron_write.table = FALSE
    BY DEF Updater, Reader, chiron_write
  <2> QED BY <1>3, <2>1, <2>2, <2>3
<1>4. CASE h \in {chiron_create, chiron_open}
  BY <1>4 DEF Updater, Reader, chiron_create, chiron_open
<1> QED BY <1>1, <1>2, <1>3, <1>4

LEMMA InitCopyInv == MInit => CopyInv
<1> SUFFICES ASSUME MInit PROVE CopyInv
  OBVIOUS
<1>1. Init /\ (\E v \in Values : copy = [r \in Replicas |-> v])
  BY DEF MInit
<1>2. MTypeOK
  BY DEF MInit, MTypeOK
<1>3. Whole /\ \A t \in Threads : Rejecting(t) /\ Loaded(t) /\ Idle(t)
  BY <1>1 DEF Whole, Agree, Updating, Rejecting, Loaded, Idle, Init, NoOp, Reader
<1> QED BY <1>1, <1>2, <1>3, InitIInv DEF CopyInv, MTypeInv

LEMMA InitMInv == MInit => MInv
  BY InitCopyInv, InitSerialInv DEF MInv, MInit

(* The steps of the sweep and of the loops that touch no content.           *)
LEMMA InnerKeeps ==
  ASSUME TypeOK, NEW t \in Threads, Inner(t), UNCHANGED contents
  PROVE  /\ UNCHANGED <<op, took, short>>
         /\ pc[t] = "idle" <=> pc'[t] = "idle"
         /\ disabled \subseteq disabled'
         /\ disabled' # disabled => took[t] # {}
  BY DEF Inner, Refuse, LoadTurn, StoreTurn, Choose, SkipDisabled, Test, Sweep,
     NoPath, CallFails, Trying, NextIteration, GoTo, work, shared, TypeOK, PartialSuccess

(* The steps of one thread leave the buffers of the others.                 *)
LEMMA MOthersRest ==
  ASSUME TypeOK, MTypeOK, NEW t \in Threads, MStep(t), NEW u \in Threads, u # t
  PROVE  Rests(u) /\ short'[u] = short[u] /\ val'[u] = val[u]
<1>1. Rests(u)
  BY MirrorThreadStep, OthersRest
<1>2. ASSUME NEW h \in Handlers, MBegin(t, h)
      PROVE  short'[u] = short[u] /\ val'[u] = val[u]
  BY <1>2 DEF MBegin, Begin, MTypeOK
<1>3. CASE Inner(t) /\ UNCHANGED contents
  BY <1>1, <1>3, InnerKeeps DEF contents
<1>4. ASSUME NEW r \in Replicas, NEW partly \in BOOLEAN, MCallSucceeds(t, r, partly)
      PROVE  short'[u] = short[u] /\ val'[u] = val[u]
  BY <1>4 DEF MCallSucceeds, CallSucceeds, TypeOK, MTypeOK
<1>5. ASSUME NEW r \in Replicas, MUnsupported(t, r)
      PROVE  short'[u] = short[u] /\ val'[u] = val[u]
  BY <1>5 DEF MUnsupported, Unsupported, Return, TypeOK, MTypeOK
<1>6. CASE MReply(t)
  BY <1>1, <1>6 DEF MReply, Reply, Return, TypeOK, MTypeOK
<1> QED BY <1>1, <1>2, <1>3, <1>4, <1>5, <1>6 DEF MStep

(* The types and the buffers, of any threads.                              *)
LEMMA MTypeStep == MTypeInv /\ [MNext]_mvars => MTypeInv'
<1> SUFFICES ASSUME MTypeInv, [MNext]_mvars PROVE MTypeInv'
  OBVIOUS
<1>0. IInv /\ TypeOK /\ MTypeOK /\ IInv' /\ TypeOK'
  BY MirrorStep, TypeStep, LoopStep, MissedStep DEF MTypeInv, IInv
<1>1. CASE UNCHANGED mvars
  BY <1>0, <1>1 DEF MTypeInv, MTypeOK, Loaded, mvars, contents, vars, work
<1>2. ASSUME NEW t \in Threads, MStep(t) PROVE MTypeOK' /\ Loaded(t)'
  <2>1. CASE \E h \in Handlers : MBegin(t, h)
    <3>1. PICK h \in Handlers : MBegin(t, h)
      BY <2>1
    <3>2. op'[t] = h
      BY <1>0, <3>1 DEF MBegin, Begin, TypeOK
    <3> QED BY <1>0, <3>1, <3>2 DEF MBegin, MTypeOK, Loaded
  <2>2. CASE Inner(t) /\ UNCHANGED contents
    BY <1>0, <2>2, InnerKeeps DEF contents, MTypeOK, Loaded, MTypeInv
  <2>3. ASSUME NEW r \in Replicas, NEW partly \in BOOLEAN, MCallSucceeds(t, r, partly)
        PROVE  MTypeOK' /\ Loaded(t)'
    <3>1. Loaded(t) /\ op'[t] = op[t] /\ (op[t].updates => op[t].loop = "all")
      BY <1>0, <2>3, HandlersUpdate DEF MTypeInv, TypeOK, MCallSucceeds, CallSucceeds
    <3>2. op[t].updates => val' = val /\ val[t] \in Values
      BY <2>3, <3>1 DEF MCallSucceeds, Loaded
    <3>3. MTypeOK'
      BY <1>0, <2>3, <3>2 DEF MCallSucceeds, MTypeOK
    <3> QED BY <3>1, <3>2, <3>3 DEF Loaded
  <2>4. ASSUME NEW a \in Results, Return(t, a), val' = [val EXCEPT ![t] = NoValue],
               copy' = copy, sound' \in BOOLEAN
        PROVE  MTypeOK' /\ Loaded(t)'
    <3>1. op'[t] = NoOp
      BY <1>0, <2>4 DEF Return, TypeOK
    <3> QED BY <1>0, <2>4, <3>1, NoOpReads DEF MTypeOK, Loaded
  <2>5. CASE (\E r \in Replicas : MUnsupported(t, r)) \/ MReply(t)
    <3>1. PICK a \in Results : Return(t, a)
      BY <2>5 DEF MUnsupported, Unsupported, MReply, Reply, GetFirstError, Results
    <3>2. copy' = copy /\ val' = [val EXCEPT ![t] = NoValue] /\ sound' \in BOOLEAN
      BY <1>0, <2>5 DEF MUnsupported, MReply, MTypeOK
    <3> QED BY <2>4, <3>1, <3>2
  <2> QED BY <1>2, <2>1, <2>2, <2>3, <2>5 DEF MStep
<1>3. ASSUME NEW t \in Threads, MStep(t), NEW u \in Threads, u # t PROVE Loaded(u)'
  BY <1>0, <1>3, MOthersRest DEF Rests, Loaded, MTypeInv
<1> QED BY <1>0, <1>1, <1>2, <1>3 DEF MNext, MTypeInv

(* The buffers and the copies keep their type, for any threads: an updating *)
(* handler reaches its replicas with the value of its request, never with  *)
(* the empty buffer of a thread that has none (chiron_write, fs.c:545).     *)
THEOREM MirrorType == MSpec => []MTypeOK
<1>1. MInit => MTypeInv
  BY InitCopyInv DEF CopyInv
<1>2. MTypeInv /\ [MNext]_mvars => MTypeInv'
  BY MTypeStep
<1>3. MTypeInv => MTypeOK
  BY DEF MTypeInv
<1> QED BY <1>1, <1>2, <1>3, PTL DEF MSpec

(* The reply to an update that all replicas in use took whole: those it     *)
(* missed are disabled by then.                                            *)
LEMMA ReplyMirrors ==
  ASSUME MTypeInv, NEW t \in Threads, Reply(t), ~Spoils(t), Updating(t), Whole
  PROVE  Agree
<1>0. TypeOK /\ ThreadInv(t) /\ pc[t] = "sweep"
  BY DEF MTypeInv, IInv, LoopInv, Reply
<1>1. op[t].loop = "all" /\ short[t] = {} /\ passed[t] = {}
  BY <1>0, HandlersUpdate DEF TypeOK, Updating, Spoils
<1>2. ASSUME NEW r \in Replicas \ disabled PROVE r \in took[t]
  <2>1. r \in took[t] \cup failed[t]
    BY <1>0, <1>1, <1>2 DEF ThreadInv, LoopCovers, Accounted
  <2>2. r \notin failed[t]
    <3> SUFFICES ASSUME r \in failed[t] PROVE FALSE
      OBVIOUS
    <3>1. try[t] = MaxReplica
      BY DEF Reply, PartialSuccess, Updating
    <3>2. r < try[t]
      BY <3>1, TableFacts DEF Replicas
    <3> QED BY <1>0, <1>2, <3>2 DEF ThreadInv, SweepCovers
  <2> QED BY <2>1, <2>2
<1>3. \A r \in Replicas \ disabled : copy[r] = val[t]
  BY <1>1, <1>2 DEF Whole
<1> QED BY <1>3 DEF Agree

(* An update a thread has under way is the only one.                       *)
LEMMA OnlyUpdate ==
  ASSUME OneUpdater, NEW t \in Threads, Updating(t), NEW u \in Threads, u # t
  PROVE  ~Updating(u)
  BY DEF OneUpdater, Updating

LEMMA CopyStep == CopyInv /\ OneUpdater /\ [MNext]_mvars => CopyInv'
<1> SUFFICES ASSUME CopyInv, OneUpdater, [MNext]_mvars PROVE CopyInv'
  OBVIOUS
<1>0. MTypeInv /\ TypeOK /\ MTypeOK /\ MTypeInv'
  BY MTypeStep DEF CopyInv, MTypeInv, IInv
<1>1. CASE UNCHANGED mvars
  BY <1>0, <1>1 DEF CopyInv, Rejecting, Idle, Whole, Agree, Updating, mvars, contents, vars,
     work, shared
<1>o. ASSUME NEW t \in Threads, MStep(t), NEW u \in Threads, u # t
      PROVE  /\ Rejecting(u)' /\ Idle(u)' /\ (Updating(u)' <=> Updating(u))
             /\ took'[u] = took[u] /\ short'[u] = short[u] /\ val'[u] = val[u]
  BY <1>0, <1>o, MOthersRest DEF Rests, Rejecting, Idle, Updating, CopyInv
<1>r. ASSUME NEW t \in Threads, NEW a, Return(t, a)
      PROVE  Rejecting(t)' /\ Idle(t)' /\ ~Updating(t)'
  BY <1>0, <1>r DEF Return, TypeOK, Rejecting, Idle, Updating
(* The thread that steps, with the copies as they were.                     *)
<1>k. ASSUME NEW t \in Threads, MStep(t), copy' = copy, disabled \subseteq disabled',
             Updating(t)' <=> Updating(t),
             Updating(t) => took'[t] = took[t] /\ short'[t] = short[t] /\ val'[t] = val[t],
             Whole
      PROVE  Whole'
  <2>1. ASSUME NEW u \in Threads
        PROVE  /\ Updating(u)' <=> Updating(u)
               /\ Updating(u) => took'[u] = took[u] /\ short'[u] = short[u] /\ val'[u] = val[u]
    <3>1. CASE u = t
      BY <1>k, <3>1
    <3>2. CASE u # t
      BY <1>k, <1>o, <3>2
    <3> QED BY <3>1, <3>2
  <2>2. (\A u \in Threads : ~Updating(u)') => Agree'
    BY <1>k, <2>1 DEF Whole, Agree
  <2>3. ASSUME NEW u \in Threads, Updating(u)', NEW r \in took'[u] \ short'[u]
        PROVE  copy'[r] = val'[u]
    BY <1>k, <2>1, <2>3 DEF Whole
  <2> QED BY <2>2, <2>3 DEF Whole
<1>2. ASSUME NEW t \in Threads, MStep(t)
      PROVE  Rejecting(t)' /\ Idle(t)' /\ (sound' => Whole')
  <2>1. CASE \E h \in Handlers : MBegin(t, h)
    <3>1. /\ pc[t] = "idle" /\ took' = took /\ short' = short /\ disabled' = disabled
          /\ copy' = copy /\ sound' = sound
      BY <2>1 DEF MBegin, Begin, shared
    <3>2. took[t] = {}
      BY <3>1 DEF CopyInv, Idle
    <3>3. Whole => Whole'
      BY <1>2, <1>k, <3>1, <3>2 DEF Updating
    <3> QED BY <3>1, <3>2, <3>3 DEF CopyInv, Rejecting, Idle
  <2>2. CASE Inner(t) /\ UNCHANGED contents
    <3>1. /\ UNCHANGED <<op, took, short, copy, val, sound>> /\ disabled \subseteq disabled'
          /\ (pc[t] = "idle" <=> pc'[t] = "idle")
      BY <1>0, <2>2, InnerKeeps DEF contents
    <3>2. Whole => Whole'
      BY <1>2, <1>k, <3>1 DEF Updating
    <3> QED BY <3>1, <3>2 DEF CopyInv, Rejecting, Idle
  <2>3. ASSUME NEW r \in Replicas, NEW partly \in BOOLEAN, MCallSucceeds(t, r, partly)
        PROVE  Rejecting(t)' /\ Idle(t)' /\ (sound' => Whole')
    <3>1. /\ ~op[t].rejects /\ op' = op /\ disabled' = disabled /\ sound' = sound
          /\ took'[t] = took[t] \cup {r}
          /\ short'[t] = IF partly THEN short[t] \cup {r} ELSE short[t]
      BY <1>0, <2>3 DEF MCallSucceeds, CallSucceeds, Trying, shared, TypeOK
    <3>2. op[t].updates => op[t].loop = "all"
      BY <1>0, HandlersUpdate DEF TypeOK
    <3>3. Rejecting(t)' /\ Idle(t)'
      BY <1>0, <2>3, <3>1, TableFacts DEF Rejecting, Idle, MCallSucceeds, CallSucceeds, GoTo, TypeOK
    <3>4. ASSUME Whole, op[t].updates PROVE Whole'
      <4>1. val' = val /\ copy' = [copy EXCEPT ![r] = IF partly THEN Torn ELSE val[t]]
        BY <2>3, <3>2, <3>4 DEF MCallSucceeds
      <4>2. Updating(t)'
        BY <3>1, <3>4 DEF Updating
      <4>3. ASSUME NEW s \in took'[t] \ short'[t] PROVE copy'[s] = val'[t]
        <5>1. CASE s = r
          BY <1>0, <3>1, <4>1, <4>3, <5>1 DEF MTypeOK
        <5>2. CASE s # r
          <6>1. s \in took[t] \ short[t] /\ s \in Replicas
            BY <1>0, <3>1, <4>3, <5>2 DEF TypeOK
          <6>2. copy[s] = val[t]
            BY <3>4, <6>1 DEF Whole, Updating
          <6> QED BY <1>0, <4>1, <5>2, <6>1, <6>2 DEF MTypeOK
        <5> QED BY <5>1, <5>2
      <4>4. \A u \in Threads : Updating(u)' => u = t
        BY <3>1, <3>4 DEF OneUpdater, Updating
      <4> QED BY <4>2, <4>3, <4>4 DEF Whole
    <3>5. ASSUME Whole, ~op[t].updates PROVE Whole'
      <4>1. copy' = copy /\ ~Updating(t) /\ ~Updating(t)'
        BY <2>3, <3>1, <3>5 DEF MCallSucceeds, Updating
      <4> QED BY <1>2, <1>k, <3>1, <3>5, <4>1
    <3> QED BY <3>1, <3>3, <3>4, <3>5 DEF CopyInv
  <2>4. ASSUME NEW r \in Replicas, MUnsupported(t, r)
        PROVE  Rejecting(t)' /\ Idle(t)' /\ (sound' => Whole')
    <3>1. /\ took[t] = {} /\ disabled' = disabled /\ copy' = copy /\ sound' = sound
          /\ Return(t, "nosys")
      BY <2>4 DEF MUnsupported, Unsupported, Return, shared, CopyInv, Rejecting
    <3>2. Whole => Whole'
      BY <1>2, <1>k, <1>r, <3>1 DEF Updating
    <3> QED BY <1>r, <3>1, <3>2 DEF CopyInv
  <2>5. CASE MReply(t)
    <3>1. PICK a \in Results : Return(t, a)
      BY <2>5 DEF MReply, Reply, GetFirstError, Results
    <3>2. /\ Reply(t) /\ disabled' = disabled /\ copy' = copy
          /\ sound' = (sound /\ ~Spoils(t))
      BY <2>5, <3>1 DEF MReply, Return, shared
    <3>3. ASSUME sound, ~Spoils(t), Updating(t) PROVE Whole'
      <4>1. Agree
        BY <1>0, <3>2, <3>3, ReplyMirrors DEF CopyInv
      <4>2. \A u \in Threads : ~Updating(u)'
        BY <1>2, <1>o, <1>r, <3>1, <3>3, OnlyUpdate
      <4> QED BY <3>2, <4>1, <4>2 DEF Whole, Agree
    <3>4. ASSUME sound, ~Updating(t) PROVE Whole'
      BY <1>2, <1>k, <1>r, <3>1, <3>2, <3>4 DEF CopyInv
    <3> QED BY <1>r, <3>1, <3>2, <3>3, <3>4
  <2> QED BY <1>2, <2>1, <2>2, <2>3, <2>4, <2>5 DEF MStep
<1> QED BY <1>0, <1>1, <1>2, <1>o DEF MNext, CopyInv

LEMMA CopyMirrors == CopyInv => Mirrored
<1> SUFFICES ASSUME CopyInv, sound, \A t \in Threads : ~op[t].updates PROVE Agree
  BY DEF Mirrored, Agree
<1>1. \A t \in Threads : ~Updating(t)
  BY DEF Updating
<1> QED BY <1>1 DEF CopyInv, Whole

(* Whatever the number of threads, and whatever the readers among them do   *)
(* to the turns and to the flags: as long as no two updates of the file     *)
(* run at once, the replicas in use hold the same content after each (the   *)
(* loop of an updating handler and disable_faulty_replicas after it).      *)
THEOREM SerialUpdatesMirror == MSpec /\ []OneUpdater => []Mirrored
<1>1. MInit => CopyInv
  BY InitCopyInv
<1>2. CopyInv /\ OneUpdater /\ [MNext]_mvars => CopyInv'
  BY CopyStep
<1>3. CopyInv => Mirrored
  BY CopyMirrors
<1> QED BY <1>1, <1>2, <1>3, PTL DEF MSpec

LEMMA MInvStep ==
  ASSUME OneThread
  PROVE  MInv /\ [MNext]_mvars => MInv'
<1>1. OneUpdater
  BY DEF OneThread, OneUpdater
<1> QED BY <1>1, MirrorStep, SerialStep, CopyStep DEF MInv

(* On a mount with -s the updates need no such promise.                    *)
THEOREM ReplicasAgree ==
  ASSUME OneThread
  PROVE  MSpec => []Mirrored
<1>1. MInit => MInv
  BY InitMInv
<1>2. MInv /\ [MNext]_mvars => MInv'
  BY MInvStep
<1>3. MInv => Mirrored
  BY CopyMirrors DEF MInv
<1> QED BY <1>1, <1>2, <1>3, PTL DEF MSpec

-----------------------------------------------------------------------------
(***************************************************************************)
(* The refinement: each step of Mirror is a step of SingleCopy, or changes  *)
(* nothing there.                                                          *)
(***************************************************************************)

(* The content of the mapping is what a replica in use holds, or what the   *)
(* update in progress writes.                                              *)
LEMMA ContentIsCopy ==
  ASSUME MInv, Agree, \A t \in Threads : ~Updating(t), NEW r \in Replicas \ disabled
  PROVE  Content = copy[r]
<1> DEFINE s == CHOOSE s \in Replicas : disabled # Replicas => s \notin disabled
<1>1. disabled # Replicas /\ disabled \subseteq Replicas
  BY DEF MInv, SerialInv, SomeReplicaEnabled, IInv, TypeOK
<1>2. s \in Replicas \ disabled
  BY <1>1
<1>3. Content = copy[s]
  BY DEF Content
<1> QED BY <1>2, <1>3 DEF Agree

LEMMA ContentIsVal ==
  ASSUME OneThread, NEW t \in Threads, Updating(t)
  PROVE  Content = val[t]
  BY DEF OneThread, Content

(* The same two of the next state.                                         *)
LEMMA NextContentIsCopy ==
  ASSUME MInv', Agree', \A t \in Threads : ~Updating(t)', NEW r \in Replicas \ disabled'
  PROVE  Content' = copy'[r]
<1> DEFINE s == CHOOSE s \in Replicas : disabled' # Replicas => s \notin disabled'
<1>1. disabled' # Replicas /\ disabled' \subseteq Replicas
  BY DEF MInv, SerialInv, SomeReplicaEnabled, IInv, TypeOK
<1>2. s \in Replicas \ disabled'
  BY <1>1
<1>3. Content' = copy'[s]
  BY DEF Content
<1> QED BY <1>2, <1>3 DEF Agree

LEMMA NextContentIsVal ==
  ASSUME OneThread, NEW t \in Threads, Updating(t)'
  PROVE  Content' = val'[t]
  BY DEF OneThread, Content

(* A step that begins and ends no update leaves the content.                *)
LEMMA ContentStays ==
  ASSUME OneThread, MInv, MInv', sound, sound', NEW t \in Threads,
         ~Updating(t), ~Updating(t)', copy' = copy, disabled \subseteq disabled'
  PROVE  Content' = Content
<1>1. Agree /\ Agree'
  BY DEF MInv, CopyInv, Whole, OneThread
<1>2. PICK r \in Replicas \ disabled' : TRUE
  BY DEF MInv, SerialInv, SomeReplicaEnabled, IInv, TypeOK
<1>3. Content = copy[r]
  BY <1>1, <1>2, ContentIsCopy DEF OneThread
<1>4. Content' = copy'[r]
  BY <1>1, <1>2, NextContentIsCopy DEF OneThread
<1> QED BY <1>3, <1>4

(* The abstract request and whether it is done, of the only thread.         *)
Asked == [t \in Threads |-> Request(t)]
Taken == [t \in Threads |-> took[t] # {}]

LEMMA OnlyThread ==
  ASSUME OneThread, NEW t \in Threads
  PROVE  /\ Asked' = [Asked EXCEPT ![t] = Request(t)']
         /\ Taken' = [Taken EXCEPT ![t] = (took'[t] # {})]
         /\ Asked[t] = Request(t) /\ Taken[t] = (took[t] # {})
  BY DEF OneThread, Asked, Taken

(* Refinement, action by action.                                           *)
LEMMA BeginAsks ==
  ASSUME OneThread, MInv, MInv', sound, sound', NEW t \in Threads, NEW h \in Handlers,
         MBegin(t, h)
  PROVE  \E k \in SC!Requests : SC!Ask(t, k)
<1>0. TypeOK /\ MTypeOK /\ Outcome(t)
  BY DEF MInv, CopyInv, MTypeInv, SerialInv, IInv, SerialThread
<1>1. /\ pc[t] = "idle" /\ pc'[t] # "idle" /\ op'[t] = h
      /\ took[t] = {} /\ took' = took /\ disabled' = disabled /\ copy' = copy
      /\ ret' = [ret EXCEPT ![t] = "none"]
  BY <1>0, TableFacts DEF MBegin, Begin, GoTo, shared, Outcome, TypeOK
<1>2. Content' = Content
  BY <1>1, ContentStays DEF Updating
<1>3. Request(t)' \in SC!Requests /\ (Request(t)' \in {"update", "create"} <=> h.updates)
  BY <1>1 DEF Request, SC!Requests
<1>4. Asked[t] = "none" /\ Asked' = [Asked EXCEPT ![t] = Request(t)'] /\ Taken' = Taken
  BY <1>1, OnlyThread DEF Request, Taken
<1>5. IF Request(t)' \in {"update", "create"}
        THEN \E v \in Values : val' = [val EXCEPT ![t] = v]
        ELSE UNCHANGED val
  BY <1>3 DEF MBegin
<1>6. SC!Ask(t, Request(t)')
  BY <1>1, <1>2, <1>4, <1>5 DEF SC!Ask, Asked, Taken
<1> QED BY <1>3, <1>6

LEMMA InnerStutters ==
  ASSUME OneThread, MInv, MInv', sound, sound', NEW t \in Threads,
         Inner(t), UNCHANGED contents
  PROVE  SC!Refuse(t) \/ UNCHANGED <<Content, Asked, Taken, val, ret>>
<1>0. TypeOK
  BY DEF MInv, SerialInv, IInv
<1>1. /\ op' = op /\ took' = took /\ (pc[t] = "idle" <=> pc'[t] = "idle")
      /\ disabled \subseteq disabled' /\ copy' = copy /\ val' = val
  BY <1>0, InnerKeeps DEF contents
<1>2. Content' = Content
  <2>1. CASE Updating(t)
    BY <1>1, <2>1, ContentIsVal, NextContentIsVal DEF Updating
  <2>2. CASE ~Updating(t)
    BY <1>1, <2>2, ContentStays DEF Updating
  <2> QED BY <2>1, <2>2
<1>3. Asked' = Asked /\ Taken' = Taken
  BY <1>1 DEF Asked, Taken, Request, OneThread
<1>4. CASE Refuse(t)
  <2>1. Asked[t] = "none" /\ ret' = [ret EXCEPT ![t] = "refused"]
    BY <1>4, OnlyThread DEF Refuse, Request
  <2> QED BY <1>1, <1>2, <1>3, <2>1 DEF SC!Refuse, Asked, Taken
<1>5. CASE ~Refuse(t)
  <2>1. ret' = ret
    BY <1>5 DEF Inner, LoadTurn, StoreTurn, Choose, SkipDisabled, Test, Sweep,
       NoPath, CallFails
  <2> QED BY <1>1, <1>2, <1>3, <2>1
<1> QED BY <1>4, <1>5

LEMMA SuccessCarries ==
  ASSUME OneThread, MInv, MInv', sound, sound', NEW t \in Threads, NEW r \in Replicas,
         NEW partly \in BOOLEAN, MCallSucceeds(t, r, partly)
  PROVE  SC!Carry(t) \/ UNCHANGED <<Content, Asked, Taken, val, ret>>
<1>0. TypeOK /\ MTypeOK /\ Outcome(t) /\ FirstBehind(t) /\ StillEnabled(t)
  BY DEF MInv, CopyInv, MTypeInv, SerialInv, IInv, SerialThread
<1>1. /\ pc[t] = "call" /\ pc'[t] # "idle" /\ op' = op /\ disabled' = disabled
      /\ took'[t] = took[t] \cup {r} /\ r \notin disabled /\ ret' = ret
      /\ op[t].loop \in {"first", "all"}
  BY <1>0 DEF MCallSucceeds, CallSucceeds, Trying, shared, TypeOK, GoTo, Outcome, StillEnabled
<1>2. /\ op[t].updates => op[t].loop = "all"
      /\ op[t].updates \in BOOLEAN
      /\ op[t].loop = "first" => took[t] = {}
  BY <1>0, <1>1, HandlersUpdate DEF TypeOK, FirstBehind
<1>3. Request(t)' = Request(t) /\ Request(t) # "none" /\ Asked' = Asked
  BY <1>1, OnlyThread DEF Request, Asked, OneThread
<1>4. /\ Taken' = [Taken EXCEPT ![t] = TRUE] /\ Asked[t] = Request(t)
      /\ Taken[t] = (took[t] # {})
  BY <1>1, OnlyThread
<1>5. CASE op[t].updates
  <2>1. val' = val /\ Content' = val[t]
    <3>1. Updating(t)'
      BY <1>1, <1>5 DEF Updating
    <3> QED BY <1>2, <1>5, <3>1, NextContentIsVal DEF MCallSucceeds
  <2>2. CASE took[t] = {}
    BY <1>1, <1>3, <1>4, <1>5, <2>1, <2>2 DEF SC!Carry, Asked, Taken, Request
  <2>3. CASE took[t] # {}
    <3>1. Content = val[t]
      BY <1>5, <2>3, ContentIsVal DEF Updating
    <3>2. Taken' = Taken
      BY <1>1, <2>3 DEF Taken, OneThread
    <3> QED BY <1>1, <1>3, <2>1, <3>1, <3>2
  <2> QED BY <2>2, <2>3
<1>6. CASE ~op[t].updates
  <2>1. ~Updating(t) /\ ~Updating(t)' /\ copy' = copy
    BY <1>1, <1>6 DEF Updating, MCallSucceeds
  <2>2. Content' = Content
    BY <1>1, <2>1, ContentStays
  <2>3. Content = copy[r]
    <3>1. Agree
      BY <2>1 DEF MInv, CopyInv, Whole, OneThread
    <3> QED BY <1>1, <2>1, <3>1, ContentIsCopy DEF OneThread
  <2>4. CASE op[t].loop = "first"
    <3>1. val' = [val EXCEPT ![t] = Content] /\ Request(t) = "read"
      BY <1>1, <1>6, <2>3, <2>4 DEF MCallSucceeds, Request
    <3> QED BY <1>1, <1>2, <1>3, <1>4, <2>2, <2>4, <3>1 DEF SC!Carry, Asked, Taken
  <2>5. CASE op[t].loop = "all"
    <3>1. val' = val /\ Request(t) = "open"
      BY <1>1, <1>6, <2>5 DEF MCallSucceeds, Request
    <3>2. CASE took[t] = {}
      BY <1>1, <1>3, <1>4, <2>2, <3>1, <3>2 DEF SC!Carry, Asked, Taken
    <3>3. CASE took[t] # {}
      <4>1. Taken' = Taken
        BY <1>1, <3>3 DEF Taken, OneThread
      <4> QED BY <1>1, <1>3, <2>2, <3>1, <4>1
    <3> QED BY <3>2, <3>3
  <2> QED BY <1>1, <2>4, <2>5
<1> QED BY <1>2, <1>5, <1>6

(* A reply that says 0 though no replica took the request.                 *)
LEMMA ErrorIsReported ==
  ASSUME MInv, NEW t \in Threads, Reply(t), took[t] = {}, passed[t] = {}
  PROVE  GetFirstError(disabled, failed[t]) = "error"
<1> SUFFICES ASSUME failed[t] \subseteq disabled PROVE FALSE
  BY DEF GetFirstError
<1>1. /\ pc[t] = "sweep" /\ TypeOK /\ Outcome(t) /\ FirstEnds(t) /\ LoopCovers(t)
      /\ SomeReplicaEnabled
  BY DEF Reply, MInv, SerialInv, IInv, SerialThread, LoopInv, ThreadInv
<1>2. failed[t] = {}
  BY <1>1 DEF Outcome
<1>3. Replicas \subseteq disabled
  BY <1>1, <1>2 DEF Outcome, FirstEnds, LoopCovers, Accounted
<1> QED BY <1>1, <1>3 DEF SomeReplicaEnabled, TypeOK

LEMMA ReplyAnswers ==
  ASSUME OneThread, MInv, MInv', sound, sound', NEW t \in Threads, MReply(t)
  PROVE  SC!Answer(t)
<1>0. TypeOK /\ MTypeOK /\ Outcome(t)
  BY DEF MInv, CopyInv, MTypeInv, SerialInv, IInv, SerialThread
<1>1. /\ Reply(t) /\ pc[t] = "sweep" /\ pc'[t] = "idle" /\ took'[t] = {}
      /\ disabled' = disabled /\ copy' = copy /\ val' = [val EXCEPT ![t] = NoValue]
      /\ ~Spoils(t)
  BY <1>0 DEF MReply, Reply, Return, shared, TypeOK
<1>2. Content' = Content
  <2>1. ~Updating(t)' /\ Agree'
    BY <1>1 DEF Updating, MInv, CopyInv, Whole, OneThread
  <2>2. CASE Updating(t)
    <3>1. PICK r \in Replicas \ disabled : r \in took[t] \ short[t]
      <4>1. PICK r \in took[t] : TRUE
        BY <2>2 DEF Updating
      <4> QED BY <1>0, <1>1, <4>1 DEF Spoils, Outcome, TypeOK
    <3>2. copy[r] = val[t]
      BY <2>2, <3>1 DEF MInv, CopyInv, Whole
    <3>3. Content' = copy'[r]
      BY <1>1, <2>1, <3>1, NextContentIsCopy DEF OneThread
    <3> QED BY <1>1, <2>2, <3>2, <3>3, ContentIsVal
  <2>3. CASE ~Updating(t)
    BY <1>1, <2>1, <2>3, ContentStays
  <2> QED BY <2>2, <2>3
<1>3. /\ Asked' = [Asked EXCEPT ![t] = "none"] /\ Taken' = [Taken EXCEPT ![t] = FALSE]
      /\ Asked[t] = Request(t) /\ Request(t) # "none" /\ Taken[t] = (took[t] # {})
  BY <1>1, OnlyThread DEF Request
<1>4. \E a \in SC!Answers(t) : ret' = [ret EXCEPT ![t] = a]
  <2>1. CASE took[t] = {}
    <3>1. passed[t] = {}
      BY <1>1, <2>1 DEF Spoils
    <3>2. ret' = [ret EXCEPT ![t] = "error"]
      BY <1>1, <2>1, <3>1, ErrorIsReported DEF Reply, Return
    <3> QED BY <1>3, <2>1, <3>2 DEF SC!Answers, Taken
  <2>2. CASE took[t] # {} /\ ret' = [ret EXCEPT ![t] = "ok"]
    BY <1>3, <2>2 DEF SC!Answers, Taken
  <2>3. CASE took[t] # {} /\ op[t].table /\ ret' = [ret EXCEPT ![t] = "emfile"]
    <3>1. Request(t) \in {"create", "open"}
      BY <1>0, <1>1, <2>3, HandlersUpdate DEF Request, TypeOK
    <3> QED BY <1>3, <2>3, <3>1 DEF SC!Answers, Asked, Taken
  <2> QED BY <1>1, <2>1, <2>2, <2>3 DEF Reply, Return
<1> QED BY <1>1, <1>2, <1>3, <1>4 DEF SC!Answer, Asked, Taken

LEMMA UnsupportedAnswers ==
  ASSUME OneThread, MInv, MInv', sound, sound', NEW t \in Threads, NEW r \in Replicas,
         MUnsupported(t, r)
  PROVE  SC!Answer(t)
<1>0. TypeOK /\ MTypeOK /\ Rejecting(t)
  BY DEF MInv, CopyInv, MTypeInv, SerialInv, IInv
<1>1. /\ pc[t] = "call" /\ pc'[t] = "idle" /\ took[t] = {} /\ took'[t] = {}
      /\ disabled' = disabled /\ copy' = copy /\ val' = [val EXCEPT ![t] = NoValue]
      /\ ret' = [ret EXCEPT ![t] = "nosys"]
  BY <1>0 DEF MUnsupported, Unsupported, Trying, Return, shared, TypeOK, Rejecting
<1>2. Content' = Content
  BY <1>1, ContentStays DEF Updating
<1>3. /\ Asked' = [Asked EXCEPT ![t] = "none"] /\ Taken' = [Taken EXCEPT ![t] = FALSE]
      /\ Asked[t] # "none" /\ Taken[t] = FALSE
  BY <1>1, OnlyThread DEF Request
<1> QED BY <1>1, <1>2, <1>3 DEF SC!Answer, SC!Answers, Asked, Taken

LEMMA RefinementStep ==
  ASSUME OneThread, MInv, MInv', [MNext]_mvars
  PROVE  [SC!Next]_SC!scvars
<1>1. CASE UNCHANGED mvars
  <2>1. UNCHANGED <<Content, Asked, Taken, val, ret, sound>>
    BY <1>1 DEF mvars, contents, vars, work, shared, Content, Asked, Taken, Request, Updating
  <2> QED BY <2>1 DEF SC!scvars, Asked, Taken
<1>2. CASE ~sound'
  BY <1>2 DEF SC!Next
<1>3. ASSUME NEW t \in Threads, sound', ~UNCHANGED mvars, MStep(t)
      PROVE  [SC!Next]_SC!scvars
  <2>1. sound /\ sound' = sound
    BY <1>3 DEF MStep, MBegin, contents, MCallSucceeds, MUnsupported, MReply, MInv, CopyInv,
       MTypeInv, MTypeOK
  <2>2. SC!Serve(t) => SC!Next
    BY <2>1 DEF SC!Next
  <2>3. UNCHANGED <<Content, Asked, Taken, val, ret>> => UNCHANGED SC!scvars
    BY <2>1 DEF SC!scvars, Asked, Taken
  <2>4. SC!Serve(t) \/ UNCHANGED <<Content, Asked, Taken, val, ret>>
    BY <1>3, <2>1, BeginAsks, InnerStutters, SuccessCarries, UnsupportedAnswers, ReplyAnswers
    DEF MStep, SC!Serve
  <2> QED BY <2>2, <2>3, <2>4
<1> QED BY <1>1, <1>2, <1>3 DEF MNext

(* A mount with -s is one disk to its users: the loops of the handlers,     *)
(* choose_replica, disable_faulty_replicas and get_first_error together    *)
(* implement SingleCopy.                                                   *)
THEOREM MirrorIsOneDisk ==
  ASSUME OneThread
  PROVE  MSpec => OneDisk
<1>1. MInit => MInv
  BY InitMInv
<1>2. MInv /\ [MNext]_mvars => MInv'
  BY MInvStep
<1>3. MInit => SC!Init
  <2> SUFFICES ASSUME MInit PROVE SC!Init
    OBVIOUS
  <2>1. PICK v \in Values : copy = [r \in Replicas |-> v]
    BY DEF MInit
  <2>2. Content = v
    <3>1. \A t \in Threads : ~Updating(t)
      BY DEF MInit, Init, Updating
    <3>2. 0 \in Replicas /\ disabled = {}
      BY TableFacts DEF Replicas, MInit, Init
    <3> QED BY <2>1, <3>1, <3>2 DEF Content
  <2>3. Asked = [t \in Threads |-> "none"] /\ Taken = [t \in Threads |-> FALSE]
    BY DEF Asked, Taken, Request, MInit, Init
  <2> QED BY <2>1, <2>2, <2>3 DEF SC!Init, MInit, Init, Asked, Taken
<1>4. MInv /\ MInv' /\ [MNext]_mvars => [SC!Next]_SC!scvars
  BY RefinementStep
<1> QED BY <1>1, <1>2, <1>3, <1>4, PTL DEF MSpec, OneDisk, SC!Spec

=============================================================================
