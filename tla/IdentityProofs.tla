---------------------------- MODULE IdentityProofs ----------------------------
(***************************************************************************)
(* Theorems about the ids of the process, for any number of threads, of     *)
(* users and of replicas, and for a daemon of any user.                    *)
(***************************************************************************)
EXTENDS Identity, ReplicaOpsProofs

(* While one thread is alone, all others are between two requests.          *)
OthersOut ==
  \A t, u \in Threads : (alone[t] /\ stage[t] # "out" /\ u # t) => stage[u] = "out"

IdInv == ITypeOK /\ NoIdOutlives /\ OthersOut

LEMMA InitIdInv == IInit => IdInv
  BY DEF IInit, IdInv, ITypeOK, NoIdOutlives, OthersOut, Ids, Stages

LEMMA IdStep == IdInv /\ [INext]_ivars => IdInv'
<1> SUFFICES ASSUME IdInv, [INext]_ivars PROVE IdInv'
  OBVIOUS
<1> USE DEF IdInv, ITypeOK, Stages
<1>1. CASE UNCHANGED ivars
  BY <1>1 DEF ivars, ids, context, NoIdOutlives, OthersOut
<1>2. ASSUME NEW t \in Threads, NEW u \in Users, NEW p \in SUBSET Users, DropGid(t, u, p)
      PROVE  IdInv'
  <2>1. ITypeOK'
    BY <1>2 DEF DropGid, Ids
  <2>2. NoIdOutlives'
    BY <1>2 DEF DropGid, NoIdOutlives
  <2>3. OthersOut'
    BY <1>2 DEF DropGid, OthersOut
  <2> QED BY <2>1, <2>2, <2>3
<1>3. ASSUME NEW t \in Threads, DropUid(t)
      PROVE  IdInv'
  <2>1. ITypeOK'
    BY <1>3 DEF DropUid, context
  <2>2. NoIdOutlives' /\ OthersOut'
    BY <1>3 DEF DropUid, context, NoIdOutlives, OthersOut
  <2> QED BY <2>1, <2>2
<1>4. ASSUME NEW t \in Threads,
             (\E h \in Handlers : Enter(t, h)) \/ Inside(t) \/ Leave(t) \/ LeaveEarly(t)
      PROVE  IdInv'
  <2>1. /\ UNCHANGED <<ids, context, alone>>
        /\ \/ stage[t] = "enter" /\ stage' = [stage EXCEPT ![t] = "serve"]
           \/ stage' = stage
           \/ stage[t] \in {"enter", "serve"} /\ stage' = [stage EXCEPT ![t] = "backuid"]
    BY <1>4 DEF Enter, Inside, Leave, LeaveEarly
  <2>2. ITypeOK'
    BY <2>1 DEF ids, context
  <2>3. NoIdOutlives' /\ OthersOut'
    BY <2>1 DEF ids, context, NoIdOutlives, OthersOut
  <2> QED BY <2>2, <2>3
<1>5. ASSUME NEW t \in Threads, BackUid(t)
      PROVE  IdInv'
  <2>1. ITypeOK'
    BY <1>5 DEF BackUid, context, Ids
  <2>2. NoIdOutlives' /\ OthersOut'
    BY <1>5 DEF BackUid, context, NoIdOutlives, OthersOut
  <2> QED BY <2>1, <2>2
<1>6. ASSUME NEW t \in Threads, BackGid(t)
      PROVE  IdInv'
  <2>1. ITypeOK'
    BY <1>6 DEF BackGid, Ids
  <2>2. NoIdOutlives' /\ OthersOut'
    BY <1>6 DEF BackGid, NoIdOutlives, OthersOut
  <2> QED BY <2>1, <2>2
<1> QED BY <1>1, <1>2, <1>3, <1>4, <1>5, <1>6 DEF INext

(* drop_priv and reacquire_priv (fs.c:228-262): whatever order the requests *)
(* call them in, and whichever calls fail, the process never keeps an      *)
(* identity nobody is being served under.                                  *)
THEOREM IdentityEnds == ISpec => []NoIdOutlives
<1>1. IInit => IdInv
  BY InitIdInv
<1>2. IdInv /\ [INext]_ivars => IdInv'
  BY IdStep
<1>3. IdInv => NoIdOutlives
  BY DEF IdInv
<1> QED BY <1>1, <1>2, <1>3, PTL DEF ISpec

(* The ids are always those of somebody, and every thread at a known stage. *)
THEOREM IdentityTyped == ISpec => []ITypeOK
<1>1. IInit => IdInv
  BY InitIdInv
<1>2. IdInv /\ [INext]_ivars => IdInv'
  BY IdStep
<1>3. IdInv => ITypeOK
  BY DEF IdInv
<1> QED BY <1>1, <1>2, <1>3, PTL DEF ISpec

-----------------------------------------------------------------------------
(***************************************************************************)
(* A request that meets no other one.                                      *)
(***************************************************************************)

(* The ids a daemon of root has while one request is alone.                *)
OwnIds ==
  \A t \in Threads : (Daemon = Root /\ alone[t]) =>
    /\ stage[t] = "dropuid" => euid = Daemon /\ egid = caller[t]
    /\ stage[t] \in {"enter", "serve"} => euid = caller[t] /\ egid = caller[t]

(* With no request being served, the ids are the daemon's.                 *)
LEMMA NobodyInside ==
  ASSUME IdInv, \A t \in Threads : stage[t] = "out"
  PROVE  euid = Daemon /\ egid = Daemon
  BY DEF IdInv, NoIdOutlives

(* Only a thread that enters can move while one is alone, and it ends that. *)
LEMMA AloneRests ==
  ASSUME IdInv, NEW t \in Threads, NEW u \in Threads, u # t,
         \/ \E h \in Handlers : Enter(u, h)
         \/ DropUid(u) \/ Inside(u) \/ Leave(u) \/ LeaveEarly(u) \/ BackUid(u) \/ BackGid(u)
  PROVE  ~alone[t] \/ stage[t] = "out"
<1>1. stage[u] # "out"
  BY DEF Enter, DropUid, Inside, Leave, LeaveEarly, BackUid, BackGid
<1> QED BY <1>1 DEF IdInv, OthersOut

LEMMA OwnIdsStep == IdInv /\ OwnIds /\ [INext]_ivars => OwnIds'
<1> SUFFICES ASSUME IdInv, OwnIds, [INext]_ivars, NEW x \in Threads, Daemon = Root, alone'[x],
                    stage'[x] \in {"dropuid", "enter", "serve"}
             PROVE  /\ stage'[x] = "dropuid" => euid' = Daemon /\ egid' = caller'[x]
                    /\ stage'[x] \in {"enter", "serve"} =>
                         euid' = caller'[x] /\ egid' = caller'[x]
  BY DEF OwnIds
<1> USE DEF ITypeOK, Stages
<1>0. ITypeOK
  BY DEF IdInv
<1>1. CASE UNCHANGED ivars
  BY <1>1 DEF ivars, ids, context, OwnIds
<1>2. ASSUME NEW t \in Threads, NEW u \in Users, NEW p \in SUBSET Users, DropGid(t, u, p)
      PROVE  t = x /\ euid' = Daemon /\ egid' = caller'[x] /\ stage'[x] = "dropuid"
  <2>1. t = x
    BY <1>0, <1>2 DEF DropGid
  <2>2. \A y \in Threads : stage[y] = "out"
    BY <1>0, <1>2, <2>1 DEF DropGid
  <2>3. euid = Daemon
    BY <2>2, NobodyInside
  <2> QED BY <1>0, <1>2, <2>1, <2>3 DEF DropGid, MaySet
<1>3. ASSUME NEW t \in Threads,
             \/ \E h \in Handlers : Enter(t, h)
             \/ DropUid(t) \/ Inside(t) \/ Leave(t) \/ LeaveEarly(t) \/ BackUid(t) \/ BackGid(t)
      PROVE  t = x
  <2> SUFFICES ASSUME t # x PROVE FALSE
    OBVIOUS
  <2>1. stage'[x] = stage[x] /\ alone'[x] = alone[x]
    BY <1>0, <1>3 DEF Enter, DropUid, Inside, Leave, LeaveEarly, BackUid, BackGid
  <2> QED BY <1>3, <2>1, AloneRests
<1>4. CASE DropUid(x)
  BY <1>0, <1>4 DEF DropUid, context, MaySet, OwnIds
<1>5. CASE (\E h \in Handlers : Enter(x, h)) \/ Inside(x)
  BY <1>0, <1>5 DEF Enter, Inside, ids, context, OwnIds
<1>6. ~Leave(x) /\ ~LeaveEarly(x) /\ ~BackUid(x) /\ ~BackGid(x)
  BY <1>0 DEF Leave, LeaveEarly, BackUid, BackGid
<1> QED BY <1>1, <1>2, <1>3, <1>4, <1>5, <1>6 DEF INext

(* A daemon of root that serves one request makes its calls as the caller.  *)
THEOREM AloneIsCaller == ISpec => []AloneAsCaller
<1>1. IInit => IdInv /\ OwnIds
  BY InitIdInv DEF IInit, OwnIds
<1>2. IdInv /\ OwnIds /\ [INext]_ivars => IdInv' /\ OwnIds'
  BY IdStep, OwnIdsStep
<1>3. IdInv /\ OwnIds => AloneAsCaller
  BY DEF OwnIds, AloneAsCaller
<1> QED BY <1>1, <1>2, <1>3, PTL DEF ISpec

(* The body of the handlers is that of ReplicaOps.                         *)
LEMMA IdentityStep == [INext]_ivars => [Next]_vars
<1>1. ASSUME NEW t \in Threads, Inside(t) PROVE Next
  BY <1>1 DEF Inside, Next, Step, Attempt
<1>2. ASSUME NEW t \in Threads, Leave(t) PROVE Next
  BY <1>2 DEF Leave, Next, Step, Attempt
<1>3. ASSUME NEW t \in Threads, NEW h \in Handlers, Enter(t, h) PROVE Next
  BY <1>3 DEF Enter, Next
<1>4. ASSUME NEW t \in Threads, LeaveEarly(t) PROVE Next
  BY <1>4 DEF LeaveEarly, Next
<1>5. ASSUME NEW t \in Threads,
             \/ DropUid(t) \/ BackUid(t) \/ BackGid(t)
             \/ \E u \in Users, p \in SUBSET Users : DropGid(t, u, p)
      PROVE  UNCHANGED vars
  BY <1>5 DEF DropUid, BackUid, BackGid, DropGid
<1>6. UNCHANGED ivars => UNCHANGED vars
  BY DEF ivars
<1> QED BY <1>1, <1>2, <1>3, <1>4, <1>5, <1>6 DEF INext

(* The ids only decide which calls fail: every behaviour of Identity is one *)
(* of ReplicaOps, so what is proved of the handlers holds here too.        *)
THEOREM IdentityIsReplicaOps == ISpec => Spec
<1>1. IInit => Init
  BY DEF IInit
<1> QED BY <1>1, IdentityStep, PTL DEF ISpec, Spec

(* While a request is alone, the same ids answer all its calls.             *)
OneAnswer ==
  \A t \in Threads :
    /\ stage[t] # "serve" => took[t] = {} /\ failed[t] = {}
    /\ (alone[t] /\ stage[t] = "serve") =>
         /\ took[t] # {} => Permitted(t)
         /\ failed[t] # {} => ~Permitted(t)

AnswerInv == IdInv /\ IInv /\ OneAnswer

LEMMA OneAnswerStep == AnswerInv /\ [INext]_ivars => OneAnswer'
<1> SUFFICES ASSUME AnswerInv, [INext]_ivars, NEW x \in Threads
             PROVE  /\ stage'[x] # "serve" => took'[x] = {} /\ failed'[x] = {}
                    /\ (alone'[x] /\ stage'[x] = "serve") =>
                         /\ took'[x] # {} => Permitted(x)'
                         /\ failed'[x] # {} => ~Permitted(x)'
  BY DEF OneAnswer
<1>0. ITypeOK /\ IdInv /\ TypeOK /\ OneAnswer
  BY DEF AnswerInv, IdInv, IInv
<1>1. CASE UNCHANGED ivars
  BY <1>0, <1>1 DEF ivars, vars, work, ids, context, OneAnswer, Permitted
<1>2. ASSUME NEW t \in Threads, NEW u \in Users, NEW p \in SUBSET Users, DropGid(t, u, p)
      PROVE  /\ took'[x] = took[x] /\ failed'[x] = failed[x]
             /\ stage'[x] = "serve" <=> stage[x] = "serve"
             /\ stage'[x] = "serve" => ~alone'[x]
  BY <1>0, <1>2 DEF DropGid, vars, work, ITypeOK
<1>3. ASSUME NEW t \in Threads, t # x,
             \/ \E h \in Handlers : Enter(t, h)
             \/ DropUid(t) \/ Inside(t) \/ Leave(t) \/ LeaveEarly(t) \/ BackUid(t) \/ BackGid(t)
      PROVE  /\ took'[x] = took[x] /\ failed'[x] = failed[x]
             /\ stage'[x] = stage[x] /\ alone'[x] = alone[x]
             /\ ~alone[x] \/ stage[x] = "out"
  <2>1. stage'[x] = stage[x] /\ alone'[x] = alone[x]
    BY <1>0, <1>3 DEF Enter, DropUid, Inside, Leave, LeaveEarly, BackUid, BackGid, ITypeOK
  <2>2. took'[x] = took[x] /\ failed'[x] = failed[x]
    <3>1. CASE DropUid(t) \/ BackUid(t) \/ BackGid(t)
      BY <3>1 DEF DropUid, BackUid, BackGid, vars, work
    <3>2. CASE (\E h \in Handlers : Enter(t, h)) \/ LeaveEarly(t)
      BY <3>2 DEF Enter, LeaveEarly, Begin, Refuse, work
    <3>3. CASE Inside(t)
      BY <1>0, <1>3, <3>3 DEF Inside, LoadTurn, StoreTurn, Choose, SkipDisabled, Test, Sweep,
         CallSucceeds, CallFails, work, TypeOK
    <3>4. CASE Leave(t)
      BY <1>0, <1>3, <3>4 DEF Leave, Reply, Unsupported, Return, TypeOK
    <3> QED BY <1>3, <3>1, <3>2, <3>3, <3>4
  <2> QED BY <1>0, <1>3, <2>1, <2>2, AloneRests
<1>4. CASE DropUid(x) \/ BackUid(x) \/ BackGid(x)
  BY <1>0, <1>4 DEF DropUid, BackUid, BackGid, vars, work, ITypeOK, OneAnswer
<1>5. CASE (\E h \in Handlers : Enter(x, h)) \/ LeaveEarly(x)
  BY <1>0, <1>5 DEF Enter, LeaveEarly, Begin, Refuse, work, ITypeOK, OneAnswer
<1>6. CASE Inside(x)
  <2>1. /\ stage[x] = "serve" /\ stage'[x] = "serve" /\ alone'[x] = alone[x]
        /\ UNCHANGED <<ids, context, op>>
    BY <1>6 DEF Inside, LoadTurn, StoreTurn, Choose, SkipDisabled, Test, Sweep, CallSucceeds,
       CallFails, work
  <2>2. Permitted(x)' = Permitted(x)
    BY <2>1 DEF Permitted, ids, context
  <2>3. \/ took'[x] = took[x] /\ failed'[x] = failed[x]
        \/ Permitted(x) /\ failed'[x] = failed[x]
        \/ ~Permitted(x) /\ took'[x] = took[x]
    BY <1>0, <1>6 DEF Inside, LoadTurn, StoreTurn, Choose, SkipDisabled, Test, Sweep,
       CallSucceeds, CallFails, work, TypeOK
  <2> QED BY <1>0, <2>1, <2>2, <2>3 DEF OneAnswer
<1>7. CASE Leave(x)
  <2>1. stage'[x] = "backuid" /\ took'[x] = {} /\ failed'[x] = {}
    BY <1>0, <1>7 DEF Leave, Reply, Unsupported, Return, TypeOK, ITypeOK
  <2> QED BY <2>1
<1>8. ASSUME NEW t \in Threads, NEW u \in Users, NEW p \in SUBSET Users, DropGid(t, u, p)
      PROVE  /\ stage'[x] # "serve" => took'[x] = {} /\ failed'[x] = {}
             /\ (alone'[x] /\ stage'[x] = "serve") =>
                  /\ took'[x] # {} => Permitted(x)'
                  /\ failed'[x] # {} => ~Permitted(x)'
  BY <1>0, <1>2, <1>8 DEF OneAnswer
<1>9. ASSUME NEW t \in Threads, t # x,
             \/ \E h \in Handlers : Enter(t, h)
             \/ DropUid(t) \/ Inside(t) \/ Leave(t) \/ LeaveEarly(t) \/ BackUid(t) \/ BackGid(t)
      PROVE  /\ stage'[x] # "serve" => took'[x] = {} /\ failed'[x] = {}
             /\ (alone'[x] /\ stage'[x] = "serve") =>
                  /\ took'[x] # {} => Permitted(x)'
                  /\ failed'[x] # {} => ~Permitted(x)'
  BY <1>0, <1>3, <1>9 DEF OneAnswer
<1> QED BY <1>1, <1>4, <1>5, <1>6, <1>7, <1>8, <1>9 DEF INext

LEMMA AnswerInvHolds ==
  /\ IInit => AnswerInv
  /\ AnswerInv /\ [INext]_ivars => AnswerInv'
<1>1. IInit => AnswerInv
  <2>1. IInit => IInv
    BY InitIInv DEF IInit
  <2>2. IInit => OneAnswer
    BY DEF IInit, Init, OneAnswer
  <2> QED BY <2>1, <2>2, InitIdInv DEF AnswerInv
<1>2. AnswerInv /\ [INext]_ivars => AnswerInv'
  <2>1. IInv /\ [INext]_ivars => IInv'
    BY IdentityStep, TypeStep, LoopStep, MissedStep DEF IInv
  <2> QED BY <2>1, IdStep, OneAnswerStep DEF AnswerInv
<1> QED BY <1>1, <1>2

(* A replica is disabled by the sweep of a request that failed on it and    *)
(* succeeded elsewhere.                                                    *)
LEMMA DisabledBySweep ==
  ASSUME AnswerInv, [INext]_ivars, NEW r \in disabled' \ disabled
  PROVE  \E t \in Threads : r \in failed[t] /\ took[t] # {} /\ stage[t] = "serve"
<1>1. PICK t \in Threads :
        \/ \E u \in Users, p \in SUBSET Users : DropGid(t, u, p)
        \/ DropUid(t) \/ BackUid(t) \/ BackGid(t) \/ LeaveEarly(t) \/ Leave(t)
        \/ \E h \in Handlers : Enter(t, h)
        \/ Inside(t)
  BY DEF INext, ivars, vars, shared
<1>2. CASE Inside(t)
  <2>1. Sweep(t)
    BY <1>2 DEF Inside, LoadTurn, StoreTurn, Choose, SkipDisabled, Test, CallSucceeds, CallFails,
       shared
  <2> QED BY <1>2, <2>1 DEF Inside, Sweep, PartialSuccess
<1>3. CASE ~Inside(t)
  BY <1>1, <1>3 DEF DropGid, DropUid, BackUid, BackGid, LeaveEarly, Leave, Enter, Begin,
     Refuse, Reply, Unsupported, Return, vars, shared
<1> QED BY <1>2, <1>3

(* A request that meets no other one disables no consistent replica, under *)
(* whatever ids the daemon runs.                                           *)
THEOREM AloneKeepsReplicas == ISpec => AloneDisablesNone
<1>1. /\ IInit => AnswerInv
      /\ AnswerInv /\ [INext]_ivars => AnswerInv'
  BY AnswerInvHolds
<1> DEFINE Step1 == \A r \in disabled' \ disabled :
              \E t \in Threads : r \in failed[t] /\ ~alone[t]
<1>2. AnswerInv /\ [INext]_ivars => [Step1]_ivars
  BY DisabledBySweep DEF AnswerInv, OneAnswer
<1> QED BY <1>1, <1>2, PTL DEF ISpec, AloneDisablesNone

(* With -s no consistent replica is ever disabled: every request is alone.  *)
THEOREM SerialKeepsReplicas ==
  ASSUME \A t, u \in Threads : t = u
  PROVE  ISpec => [](disabled = {})
<1> DEFINE AllAlone == AnswerInv /\ disabled = {} /\ \A t \in Threads : alone[t]
<1>1. IInit => AllAlone
  BY AnswerInvHolds DEF IInit, Init
<1>2. AllAlone /\ [INext]_ivars => AllAlone'
  <2> SUFFICES ASSUME AllAlone, [INext]_ivars PROVE AllAlone'
    OBVIOUS
  <2>1. AnswerInv'
    BY AnswerInvHolds
  <2>2. \A t \in Threads : alone'[t]
    BY DEF INext, DropGid, DropUid, Enter, Inside, Leave, LeaveEarly, BackUid, BackGid, ivars,
       AnswerInv, IdInv, ITypeOK
  <2>3. disabled' \subseteq {}
    BY DisabledBySweep DEF AnswerInv, OneAnswer
  <2> QED BY <2>1, <2>2, <2>3
<1>3. AllAlone => disabled = {}
  OBVIOUS
<1> QED BY <1>1, <1>2, <1>3, PTL DEF ISpec

=============================================================================
