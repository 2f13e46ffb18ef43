------------------------------- MODULE Identity -------------------------------
(***************************************************************************)
(* ReplicaOps with the identity its system calls are made under.  Every     *)
(* handler begins with drop_priv, which gives the process the group, then  *)
(* the user, of the caller, and ends with reacquire_priv, which takes them *)
(* back in the other order.  Both ids belong to the process, not to the    *)
(* thread; the results of both functions are ignored.                      *)
(*                                                                         *)
(* Nothing is wrong with the replicas here: they hold the same file with   *)
(* the same permissions, memory lasts, and a call fails exactly where      *)
(* the identity of the process at that moment is not permitted.            *)
(*                                                                         *)
(* A user stands for its uid and for its own group's gid.                  *)
(***************************************************************************)
EXTENDS ReplicaOps

CONSTANTS
  Users,     \* those who make requests
  Root,      \* the user 0
  Daemon     \* who started chironfs: config.uid, config.gid

Ids == Users \cup {Root, Daemon}

VARIABLES
  euid,      \* effective user of the process
  egid,      \* effective group of the process
  stage,     \* how far each thread is with the ids
  caller,    \* fuse_get_context(): who made the request
  permits,   \* the users, or groups, its file is open to
  alone      \* history: no other request has been served during this one

ids == <<euid, egid>>
context == <<caller, permits>>
ivars == <<vars, ids, stage, context, alone>>

Stages == {"out", "dropuid", "enter", "serve", "backuid", "backgid"}

ITypeOK ==
  /\ euid \in Ids /\ egid \in Ids
  /\ stage \in [Threads -> Stages]
  /\ caller \in [Threads -> Ids]
  /\ permits \in [Threads -> SUBSET Users]
  /\ alone \in [Threads -> BOOLEAN]

IInit ==
  /\ Init
  /\ euid = Daemon /\ egid = Daemon
  /\ stage = [t \in Threads |-> "out"]
  /\ caller = [t \in Threads |-> Daemon]
  /\ permits = [t \in Threads |-> {}]
  /\ alone = [t \in Threads |-> TRUE]

-----------------------------------------------------------------------------

(* setegid and seteuid accept the current id and the real one, the          *)
(* daemon's, from anyone, and any id from root.                            *)
MaySet(id, current) == euid = Root \/ id \in {current, Daemon}

(* drop_priv, setegid: if it fails the user is not changed either.          *)
DropGid(t, u, p) ==
  /\ stage[t] = "out"
  /\ caller' = [caller EXCEPT ![t] = u]
  /\ permits' = [permits EXCEPT ![t] = p]
  /\ alone' = [x \in Threads |->
       IF x = t THEN \A y \in Threads \ {t} : stage[y] = "out"
                ELSE alone[x] /\ stage[x] = "out"]
  /\ IF MaySet(u, egid)
       THEN egid' = u /\ stage' = [stage EXCEPT ![t] = "dropuid"]
       ELSE UNCHANGED egid /\ stage' = [stage EXCEPT ![t] = "enter"]
  /\ UNCHANGED <<vars, euid>>

(* ... then seteuid.  The handler goes on whatever the result.              *)
DropUid(t) ==
  /\ stage[t] = "dropuid"
  /\ euid' = IF MaySet(caller[t], euid) THEN caller[t] ELSE euid
  /\ stage' = [stage EXCEPT ![t] = "enter"]
  /\ UNCHANGED <<vars, egid, context, alone>>

(* The body of the handler, between the two.                               *)
Enter(t, h) ==
  /\ stage[t] = "enter"
  /\ Begin(t, h)
  /\ stage' = [stage EXCEPT ![t] = "serve"]
  /\ UNCHANGED <<ids, context, alone>>

(* A path is checked against the ids of the moment; the descriptors of      *)
(* read and write have been checked by open.                               *)
Permitted(t) ==
  op[t].xlate = "none" \/ euid = Root \/ euid \in permits[t] \/ egid \in permits[t]

Inside(t) ==
  /\ stage[t] = "serve"
  /\ \/ LoadTurn(t) \/ StoreTurn(t) \/ Choose(t) \/ SkipDisabled(t) \/ Test(t) \/ Sweep(t)
     \/ \E r \in Replicas :
          \/ Permitted(t) /\ CallSucceeds(t, r, FALSE)
          \/ ~Permitted(t) /\ CallFails(t, r)
  /\ UNCHANGED <<ids, stage, context, alone>>

Leave(t) ==
  /\ stage[t] = "serve"
  /\ Reply(t) \/ \E r \in Replicas : Unsupported(t, r)
  /\ stage' = [stage EXCEPT ![t] = "backuid"]
  /\ UNCHANGED <<ids, context, alone>>

(* Mutant: an early return that does not call reacquire_priv.              *)
LeaveEarlyKeeps(t) ==
  /\ stage[t] = "enter"
  /\ Refuse(t)
  /\ stage' = [stage EXCEPT ![t] = "out"]
  /\ UNCHANGED <<ids, context, alone>>

(* The early returns of the handlers give the ids back as well.             *)
LeaveEarly(t) ==
  /\ stage[t] = "enter"
  /\ Refuse(t)
  /\ stage' = [stage EXCEPT ![t] = "backuid"]
  /\ UNCHANGED <<ids, context, alone>>

(* Mutants: reacquire_priv forgets the user; main does not set config.uid.  *)
BackUidUnset(t) ==
  /\ stage[t] = "backuid"
  /\ euid' = "unset"
  /\ stage' = [stage EXCEPT ![t] = "backgid"]
  /\ UNCHANGED <<vars, egid, context, alone>>
BackUidNot(t) ==
  /\ stage[t] = "backuid"
  /\ stage' = [stage EXCEPT ![t] = "backgid"]
  /\ UNCHANGED <<vars, ids, context, alone>>

(* reacquire_priv: the daemon's ids are still the saved ones.              *)
BackUid(t) ==
  /\ stage[t] = "backuid"
  /\ euid' = Daemon
  /\ stage' = [stage EXCEPT ![t] = "backgid"]
  /\ UNCHANGED <<vars, egid, context, alone>>

BackGid(t) ==
  /\ stage[t] = "backgid"
  /\ egid' = Daemon
  /\ stage' = [stage EXCEPT ![t] = "out"]
  /\ caller' = [caller EXCEPT ![t] = Daemon]
  /\ permits' = [permits EXCEPT ![t] = {}]
  /\ alone' = [alone EXCEPT ![t] = TRUE]
  /\ UNCHANGED <<vars, euid>>

INext ==
  \E t \in Threads :
    \/ \E u \in Users, p \in SUBSET Users : DropGid(t, u, p)
    \/ DropUid(t)
    \/ \E h \in Handlers : Enter(t, h)
    \/ Inside(t) \/ Leave(t) \/ LeaveEarly(t)
    \/ BackUid(t) \/ BackGid(t)

ISpec == IInit /\ [][INext]_ivars

-----------------------------------------------------------------------------

(* No identity outlives the request it belongs to, however the requests     *)
(* overlap: the ids of the process are the daemon's or those of a caller   *)
(* who is still being served.                                              *)
NoIdOutlives ==
  /\ euid # Daemon =>
       \E t \in Threads : caller[t] = euid /\ stage[t] \in {"enter", "serve", "backuid"}
  /\ egid # Daemon =>
       \E t \in Threads : caller[t] = egid /\ stage[t] # "out"

(* A daemon of root makes every call of a request that met no other one     *)
(* with the ids of its caller.                                             *)
AloneAsCaller ==
  \A t \in Threads :
    (Daemon = Root /\ alone[t] /\ stage[t] \in {"enter", "serve"})
      => euid = caller[t] /\ egid = caller[t]

(* A request that met no other one disables no replica: the replicas are    *)
(* consistent, and answer it alike.                                        *)
AloneDisablesNone ==
  [][\A r \in disabled' \ disabled :
       \E t \in Threads : r \in failed[t] /\ ~alone[t]]_ivars

(* A replica that is disabled is inconsistent: it failed an update that     *)
(* another replica took.  (No request may disable a replica otherwise, nor  *)
(* one that reads or opens.)                                               *)
DisabledIsInconsistent ==
  [][\A r \in disabled' \ disabled :
       \E t \in Threads : op[t].updates /\ r \in failed[t] /\ took[t] # {}]_ivars

=============================================================================
