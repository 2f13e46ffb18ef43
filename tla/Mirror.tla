-------------------------------- MODULE Mirror --------------------------------
(***************************************************************************)
(* ReplicaOps with what the requests are about: the content of a file, one *)
(* copy on each replica.  A successful updating call stores the request's  *)
(* value in its replica, a successful reading call finds the value there;  *)
(* a call that fails leaves its replica as it was.                         *)
(*                                                                         *)
(* With one thread this implements SingleCopy, as long as no update was    *)
(* passed over, or taken in part, by a replica: the variable `sound'.      *)
(***************************************************************************)
EXTENDS ReplicaOps

CONSTANTS
  Values,    \* contents of the file
  NoValue,   \* an empty buffer
  Torn       \* the content a partial write leaves

VARIABLES
  copy,      \* replica -> the content of its file
  val,       \* the buffer of each thread: what it writes, or has read
  sound      \* history: every update answered was whole

contents == <<copy, val, sound>>
mvars == <<vars, contents>>

MInit ==
  /\ Init
  /\ \E v \in Values : copy = [r \in Replicas |-> v]
  /\ val = [t \in Threads |-> NoValue]
  /\ sound = TRUE

MTypeOK ==
  /\ copy \in [Replicas -> Values \cup {Torn}]
  /\ val \in [Threads -> Values \cup {Torn, NoValue}]
  /\ sound \in BOOLEAN

-----------------------------------------------------------------------------

(* Mutant: the buffer is not handed on.                                    *)
MBeginEmpty(t, h) == Begin(t, h) /\ UNCHANGED contents

MBegin(t, h) ==
  /\ Begin(t, h)
  /\ IF h.updates
       THEN \E v \in Values : val' = [val EXCEPT ![t] = v]
       ELSE UNCHANGED val
  /\ UNCHANGED <<copy, sound>>

(* The system call writes the replica, or reads it; open does neither.      *)
MCallSucceeds(t, r, partly) ==
  /\ CallSucceeds(t, r, partly)
  /\ copy' = IF op[t].updates
               THEN [copy EXCEPT ![r] = IF partly THEN Torn ELSE val[t]]
               ELSE copy
  /\ val' = IF op[t].loop = "first" THEN [val EXCEPT ![t] = copy[r]] ELSE val
  /\ UNCHANGED sound

(* What a reply does not tell the caller: a replica took a part, an update  *)
(* was not made on a replica in use, or a read answered 0 has read nothing. *)
Spoils(t) ==
  \/ short[t] # {}
  \/ passed[t] # {} /\ (op[t].updates \/ took[t] = {})

MReply(t) ==
  /\ Reply(t)
  /\ sound' = (sound /\ ~Spoils(t))
  /\ val' = [val EXCEPT ![t] = NoValue]
  /\ UNCHANGED copy

MUnsupported(t, r) ==
  /\ Unsupported(t, r)
  /\ val' = [val EXCEPT ![t] = NoValue]
  /\ UNCHANGED <<copy, sound>>

(* The steps that touch no content.                                        *)
Inner(t) ==
  \/ Refuse(t) \/ LoadTurn(t) \/ StoreTurn(t) \/ Choose(t) \/ SkipDisabled(t) \/ Test(t)
  \/ Sweep(t)
  \/ \E r \in Replicas : NoPath(t, r) \/ CallFails(t, r)

MStep(t) ==
  \/ \E h \in Handlers : MBegin(t, h)
  \/ Inner(t) /\ UNCHANGED contents
  \/ \E r \in Replicas, partly \in BOOLEAN : MCallSucceeds(t, r, partly)
  \/ \E r \in Replicas : MUnsupported(t, r)
  \/ MReply(t)

MNext == \E t \in Threads : MStep(t)

MSpec == MInit /\ [][MNext]_mvars

-----------------------------------------------------------------------------
(***************************************************************************)
(* The refinement mapping.  The content is that of any replica in use,     *)
(* until an update takes effect at its first successful call.              *)
(***************************************************************************)

Updating(t) == op[t].updates /\ took[t] # {}

Content ==
  IF \E t \in Threads : Updating(t)
    THEN val[CHOOSE t \in Threads : Updating(t)]
    ELSE copy[CHOOSE r \in Replicas : disabled # Replicas => r \notin disabled]

Request(t) ==
  IF pc[t] = "idle" THEN "none"
  ELSE IF op[t].updates THEN (IF op[t].table THEN "create" ELSE "update")
  ELSE IF op[t].loop = "first" THEN "read" ELSE "open"

SC == INSTANCE SingleCopy WITH
        content <- Content,
        request <- [t \in Threads |-> Request(t)],
        done    <- [t \in Threads |-> took[t] # {}]

(* A mount that serves one request at a time is one disk to its users,      *)
(* whichever replicas fail when: success means done, error means not done, *)
(* and a read finds what the last update left.                             *)
OneDisk == SC!Spec

(* While no update is under way the replicas in use hold the same content.  *)
Mirrored ==
  (sound /\ \A t \in Threads : ~op[t].updates) =>
    \A r, s \in Replicas \ disabled : copy[r] = copy[s]

=============================================================================
