------------------------------ MODULE SingleCopy ------------------------------
(***************************************************************************)
(* What a mount promises its users: one file, as on one disk.  An update   *)
(* that is answered with success has been carried out once, one that is    *)
(* answered with an error has not, and a read gives the content the last   *)
(* update left.  Nothing is said of replicas.                              *)
(*                                                                         *)
(* The promise lasts as long as `sound': what ends it is for Mirror to     *)
(* say.  The one exception is a create or an open that is carried out and  *)
(* answered with EMFILE.                                                   *)
(***************************************************************************)
CONSTANTS Threads, Values, NoValue

VARIABLES
  content,   \* of the file
  request,   \* what each thread was asked for, "none" between two requests
  done,      \* it has been carried out
  val,       \* the value an update writes, or a read has found
  ret,       \* the class of the last value returned
  sound      \* no update was lost or taken in part

scvars == <<content, request, done, val, ret, sound>>

Requests == {"read", "update", "create", "open"}

Init ==
  /\ content \in Values
  /\ request = [t \in Threads |-> "none"]
  /\ done = [t \in Threads |-> FALSE]
  /\ val = [t \in Threads |-> NoValue]
  /\ ret = [t \in Threads |-> "none"]
  /\ sound = TRUE

Ask(t, k) ==
  /\ request[t] = "none"
  /\ request' = [request EXCEPT ![t] = k]
  /\ ret' = [ret EXCEPT ![t] = "none"]
  /\ IF k \in {"update", "create"}
       THEN \E v \in Values : val' = [val EXCEPT ![t] = v]
       ELSE UNCHANGED val
  /\ UNCHANGED <<content, done>>

Carry(t) ==
  /\ request[t] # "none" /\ ~done[t]
  /\ done' = [done EXCEPT ![t] = TRUE]
  /\ UNCHANGED <<request, ret>>
  /\ \/ request[t] \in {"update", "create"} /\ content' = val[t] /\ UNCHANGED val
     \/ request[t] = "read" /\ val' = [val EXCEPT ![t] = content] /\ UNCHANGED content
     \/ request[t] = "open" /\ UNCHANGED <<content, val>>

Answers(t) ==
  IF done[t]
    THEN {"ok"} \cup (IF request[t] \in {"create", "open"} THEN {"emfile"} ELSE {})
    ELSE {"error", "nosys"}

Answer(t) ==
  /\ request[t] # "none"
  /\ \E a \in Answers(t) : ret' = [ret EXCEPT ![t] = a]
  /\ request' = [request EXCEPT ![t] = "none"]
  /\ done' = [done EXCEPT ![t] = FALSE]
  /\ val' = [val EXCEPT ![t] = NoValue]
  /\ UNCHANGED content

Refuse(t) ==
  /\ request[t] = "none"
  /\ ret' = [ret EXCEPT ![t] = "refused"]
  /\ UNCHANGED <<content, request, done, val>>

Serve(t) == (\E k \in Requests : Ask(t, k)) \/ Carry(t) \/ Answer(t) \/ Refuse(t)

Next == ~sound' \/ (sound' = sound /\ \E t \in Threads : Serve(t))

Spec == Init /\ [][Next]_scvars

=============================================================================
