------------------------------- MODULE FdTable -------------------------------
(***************************************************************************)
(* The table of open files of fs.c, config.tab_fd.  open and create get a  *)
(* descriptor from each enabled replica, look for a free slot              *)
(* (fd_hashseekfree), store the array of descriptors there (fd_hashset)    *)
(* and give the slot number to FUSE as the file handle; release closes the *)
(* descriptors and frees the slot.  Nothing is locked.                     *)
(*                                                                         *)
(* One action is one access to what the threads share: the flags, the      *)
(* table, the descriptors of the process.                                  *)
(***************************************************************************)
EXTENDS Integers, FiniteSets

CONSTANTS
  Threads,     \* worker threads of FUSE; one with -s
  MaxReplica,  \* config.max_replica
  FdBufSize,   \* config.fd_buf_size
  Fds,         \* the descriptors the kernel can give for files of replicas
  HashFd       \* hash_fd

Replicas == 0 .. MaxReplica - 1
Slots    == 0 .. FdBufSize - 1

(* 0, 1 and 2 are taken when the daemon runs; hash_fd masks with the size.  *)
ASSUME FdAssumption ==
  /\ MaxReplica \in Nat \ {0} /\ FdBufSize \in Nat \ {0}
  /\ IsFiniteSet(Fds) /\ Fds \subseteq Nat \ (0 .. 2)
  /\ HashFd \in [Fds -> Slots]

(* An array of descriptors: 0 where calloc left it, on a replica that was   *)
(* disabled; -1 where the call failed.                                     *)
FdArrays == [Replicas -> Fds \cup {0, -1}]
Blank    == [r \in Replicas |-> 0]
Null     == <<>>
Nobody   == -1

VARIABLES
  disabled,  \* replicas with config.replicas[i].disabled # 0
  tab,       \* config.tab_fd.fd: an array or NULL in each slot
  owner,     \* the kernel's view: the replica a descriptor is open on
  handles,   \* the files FUSE has open: the handle and the array stored for it
  pc, i,     \* where a thread is, and its loop counter
  fd,        \* its array `fd'
  slot,      \* fd_ndx, or the handle it releases
  ret        \* class of its last answer

vars == <<disabled, tab, owner, handles, pc, i, fd, slot, ret>>

TypeOK ==
  /\ disabled \subseteq Replicas
  /\ tab \in [Slots -> FdArrays \cup {Null}]
  /\ owner \in [Fds -> Replicas \cup {Nobody}]
  /\ handles \subseteq [slot : Slots, fd : FdArrays]
  /\ pc \in [Threads -> {"idle", "open", "sweep", "seek", "set", "close", "clear"}]
  /\ i \in [Threads -> 0 .. MaxReplica]
  /\ fd \in [Threads -> FdArrays]
  /\ slot \in [Threads -> Slots]
  /\ ret \in [Threads -> {"none", "ok", "error", "emfile", "einval"}]

Init ==
  /\ disabled = {}
  /\ tab = [s \in Slots |-> Null]
  /\ owner = [f \in Fds |-> Nobody]
  /\ handles = {}
  /\ pc = [t \in Threads |-> "idle"]
  /\ i = [t \in Threads |-> 0]
  /\ fd = [t \in Threads |-> Blank]
  /\ slot = [t \in Threads |-> 0]
  /\ ret = [t \in Threads |-> "none"]

-----------------------------------------------------------------------------

FreeFds    == {f \in Fds : owner[f] = Nobody}
Took(t)    == {r \in Replicas : fd[t][r] \in Fds}
Failed(t)  == {r \in Replicas : fd[t][r] = -1}
Closing(a) == {f \in Fds : \E r \in Replicas \ disabled : a[r] = f}

IsFirst(x, S) == x \in S /\ \A y \in S : x <= y

Go(t, label) == pc' = [pc EXCEPT ![t] = label]

(* The thread leaves its handler; its array is freed or belongs to tab.     *)
Return(t, r) ==
  /\ Go(t, "idle")
  /\ ret' = [ret EXCEPT ![t] = r]
  /\ fd' = [fd EXCEPT ![t] = Blank]
  /\ i' = [i EXCEPT ![t] = 0]
  /\ slot' = [slot EXCEPT ![t] = 0]

(* chiron_open or chiron_create is called: err_list and fd are cleared.     *)
Open(t) ==
  /\ pc[t] = "idle"
  /\ Go(t, "open")
  /\ ret' = [ret EXCEPT ![t] = "none"]
  /\ UNCHANGED <<disabled, tab, owner, handles, i, fd, slot>>

Iterate(t, r) == pc[t] = "open" /\ r = i[t] /\ i' = [i EXCEPT ![t] = r + 1]

OpenSkips(t, r) ==
  /\ Iterate(t, r) /\ r \in disabled
  /\ UNCHANGED <<disabled, tab, owner, handles, pc, fd, slot, ret>>

(* The kernel gives the lowest free descriptor.                            *)
OpenSucceeds(t, r) ==
  /\ Iterate(t, r) /\ r \notin disabled
  /\ \E f \in Fds :
       /\ IsFirst(f, FreeFds)
       /\ fd' = [fd EXCEPT ![t][r] = f]
       /\ owner' = [owner EXCEPT ![f] = r]
  /\ UNCHANGED <<disabled, tab, handles, pc, slot, ret>>

(* Mutant of OpenFails: the error is kept as the descriptor.               *)
OpenFailsErrno(t, r) ==
  /\ Iterate(t, r) /\ r \notin disabled
  /\ fd' = [fd EXCEPT ![t][r] = -2]
  /\ UNCHANGED <<disabled, tab, owner, handles, pc, slot, ret>>

(* Any error of open, creat or of xlate's malloc; EMFILE is one of them.    *)
OpenFails(t, r) ==
  /\ Iterate(t, r) /\ r \notin disabled
  /\ fd' = [fd EXCEPT ![t][r] = -1]
  /\ UNCHANGED <<disabled, tab, owner, handles, pc, slot, ret>>

(* No replica took it: get_first_error.  It reads only the flags, which are *)
(* never reset, and gives 0 when every replica that failed is disabled by  *)
(* now; FUSE then keeps the handle it had cleared, 0, for an open file.     *)
GiveUp(t) ==
  IF Failed(t) \subseteq disabled
    THEN Return(t, "ok") /\ handles' = handles \cup {[slot |-> 0, fd |-> fd[t]]}
    ELSE Return(t, "error") /\ UNCHANGED handles

(* After the loop.                                                         *)
OpenEnds(t) ==
  /\ pc[t] = "open" /\ i[t] = MaxReplica
  /\ IF Took(t) = {} THEN GiveUp(t)
     ELSE IF Failed(t) = {} THEN Go(t, "seek") /\ UNCHANGED <<handles, i, fd, slot, ret>>
     ELSE /\ Go(t, "sweep")
          /\ i' = [i EXCEPT ![t] = 0]
          /\ UNCHANGED <<handles, fd, slot, ret>>
  /\ UNCHANGED <<disabled, tab, owner>>

(* disable_faulty_replicas, one replica; the last leads to fd_hashset.      *)
SweepTo(t, r) ==
  /\ pc[t] = "sweep" /\ r = i[t]
  /\ i' = [i EXCEPT ![t] = r + 1]
  /\ Go(t, IF r + 1 = MaxReplica THEN "seek" ELSE "sweep")
  /\ UNCHANGED <<tab, owner, handles, fd, slot, ret>>

(* Mutant of Sweep: it starts at replica 1.                                *)
SweepFromOne(t, r) ==
  /\ SweepTo(t, r)
  /\ disabled' = IF r \in Failed(t) \ {0} THEN disabled \cup {r} ELSE disabled

Sweep(t, r) ==
  /\ SweepTo(t, r)
  /\ disabled' = IF r \in Failed(t) THEN disabled \cup {r} ELSE disabled

(* Mutants of FreeSlots: the search does not restart from the beginning; it *)
(* restarts without the test for NULL.                                     *)
FreeSlotsUpOnly(h) == {s \in h .. FdBufSize - 1 : tab[s] = Null}
FreeSlotsNoTest(h) ==
  LET above == {s \in h .. FdBufSize - 1 : tab[s] = Null}
  IN  IF above # {} THEN above ELSE 0 .. h - 1

(* fd_hashseekfree: the first free slot from h up, else the first of all.   *)
FreeSlots(h) ==
  LET above == {s \in h .. FdBufSize - 1 : tab[s] = Null}
  IN  IF above # {} THEN above ELSE {s \in 0 .. h - 1 : tab[s] = Null}

(* The descriptor of the first enabled replica is the one hashed.           *)
Hashed(t, f) ==
  \E r \in Replicas :
    f = fd[t][r] /\ IsFirst(r, {x \in Replicas \ disabled : fd[t][x] >= 0})

(* fd_hashset up to the slot; without one, open closes what it opened.      *)
Seek(t) ==
  /\ pc[t] = "seek"
  /\ \/ \E f \in Fds, s \in Slots :
          /\ Hashed(t, f) /\ IsFirst(s, FreeSlots(HashFd[f]))
          /\ slot' = [slot EXCEPT ![t] = s]
          /\ Go(t, "set")
     \/ /\ \A f \in Fds : Hashed(t, f) => FreeSlots(HashFd[f]) = {}
        /\ Go(t, "close")
        /\ UNCHANGED slot
  /\ UNCHANGED <<disabled, tab, owner, handles, i, fd, ret>>

(* fd_hashset stores the array; open answers with the slot as handle.       *)
Set(t) ==
  /\ pc[t] = "set"
  /\ tab' = [tab EXCEPT ![slot[t]] = fd[t]]
  /\ handles' = handles \cup {[slot |-> slot[t], fd |-> fd[t]]}
  /\ Return(t, "ok")
  /\ UNCHANGED <<disabled, owner>>

(* Mutant of CloseAll: the descriptors stay open.                          *)
CloseAllForgets(t) ==
  /\ pc[t] = "close"
  /\ Return(t, "emfile")
  /\ UNCHANGED <<disabled, tab, handles, owner>>

CloseAll(t) ==
  /\ pc[t] = "close"
  /\ owner' = [f \in Fds |-> IF f \in Closing(fd[t]) THEN Nobody ELSE owner[f]]
  /\ Return(t, "emfile")
  /\ UNCHANGED <<disabled, tab, handles>>

(* chiron_release up to the closes: FUSE gives up handle h.  Descriptors of *)
(* disabled replicas stay open.                                            *)
Release(t, h) ==
  /\ pc[t] = "idle" /\ h \in handles
  /\ handles' = handles \ {h}
  /\ IF tab[h.slot] = Null
       THEN Return(t, "einval") /\ UNCHANGED owner
       ELSE /\ owner' = [f \in Fds |->
                  IF f \in Closing(tab[h.slot]) THEN Nobody ELSE owner[f]]
            /\ slot' = [slot EXCEPT ![t] = h.slot]
            /\ ret' = [ret EXCEPT ![t] = "none"]
            /\ Go(t, "clear")
            /\ UNCHANGED <<i, fd>>
  /\ UNCHANGED <<disabled, tab>>

Clear(t) ==
  /\ pc[t] = "clear"
  /\ tab' = [tab EXCEPT ![slot[t]] = Null]
  /\ Return(t, "ok")
  /\ UNCHANGED <<disabled, owner, handles>>

(* Another request disables r: between those modelled when one thread runs, *)
(* and then never the last replica (ReplicaOpsSerialProofs); else any time. *)
OneThread == \A t, u \in Threads : t = u

OtherDisables(r) ==
  /\ r \notin disabled
  /\ OneThread => disabled \cup {r} # Replicas /\ \A t \in Threads : pc[t] = "idle"
  /\ disabled' = disabled \cup {r}
  /\ UNCHANGED <<tab, owner, handles, pc, i, fd, slot, ret>>

-----------------------------------------------------------------------------

OpenStep(t) ==
  \/ \E r \in Replicas :
       OpenSkips(t, r) \/ OpenSucceeds(t, r) \/ OpenFails(t, r) \/ Sweep(t, r)
  \/ OpenEnds(t) \/ Seek(t) \/ Set(t) \/ CloseAll(t)

Next ==
  \/ \E t \in Threads :
       Open(t) \/ OpenStep(t) \/ (\E h \in handles : Release(t, h)) \/ Clear(t)
  \/ \E r \in Replicas : OtherDisables(r)

Spec == Init /\ [][Next]_vars

-----------------------------------------------------------------------------
(***************************************************************************)
(* Properties of a mount with -s, one thread.                              *)
(***************************************************************************)

(* The handle FUSE holds leads to the descriptors opened for that file, and *)
(* to no other file's.                                                     *)
OwnSlot ==
  /\ \A h \in handles : tab[h.slot] = h.fd
  /\ \A g, h \in handles : g.slot = h.slot => g = h

(* An open file has a descriptor, open and on the right replica, for each   *)
(* replica that is enabled: read and write need no other test than the     *)
(* flag.                                                                   *)
EnabledHaveFd ==
  \A h \in handles, r \in Replicas \ disabled :
    h.fd[r] \in Fds /\ owner[h.fd[r]] = r

(* A descriptor on an enabled replica belongs to an open file or to a       *)
(* request under way: nothing leaks until a replica is disabled.           *)
Kept(f) ==
  \/ \E h \in handles, r \in Replicas : h.fd[r] = f
  \/ \E t \in Threads, r \in Replicas : fd[t][r] = f

NoLeakWhileEnabled == \A f \in Fds : owner[f] \in Replicas \ disabled => Kept(f)

(* What leaks is bounded: a replica never holds more descriptors than the   *)
(* table has slots, and one for an open under way.                         *)
FdBudget ==
  \A r \in Replicas : Cardinality({f \in Fds : owner[f] = r}) <= FdBufSize + 1

(* EMFILE is answered only when every slot is taken, wherever the hash      *)
(* started the search.                                                     *)
EmfileMeansFull ==
  [][\A t \in Threads :
       (pc[t] = "close" /\ ret'[t] = "emfile") => \A s \in Slots : tab[s] # Null]_vars

(***************************************************************************)
(* What the documentation says and the code does not do; see the README.   *)
(***************************************************************************)

(* fd_hashset stores into a slot that is not used.                         *)
SetsFreeSlot == [][\A t \in Threads : pc[t] = "set" /\ pc'[t] = "idle" => tab[slot[t]] = Null]_vars

=============================================================================
