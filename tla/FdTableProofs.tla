---------------------------- MODULE FdTableProofs ----------------------------
(***************************************************************************)
(* With -s, a file handle leads to the descriptors of its own file, for    *)
(* any table size, hash and number of replicas.  The run table_race shows  *)
(* that a second thread breaks it.                                         *)
(***************************************************************************)
EXTENDS FdTable, TLAPS

(* fd_hashseekfree answers with a slot that is free.                       *)
LEMMA FreeSlotsAreFree ==
  ASSUME NEW h, NEW s \in FreeSlots(h)
  PROVE  tab[s] = Null
  BY DEF FreeSlots

(* An array is not NULL.                                                   *)
LEMMA ArraysAreNotNull == Null \notin FdArrays
<1>1. 0 \in Replicas
  BY FdAssumption DEF Replicas
<1>2. DOMAIN Null = 1 .. 0
  BY DEF Null
<1>3. ASSUME NEW a \in FdArrays PROVE DOMAIN a = Replicas
  BY DEF FdArrays
<1> QED BY <1>1, <1>2, <1>3

-----------------------------------------------------------------------------
(***************************************************************************)
(* The inductive invariant: the slot between fd_hashseekfree and fd_hashset*)
(* is free, and the slot between the closes and the reset of a release     *)
(* belongs to no handle.  An open holds descriptors of enabled replicas    *)
(* only, and its loop leaves no enabled replica behind without a result:   *)
(* as one is enabled, get_first_error has an error to give.                *)
(***************************************************************************)
Enabled == Replicas \ disabled

SlotInv ==
  \A t \in Threads :
    /\ pc[t] = "set" => tab[slot[t]] = Null
    /\ pc[t] = "clear" => \A h \in handles : h.slot # slot[t]

OpenInv(t) ==
  /\ pc[t] \in {"idle", "clear"} => fd[t] = Blank /\ i[t] = 0
  /\ pc[t] = "open" => \A r \in Enabled : r < i[t] => fd[t][r] \in Fds \cup {-1}
  /\ pc[t] = "sweep" => i[t] < MaxReplica
  /\ pc[t] \in {"sweep", "seek"} => Took(t) # {}
  /\ \A r \in Replicas : fd[t][r] \in Fds => r \notin disabled

OpensInv == Enabled # {} /\ \A t \in Threads : OpenInv(t)

TableInv == TypeOK /\ OwnSlot /\ SlotInv /\ OpensInv

LEMMA InitTableInv == Init => TableInv
<1> SUFFICES ASSUME Init PROVE TableInv
  OBVIOUS
<1>1. TypeOK
  BY FdAssumption DEF Init, TypeOK, Blank, FdArrays, Replicas, Slots, Nobody
<1>2. OpensInv
  <2>1. 0 \in Replicas /\ \A r \in Replicas : Blank[r] \notin Fds
    BY FdAssumption DEF Replicas, Blank
  <2> QED BY <2>1 DEF Init, OpensInv, OpenInv, Enabled
<1> QED BY <1>1, <1>2 DEF Init, TableInv, OwnSlot, SlotInv

LEMMA TypeStep == TypeOK /\ [Next]_vars => TypeOK'
<1> SUFFICES ASSUME TypeOK, [Next]_vars PROVE TypeOK'
  OBVIOUS
<1>0. Blank \in FdArrays /\ 0 \in Slots /\ 0 \in 0 .. MaxReplica
  BY FdAssumption DEF Blank, FdArrays, Slots
<1>1. ASSUME NEW t \in Threads, Open(t) PROVE TypeOK'
  BY <1>1 DEF Open, Go, TypeOK
<1>2. ASSUME NEW t \in Threads, NEW r \in Replicas, Iterate(t, r)
      PROVE  i' \in [Threads -> 0 .. MaxReplica]
  BY <1>2, FdAssumption DEF Iterate, TypeOK, Replicas
<1>3. ASSUME NEW t \in Threads, NEW r \in Replicas, OpenSkips(t, r) PROVE TypeOK'
  BY <1>2, <1>3 DEF OpenSkips, TypeOK
<1>4. ASSUME NEW t \in Threads, NEW r \in Replicas, OpenSucceeds(t, r) PROVE TypeOK'
  <2>1. fd' \in [Threads -> FdArrays] /\ owner' \in [Fds -> Replicas \cup {Nobody}]
    BY <1>4 DEF OpenSucceeds, TypeOK, FdArrays
  <2> QED BY <1>2, <1>4, <2>1 DEF OpenSucceeds, TypeOK
<1>5. ASSUME NEW t \in Threads, NEW r \in Replicas, OpenFails(t, r) PROVE TypeOK'
  <2>1. fd' \in [Threads -> FdArrays]
    BY <1>5 DEF OpenFails, TypeOK, FdArrays
  <2> QED BY <1>2, <1>5, <2>1 DEF OpenFails, TypeOK
<1>6. ASSUME NEW t \in Threads, OpenEnds(t) PROVE TypeOK'
  <2>1. CASE Took(t) = {}
    <3>1. fd[t] \in FdArrays
      BY <1>6 DEF TypeOK
    <3>2. handles' \subseteq [slot : Slots, fd : FdArrays]
      BY <1>0, <1>6, <2>1, <3>1 DEF OpenEnds, GiveUp, TypeOK
    <3> QED BY <1>0, <1>6, <2>1, <3>2 DEF OpenEnds, GiveUp, Return, Go, TypeOK
  <2>2. CASE Took(t) # {}
    BY <1>0, <1>6, <2>2 DEF OpenEnds, Go, TypeOK
  <2> QED BY <2>1, <2>2
<1>7. ASSUME NEW t \in Threads, NEW r \in Replicas, Sweep(t, r) PROVE TypeOK'
  <2>1. r + 1 \in 0 .. MaxReplica
    BY FdAssumption DEF Replicas
  <2> QED BY <1>7, <2>1 DEF Sweep, SweepTo, Go, TypeOK
<1>8. ASSUME NEW t \in Threads, Seek(t) PROVE TypeOK'
  BY <1>8 DEF Seek, Go, TypeOK
<1>9. ASSUME NEW t \in Threads, Set(t) PROVE TypeOK'
  BY <1>0, <1>9 DEF Set, Return, Go, TypeOK
<1>10. ASSUME NEW t \in Threads, CloseAll(t) PROVE TypeOK'
  BY <1>0, <1>10 DEF CloseAll, Return, Go, TypeOK
<1>11. ASSUME NEW t \in Threads, NEW h \in handles, Release(t, h) PROVE TypeOK'
  BY <1>0, <1>11 DEF Release, Return, Go, TypeOK
<1>12. ASSUME NEW t \in Threads, Clear(t) PROVE TypeOK'
  BY <1>0, <1>12 DEF Clear, Return, Go, TypeOK
<1>13. ASSUME NEW r \in Replicas, OtherDisables(r) PROVE TypeOK'
  BY <1>13 DEF OtherDisables, TypeOK
<1>14. CASE UNCHANGED vars
  BY <1>14 DEF vars, TypeOK
<1> QED
  BY <1>1, <1>3, <1>4, <1>5, <1>6, <1>7, <1>8, <1>9, <1>10, <1>11, <1>12, <1>13, <1>14
  DEF Next, OpenStep

(* With a replica enabled, an open that no replica took has an error.       *)
LEMMA GiveUpIsError ==
  ASSUME OpensInv, NEW t \in Threads, OpenEnds(t), Took(t) = {}
  PROVE  Return(t, "error") /\ UNCHANGED <<disabled, tab, owner, handles>>
<1>1. PICK e \in Enabled : TRUE
  BY DEF OpensInv
<1>2. e < MaxReplica /\ e \in Replicas /\ e \notin disabled
  BY FdAssumption DEF Enabled, Replicas
<1>3. fd[t][e] \in Fds \cup {-1} /\ fd[t][e] \notin Fds
  BY <1>2 DEF OpensInv, OpenInv, OpenEnds, Took
<1>4. ~(Failed(t) \subseteq disabled)
  BY <1>2, <1>3 DEF Failed
<1> QED BY <1>4 DEF OpenEnds, GiveUp

LEMMA OpensStep ==
  ASSUME OneThread
  PROVE  TableInv /\ [Next]_vars => OpensInv'
<1> SUFFICES ASSUME TableInv, [Next]_vars PROVE OpensInv'
  OBVIOUS
<1>0. TypeOK /\ OpensInv /\ Enabled # {} /\ \A t \in Threads : OpenInv(t)
  BY DEF TableInv, OpensInv
<1>b. /\ \A r \in Replicas : Blank[r] \notin Fds /\ r \in Nat
      /\ -1 \notin Fds
  BY FdAssumption DEF Blank, Replicas
<1>c. disabled' = disabled => Enabled' = Enabled
  BY DEF Enabled
<1>q. ASSUME NEW t \in Threads, OpenInv(t)', Enabled' # {} PROVE OpensInv'
  BY <1>q DEF OpensInv, OneThread
(* A request that ends, or that only moves on.                             *)
<1>r. ASSUME NEW t \in Threads, NEW a, Return(t, a), disabled' = disabled
      PROVE  OpensInv'
  <2>1. pc'[t] = "idle" /\ fd'[t] = Blank /\ i'[t] = 0
    BY <1>0, <1>r DEF Return, Go, TypeOK
  <2> QED BY <1>0, <1>b, <1>c, <1>q, <1>r, <2>1 DEF OpenInv
<1>1. ASSUME NEW t \in Threads, Open(t) PROVE OpensInv'
  <2>1. pc[t] = "idle" /\ pc'[t] = "open" /\ UNCHANGED <<disabled, fd, i>>
    BY <1>0, <1>1 DEF Open, Go, TypeOK
  <2>2. i'[t] = 0 /\ fd'[t] = Blank
    BY <1>0, <2>1 DEF OpenInv
  <2>3. OpenInv(t)'
    BY <1>b, <2>1, <2>2 DEF OpenInv, Enabled
  <2> QED BY <1>0, <1>c, <1>q, <2>1, <2>3
<1>2. ASSUME NEW t \in Threads, NEW r \in Replicas,
             OpenSkips(t, r) \/ OpenSucceeds(t, r) \/ OpenFails(t, r)
      PROVE  OpensInv'
  <2>1. /\ pc[t] = "open" /\ pc' = pc /\ r = i[t] /\ i'[t] = r + 1 /\ disabled' = disabled
        /\ \A q \in Replicas : q # r => fd'[t][q] = fd[t][q]
        /\ r \in disabled => fd'[t][r] = fd[t][r]
        /\ r \notin disabled => fd'[t][r] \in Fds \cup {-1}
    BY <1>0, <1>2 DEF OpenSkips, OpenSucceeds, OpenFails, Iterate, TypeOK, FdArrays
  <2>2. \A q \in Replicas : q < r + 1 => q < r \/ q = r
    BY <1>b
  <2>3. OpenInv(t)'
    BY <1>0, <1>b, <1>c, <2>1, <2>2 DEF OpenInv, Enabled
  <2> QED BY <1>0, <1>c, <1>q, <2>1, <2>3
<1>3. ASSUME NEW t \in Threads, OpenEnds(t) PROVE OpensInv'
  <2>1. CASE Took(t) = {}
    BY <1>0, <1>3, <1>r, <2>1, GiveUpIsError
  <2>2. CASE Took(t) # {}
    <3>1. /\ UNCHANGED <<disabled, fd>> /\ pc'[t] \in {"seek", "sweep"}
          /\ pc'[t] = "sweep" => i'[t] = 0
      BY <1>0, <1>3, <2>2 DEF OpenEnds, Go, TypeOK
    <3>2. Took(t)' = Took(t)
      BY <3>1 DEF Took
    <3>3. OpenInv(t)'
      BY <1>0, <2>2, <3>1, <3>2, FdAssumption DEF OpenInv
    <3> QED BY <1>0, <1>c, <1>q, <3>1, <3>3
  <2> QED BY <2>1, <2>2
<1>4. ASSUME NEW t \in Threads, NEW r \in Replicas, Sweep(t, r) PROVE OpensInv'
  <2>1. /\ pc[t] = "sweep" /\ fd' = fd /\ i'[t] = r + 1
        /\ pc'[t] = IF r + 1 = MaxReplica THEN "seek" ELSE "sweep"
        /\ disabled' \subseteq disabled \cup Failed(t)
    BY <1>0, <1>4 DEF Sweep, SweepTo, Go, TypeOK
  <2>2. Took(t)' = Took(t) /\ Took(t) # {}
    BY <1>0, <2>1 DEF OpenInv, Took
  <2>3. \A q \in Replicas : fd[t][q] \in Fds => q \notin disabled'
    BY <1>0, <1>b, <2>1 DEF OpenInv, Failed
  <2>4. r + 1 # MaxReplica => r + 1 < MaxReplica
    BY FdAssumption DEF Replicas
  <2>5. OpenInv(t)'
    BY <2>1, <2>2, <2>3, <2>4 DEF OpenInv
  <2>6. Enabled' # {}
    BY <2>2, <2>3 DEF Took, Enabled
  <2> QED BY <1>q, <2>5, <2>6
<1>5. ASSUME NEW t \in Threads, Seek(t) PROVE OpensInv'
  <2>1. pc'[t] \in {"set", "close"} /\ UNCHANGED <<disabled, fd, i>>
    BY <1>0, <1>5 DEF Seek, Go, TypeOK
  <2>2. OpenInv(t)'
    BY <1>0, <2>1 DEF OpenInv
  <2> QED BY <1>0, <1>c, <1>q, <2>1, <2>2
<1>6. ASSUME NEW t \in Threads, Set(t) \/ CloseAll(t) \/ Clear(t) PROVE OpensInv'
  BY <1>6, <1>r DEF Set, CloseAll, Clear
<1>7. ASSUME NEW t \in Threads, NEW h \in handles, Release(t, h) PROVE OpensInv'
  <2>1. CASE tab[h.slot] = Null
    BY <1>7, <1>r, <2>1 DEF Release
  <2>2. CASE tab[h.slot] # Null
    <3>1. pc[t] = "idle" /\ pc'[t] = "clear" /\ UNCHANGED <<disabled, fd, i>>
      BY <1>0, <1>7, <2>2 DEF Release, Go, TypeOK
    <3>2. OpenInv(t)'
      BY <1>0, <3>1 DEF OpenInv
    <3> QED BY <1>0, <1>c, <1>q, <3>1, <3>2
  <2> QED BY <2>1, <2>2
<1>8. ASSUME NEW r \in Replicas, OtherDisables(r) PROVE OpensInv'
  <2>1. /\ UNCHANGED <<pc, fd, i>> /\ disabled' = disabled \cup {r} /\ disabled' # Replicas
        /\ \A t \in Threads : pc[t] = "idle"
    BY <1>8 DEF OtherDisables
  <2>2. \A t \in Threads : OpenInv(t)'
    BY <1>0, <1>b, <2>1 DEF OpenInv
  <2>3. Enabled' # {}
    BY <1>0, <1>8, <2>1 DEF Enabled, TypeOK
  <2> QED BY <2>2, <2>3 DEF OpensInv
<1>9. CASE UNCHANGED vars
  BY <1>0, <1>9 DEF vars, OpensInv, OpenInv, Took, Enabled
<1> QED
  BY <1>1, <1>2, <1>3, <1>4, <1>5, <1>6, <1>7, <1>8, <1>9 DEF Next, OpenStep

LEMMA SlotStep ==
  ASSUME OneThread
  PROVE  TableInv /\ [Next]_vars => OwnSlot' /\ SlotInv'
<1> SUFFICES ASSUME TableInv, [Next]_vars PROVE OwnSlot' /\ SlotInv'
  OBVIOUS
<1>0. TypeOK /\ OwnSlot /\ SlotInv /\ OpensInv
  BY DEF TableInv
<1>1. ASSUME UNCHANGED <<tab, handles>>, NEW t \in Threads, pc'[t] \notin {"set", "clear"}
      PROVE  OwnSlot' /\ SlotInv'
  BY <1>0, <1>1 DEF OwnSlot, SlotInv, OneThread
<1>2. ASSUME NEW t \in Threads, Open(t) \/ OpenEnds(t) \/ CloseAll(t)
      PROVE  OwnSlot' /\ SlotInv'
  <2>1. UNCHANGED <<tab, handles>> /\ pc'[t] \notin {"set", "clear"}
    <3>1. CASE OpenEnds(t) /\ Took(t) = {}
      BY <1>0, <3>1, GiveUpIsError DEF Return, Go, TypeOK
    <3>2. CASE OpenEnds(t) /\ Took(t) # {}
      BY <1>0, <3>2 DEF OpenEnds, Go, TypeOK
    <3>3. CASE Open(t) \/ CloseAll(t)
      BY <1>0, <3>3 DEF Open, CloseAll, Return, Go, TypeOK
    <3> QED BY <1>2, <3>1, <3>2, <3>3
  <2> QED BY <1>1, <2>1
<1>3. ASSUME NEW t \in Threads, NEW r \in Replicas,
             OpenSkips(t, r) \/ OpenSucceeds(t, r) \/ OpenFails(t, r) \/ Sweep(t, r)
      PROVE  OwnSlot' /\ SlotInv'
  <2>1. UNCHANGED <<tab, handles>> /\ pc'[t] \notin {"set", "clear"}
    BY <1>0, <1>3 DEF OpenSkips, OpenSucceeds, OpenFails, Iterate, Sweep, SweepTo, Go, TypeOK
  <2> QED BY <1>1, <2>1
<1>4. ASSUME NEW t \in Threads, Seek(t)
      PROVE  OwnSlot' /\ SlotInv'
  <2>1. CASE pc'[t] = "set"
    <3>1. PICK f \in Fds, s \in Slots : s \in FreeSlots(HashFd[f]) /\ slot'[t] = s
      BY <1>0, <1>4, <2>1 DEF Seek, Go, IsFirst, TypeOK
    <3>2. tab'[slot'[t]] = Null /\ UNCHANGED <<tab, handles>>
      BY <1>4, <3>1, FreeSlotsAreFree DEF Seek
    <3> QED BY <1>0, <2>1, <3>2 DEF OwnSlot, SlotInv, OneThread
  <2>2. CASE pc'[t] # "set"
    <3>1. UNCHANGED <<tab, handles>> /\ pc'[t] \notin {"set", "clear"}
      BY <1>0, <1>4, <2>2 DEF Seek, Go, TypeOK
    <3> QED BY <1>1, <3>1
  <2> QED BY <2>1, <2>2
<1>5. ASSUME NEW t \in Threads, Set(t)
      PROVE  OwnSlot' /\ SlotInv'
  <2>1. /\ slot[t] \in Slots /\ fd[t] \in FdArrays /\ tab[slot[t]] = Null
        /\ pc'[t] = "idle"
        /\ handles' = handles \cup {[slot |-> slot[t], fd |-> fd[t]]}
        /\ tab' = [tab EXCEPT ![slot[t]] = fd[t]]
    BY <1>0, <1>5 DEF Set, Return, Go, TypeOK, SlotInv
  <2>2. \A h \in handles : h.slot # slot[t] /\ h.slot \in Slots
    BY <1>0, <2>1, ArraysAreNotNull DEF OwnSlot, TypeOK
  <2>3. OwnSlot'
    BY <1>0, <2>1, <2>2 DEF OwnSlot, TypeOK
  <2> QED BY <2>1, <2>3 DEF SlotInv, OneThread
<1>6. ASSUME NEW t \in Threads, NEW h \in handles, Release(t, h)
      PROVE  OwnSlot' /\ SlotInv'
  <2>1. /\ tab' = tab /\ handles' = handles \ {h}
        /\ \A g \in handles' : g.slot # h.slot
        /\ pc'[t] = "idle" \/ (pc'[t] = "clear" /\ slot'[t] = h.slot)
    BY <1>0, <1>6 DEF Release, Return, Go, TypeOK, OwnSlot
  <2> QED BY <1>0, <2>1 DEF OwnSlot, SlotInv, OneThread
<1>7. ASSUME NEW t \in Threads, Clear(t)
      PROVE  OwnSlot' /\ SlotInv'
  <2>1. /\ pc'[t] = "idle" /\ handles' = handles /\ tab' = [tab EXCEPT ![slot[t]] = Null]
        /\ \A h \in handles : h.slot # slot[t]
    BY <1>0, <1>7 DEF Clear, Return, Go, TypeOK, SlotInv
  <2> QED BY <1>0, <2>1 DEF OwnSlot, SlotInv, OneThread, TypeOK
<1>8. ASSUME NEW r \in Replicas, OtherDisables(r)
      PROVE  OwnSlot' /\ SlotInv'
  BY <1>0, <1>8 DEF OtherDisables, OwnSlot, SlotInv
<1>9. CASE UNCHANGED vars
  BY <1>0, <1>9 DEF vars, OwnSlot, SlotInv
<1> QED
  BY <1>2, <1>3, <1>4, <1>5, <1>6, <1>7, <1>8, <1>9 DEF Next, OpenStep

(* The table keeps its shape and its handles theirs (fs.c:65-131, 282-506), *)
(* with any number of threads.                                             *)
THEOREM TableType == Spec => []TypeOK
<1>1. Init => TypeOK
  BY InitTableInv DEF TableInv
<1> QED BY <1>1, TypeStep, PTL DEF Spec

(* fd_hashseekfree and fd_hashset (fs.c:65-131) give each open file a slot  *)
(* of its own, which holds its descriptors until it is released.           *)
THEOREM EachFileOwnsItsSlot ==
  ASSUME OneThread
  PROVE  Spec => []OwnSlot
<1>1. Init => TableInv
  BY InitTableInv
<1>2. TableInv /\ [Next]_vars => TableInv'
  BY TypeStep, SlotStep, OpensStep DEF TableInv
<1>3. TableInv => OwnSlot
  BY DEF TableInv
<1> QED BY <1>1, <1>2, <1>3, PTL DEF Spec

(* With -s, fd_hashset (fs.c:128) overwrites no array that is in use: what  *)
(* its comment claims, and what a second thread breaks (run table_race).   *)
THEOREM SerialSetsFreeSlot ==
  ASSUME OneThread
  PROVE  Spec => SetsFreeSlot
<1>1. Init => TableInv
  BY InitTableInv
<1>2. TableInv /\ [Next]_vars => TableInv'
  BY TypeStep, SlotStep, OpensStep DEF TableInv
<1>3. TableInv => [\A t \in Threads : pc[t] = "set" /\ pc'[t] = "idle" => tab[slot[t]] = Null]_vars
  BY DEF TableInv, SlotInv
<1> QED BY <1>1, <1>2, <1>3, PTL DEF Spec, SetsFreeSlot

-----------------------------------------------------------------------------
(***************************************************************************)
(* The descriptors behind a handle.                                        *)
(***************************************************************************)

(* a[r] is a descriptor open on r.                                         *)
OpenOn(a, r) == a[r] \in Fds /\ owner[a[r]] = r

(* What an open has gathered: behind the loop counter a descriptor or a     *)
(* failure, behind the counter of the sweep no failure still enabled.      *)
ArrayInv(t) ==
  /\ pc[t] = "open" => \A r \in Enabled :
       /\ r < i[t] => fd[t][r] = -1 \/ OpenOn(fd[t], r)
       /\ r >= i[t] => fd[t][r] \notin Fds
  /\ pc[t] = "sweep" => \A r \in Enabled :
       OpenOn(fd[t], r) \/ (r >= i[t] /\ fd[t][r] = -1)
  /\ pc[t] \in {"seek", "set", "close"} => \A r \in Enabled : OpenOn(fd[t], r)

(* No two files share a descriptor of an enabled replica.                   *)
NoShare ==
  /\ \A g, h \in handles, r \in Enabled : g.fd[r] = h.fd[r] => g = h
  /\ \A h \in handles, t \in Threads, r \in Enabled : h.fd[r] # fd[t][r]

DescInv ==
  TableInv /\ EnabledHaveFd /\ NoShare /\ \A t \in Threads : ArrayInv(t)

LEMMA InitDescInv == Init => DescInv
<1> SUFFICES ASSUME Init PROVE DescInv
  OBVIOUS
<1>1. \A t \in Threads : ArrayInv(t)
  BY DEF Init, ArrayInv
<1>2. EnabledHaveFd /\ NoShare
  BY DEF Init, EnabledHaveFd, NoShare
<1> QED BY <1>1, <1>2, InitTableInv DEF DescInv

LEMMA DescStep ==
  ASSUME OneThread
  PROVE  DescInv /\ [Next]_vars => DescInv'
<1> SUFFICES ASSUME DescInv, [Next]_vars PROVE DescInv'
  OBVIOUS
<1>0. TypeOK /\ OwnSlot /\ SlotInv /\ OpensInv /\ EnabledHaveFd /\ NoShare /\ TableInv
  BY DEF DescInv, TableInv
<1>t. TableInv'
  BY <1>0, TypeStep, SlotStep, OpensStep DEF TableInv
<1>b. /\ \A r \in Replicas : Blank[r] \notin Fds
      /\ -1 \notin Fds /\ \A r \in Replicas : r \in Nat
  BY FdAssumption DEF Blank, Replicas
<1>h. \A h \in handles, r \in Enabled : OpenOn(h.fd, r)
  BY <1>0 DEF EnabledHaveFd, OpenOn, Enabled
<1>c. disabled' = disabled => Enabled' = Enabled
  BY DEF Enabled
<1>q. ASSUME NEW t \in Threads, ArrayInv(t)', EnabledHaveFd', NoShare'
      PROVE  DescInv'
  BY <1>t, <1>q DEF DescInv, OneThread
<1>a. \A t \in Threads : ArrayInv(t) /\ OpenInv(t)
  BY <1>0 DEF DescInv, OpensInv
<1>o. \A t, u \in Threads : t = u
  BY DEF OneThread
<1>1. ASSUME NEW t \in Threads, Open(t) PROVE DescInv'
  <2>1. /\ fd[t] = Blank /\ i[t] = 0 /\ fd' = fd /\ i' = i /\ pc'[t] = "open"
        /\ disabled' = disabled /\ owner' = owner /\ handles' = handles
    BY <1>0, <1>1, <1>a DEF Open, Go, TypeOK, OpenInv
  <2>2. ArrayInv(t)'
    BY <1>b, <2>1 DEF ArrayInv, Enabled
  <2>3. EnabledHaveFd' /\ NoShare'
    BY <1>0, <2>1 DEF EnabledHaveFd, NoShare, Enabled
  <2> QED BY <1>q, <2>2, <2>3
<1>2. ASSUME NEW t \in Threads, NEW r \in Replicas, OpenSkips(t, r) \/ OpenFails(t, r)
      PROVE  DescInv'
  <2>1. /\ pc[t] = "open" /\ pc' = pc /\ r = i[t] /\ i'[t] = r + 1
        /\ disabled' = disabled /\ owner' = owner /\ handles' = handles
        /\ \A q \in Replicas : q # r => fd'[t][q] = fd[t][q]
        /\ r \in Enabled => fd'[t][r] = -1
        /\ r \notin Enabled => fd'[t][r] = fd[t][r]
    BY <1>0, <1>2 DEF OpenSkips, OpenFails, Iterate, TypeOK, FdArrays, Enabled
  <2>2. \A q \in Enabled : q \in Nat /\ (q < r + 1 => q < r \/ q = r) /\ r \in Nat
    BY <1>b DEF Enabled
  <2>3. ArrayInv(t)'
    BY <1>a, <1>b, <1>c, <2>1, <2>2 DEF ArrayInv, OpenOn, Enabled
  <2>4. EnabledHaveFd'
    BY <1>0, <2>1 DEF EnabledHaveFd
  <2>5. NoShare'
    BY <1>0, <1>b, <1>h, <1>o, <2>1 DEF NoShare, Enabled, OpenOn
  <2> QED BY <1>q, <2>3, <2>4, <2>5
<1>3. ASSUME NEW t \in Threads, NEW r \in Replicas, OpenSucceeds(t, r)
      PROVE  DescInv'
  <2>1. PICK f \in Fds : /\ owner[f] = Nobody
                         /\ fd' = [fd EXCEPT ![t][r] = f]
                         /\ owner' = [owner EXCEPT ![f] = r]
    BY <1>3 DEF OpenSucceeds, IsFirst, FreeFds
  <2>2. /\ pc[t] = "open" /\ pc' = pc /\ r = i[t] /\ i'[t] = r + 1 /\ r \in Enabled
        /\ disabled' = disabled /\ handles' = handles
        /\ \A q \in Replicas : q # r => fd'[t][q] = fd[t][q]
        /\ fd'[t][r] = f /\ owner'[f] = r
    BY <1>0, <1>3, <2>1 DEF OpenSucceeds, Iterate, TypeOK, FdArrays, Enabled
  <2>3. ASSUME NEW a, NEW q \in Enabled, OpenOn(a, q)
        PROVE  OpenOn(a, q)' /\ a[q] # f
    <3>1. q # Nobody
      BY <1>b DEF Nobody, Enabled
    <3> QED BY <1>0, <2>1, <2>3, <3>1 DEF OpenOn, TypeOK
  <2>4. \A q \in Enabled : q \in Nat /\ (q < r + 1 => q < r \/ q = r) /\ r \in Nat
    BY <1>b DEF Enabled
  <2>5. ASSUME NEW q \in Enabled, q # r, fd[t][q] = -1 \/ OpenOn(fd[t], q)
        PROVE  fd'[t][q] = -1 \/ OpenOn(fd[t], q)'
    <3>1. fd'[t][q] = fd[t][q]
      BY <2>2, <2>5 DEF Enabled
    <3>2. CASE fd[t][q] = -1
      BY <3>1, <3>2
    <3>3. CASE OpenOn(fd[t], q)
      <4>1. owner'[fd[t][q]] = q /\ fd[t][q] \in Fds
        BY <1>0, <2>1, <1>b, <3>3 DEF OpenOn, TypeOK, Nobody, Enabled
      <4> QED BY <3>1, <4>1 DEF OpenOn
    <3> QED BY <2>5, <3>2, <3>3
  <2>6. ArrayInv(t)'
    <3>1. OpenOn(fd[t], r)'
      BY <2>2 DEF OpenOn
    <3>2. ASSUME NEW q \in Enabled
          PROVE  /\ q < r + 1 => fd'[t][q] = -1 \/ OpenOn(fd[t], q)'
                 /\ q >= r + 1 => fd'[t][q] \notin Fds
      <4>1. CASE q = r
        BY <2>4, <3>1, <4>1
      <4>2. CASE q # r
        <5>1. q < r => fd[t][q] = -1 \/ OpenOn(fd[t], q)
          BY <1>a, <2>2 DEF ArrayInv
        <5>2. q >= r => fd[t][q] \notin Fds
          BY <1>a, <2>2 DEF ArrayInv
        <5> QED BY <2>2, <2>4, <2>5, <4>2, <5>1, <5>2 DEF Enabled
      <4> QED BY <4>1, <4>2
    <3> QED BY <1>c, <2>2, <3>2 DEF ArrayInv
  <2>7. EnabledHaveFd'
    BY <1>h, <2>2, <2>3 DEF EnabledHaveFd, OpenOn, Enabled
  <2>8. NoShare'
    BY <1>0, <1>h, <1>o, <2>2, <2>3 DEF NoShare, Enabled
  <2> QED BY <1>q, <2>6, <2>7, <2>8
<1>4. ASSUME NEW t \in Threads, OpenEnds(t)
      PROVE  DescInv'
  <2>1. pc[t] = "open" /\ i[t] = MaxReplica /\ owner' = owner
    BY <1>4 DEF OpenEnds
  <2>2. CASE Took(t) = {}
    <3>1. /\ disabled' = disabled /\ pc'[t] = "idle" /\ fd'[t] = Blank /\ i'[t] = 0
          /\ handles' = handles
      BY <1>0, <1>4, <2>2, GiveUpIsError DEF Return, Go, TypeOK
    <3>2. ArrayInv(t)'
      BY <3>1 DEF ArrayInv
    <3>3. EnabledHaveFd' /\ NoShare'
      BY <1>0, <1>b, <1>h, <1>o, <2>1, <3>1 DEF EnabledHaveFd, NoShare, Enabled, OpenOn
    <3> QED BY <1>q, <3>2, <3>3
  <2>3. CASE Took(t) # {}
    <3>1. /\ UNCHANGED <<disabled, handles, fd>>
          /\ \/ pc'[t] = "seek" /\ Failed(t) = {}
             \/ pc'[t] = "sweep" /\ i'[t] = 0
      BY <1>0, <1>4, <2>3 DEF OpenEnds, Go, TypeOK
    <3>2. ASSUME NEW r \in Enabled
          PROVE  /\ OpenOn(fd[t], r) \/ fd[t][r] = -1
                 /\ Failed(t) = {} => OpenOn(fd[t], r)
                 /\ r >= 0 /\ r \in Replicas
      <4>1. r < i[t] /\ r \in Replicas /\ r >= 0
        BY <2>1, FdAssumption DEF Enabled, Replicas
      <4> QED BY <1>a, <2>1, <4>1 DEF ArrayInv, Failed
    <3>3. ArrayInv(t)'
      BY <1>c, <2>1, <3>1, <3>2 DEF ArrayInv, OpenOn
    <3>4. EnabledHaveFd' /\ NoShare'
      BY <1>0, <2>1, <3>1 DEF EnabledHaveFd, NoShare, Enabled
    <3> QED BY <1>q, <3>3, <3>4
  <2> QED BY <2>2, <2>3
<1>5. ASSUME NEW t \in Threads, NEW r \in Replicas, Sweep(t, r)
       PROVE  DescInv'
  <2>1. /\ pc[t] = "sweep" /\ r = i[t] /\ i'[t] = r + 1
        /\ UNCHANGED <<owner, handles, fd>>
        /\ pc'[t] = IF r + 1 = MaxReplica THEN "seek" ELSE "sweep"
        /\ disabled \subseteq disabled' /\ (r \in Failed(t) => r \in disabled')
    BY <1>0, <1>5 DEF Sweep, SweepTo, Go, TypeOK
  <2>2. Enabled' \subseteq Enabled
    BY <2>1 DEF Enabled
  <2>3. ASSUME NEW q \in Enabled'
        PROVE  OpenOn(fd[t], q) \/ (fd[t][q] = -1 /\ q >= r + 1 /\ r + 1 # MaxReplica)
    <3>1. OpenOn(fd[t], q) \/ (q >= r /\ fd[t][q] = -1)
      BY <1>a, <2>1, <2>2 DEF ArrayInv
    <3>2. fd[t][q] = -1 => q # r
      BY <2>1 DEF Failed, Enabled
    <3>3. q \in Replicas /\ q < MaxReplica /\ q \in Nat /\ r \in Nat
      BY <1>b, FdAssumption DEF Enabled, Replicas
    <3> QED BY <3>1, <3>2, <3>3, FdAssumption
  <2>4. ArrayInv(t)'
    BY <2>1, <2>3 DEF ArrayInv, OpenOn
  <2>5. EnabledHaveFd' /\ NoShare'
    BY <1>0, <2>1, <2>2 DEF EnabledHaveFd, NoShare, Enabled
  <2> QED BY <1>q, <2>4, <2>5
<1>6. ASSUME NEW t \in Threads, Seek(t)
      PROVE  DescInv'
  <2>1. /\ pc[t] = "seek" /\ pc'[t] \in {"set", "close"}
        /\ UNCHANGED <<disabled, owner, handles, fd>>
    BY <1>0, <1>6 DEF Seek, Go, TypeOK
  <2>2. ArrayInv(t)'
    BY <1>a, <2>1 DEF ArrayInv, OpenOn, Enabled
  <2>3. EnabledHaveFd' /\ NoShare'
    BY <1>0, <2>1 DEF EnabledHaveFd, NoShare, Enabled
  <2> QED BY <1>q, <2>2, <2>3
<1>7. ASSUME NEW t \in Threads, Set(t)
      PROVE  DescInv'
  <2>1. /\ pc[t] = "set" /\ pc'[t] = "idle" /\ fd'[t] = Blank /\ i'[t] = 0
        /\ UNCHANGED <<disabled, owner>>
        /\ handles' = handles \cup {[slot |-> slot[t], fd |-> fd[t]]}
    BY <1>0, <1>7 DEF Set, Return, Go, TypeOK
  <2>2. ArrayInv(t)'
    BY <2>1 DEF ArrayInv
  <2>3. \A h \in handles', r \in Enabled : OpenOn(h.fd, r)
    BY <1>a, <1>h, <2>1 DEF ArrayInv
  <2>4. EnabledHaveFd'
    BY <2>1, <2>3 DEF EnabledHaveFd, OpenOn, Enabled
  <2>5. NoShare'
    <3>1. \A h \in handles', r \in Enabled : h.fd[r] # Blank[r]
      BY <1>b, <2>3 DEF OpenOn, Enabled
    <3>2. \A g, h \in handles', r \in Enabled : g.fd[r] = h.fd[r] => g = h
      BY <1>0, <2>1 DEF NoShare
    <3> QED BY <1>c, <1>o, <2>1, <3>1, <3>2 DEF NoShare
  <2> QED BY <1>q, <2>2, <2>4, <2>5
<1>8. ASSUME NEW t \in Threads, CloseAll(t)
      PROVE  DescInv'
  <2>1. /\ pc[t] = "close" /\ pc'[t] = "idle" /\ fd'[t] = Blank /\ i'[t] = 0
        /\ UNCHANGED <<disabled, handles>>
        /\ owner' = [f \in Fds |-> IF f \in Closing(fd[t]) THEN Nobody ELSE owner[f]]
    BY <1>0, <1>8 DEF CloseAll, Return, Go, TypeOK
  <2>2. ArrayInv(t)'
    BY <2>1 DEF ArrayInv
  <2>3. ASSUME NEW h \in handles, NEW r \in Enabled PROVE OpenOn(h.fd, r)'
    <3>1. \A q \in Enabled : OpenOn(fd[t], q)
      BY <1>a, <2>1 DEF ArrayInv
    <3>2. fd[t][r] # h.fd[r]
      BY <1>0 DEF NoShare
    <3>3. OpenOn(h.fd, r)
      BY <1>h
    <3>4. owner'[h.fd[r]] = r /\ h.fd[r] \in Fds
      <4>1. h.fd[r] \notin Closing(fd[t])
        BY <3>1, <3>2, <3>3 DEF Closing, OpenOn, Enabled
      <4> QED BY <2>1, <3>3, <4>1 DEF OpenOn
    <3> QED BY <2>1, <3>4 DEF OpenOn
  <2>4. EnabledHaveFd'
    BY <2>1, <2>3 DEF EnabledHaveFd, OpenOn, Enabled
  <2>5. NoShare'
    BY <1>0, <1>b, <1>h, <1>o, <2>1 DEF NoShare, Enabled, OpenOn
  <2> QED BY <1>q, <2>2, <2>4, <2>5
<1>9. ASSUME NEW t \in Threads, NEW h \in handles, Release(t, h)
      PROVE  DescInv'
  <2>1. h.fd \in FdArrays /\ tab[h.slot] = h.fd /\ h.fd # Null
    BY <1>0, ArraysAreNotNull DEF TypeOK, OwnSlot
  <2>2. /\ pc[t] = "idle" /\ pc'[t] = "clear" /\ fd' = fd /\ i' = i
        /\ disabled' = disabled /\ handles' = handles \ {h}
        /\ owner' = [f \in Fds |-> IF f \in Closing(h.fd) THEN Nobody ELSE owner[f]]
    BY <1>0, <1>9, <2>1 DEF Release, Go, TypeOK
  <2>3. ArrayInv(t)'
    BY <1>a, <2>2 DEF ArrayInv
  <2>4. ASSUME NEW g \in handles', NEW r \in Enabled
        PROVE  g.fd[r] \in Fds /\ owner'[g.fd[r]] = r
    <3>1. OpenOn(g.fd, r) /\ \A q \in Enabled : OpenOn(h.fd, q)
      BY <1>h, <2>2
    <3>2. g.fd[r] # h.fd[r]
      BY <1>0, <2>2 DEF NoShare
    <3>3. g.fd[r] \notin Closing(h.fd)
      BY <3>1, <3>2 DEF Closing, OpenOn, Enabled
    <3> QED BY <2>2, <3>1, <3>3 DEF OpenOn
  <2>5. EnabledHaveFd'
    BY <2>2, <2>4 DEF EnabledHaveFd, Enabled
  <2>6. NoShare'
    BY <1>0, <2>2 DEF NoShare, Enabled
  <2> QED BY <1>q, <2>3, <2>5, <2>6
<1>10. ASSUME NEW t \in Threads, Clear(t)
      PROVE  DescInv'
  <2>1. /\ pc'[t] = "idle" /\ fd'[t] = Blank /\ i'[t] = 0
        /\ UNCHANGED <<disabled, owner, handles>>
    BY <1>0, <1>10 DEF Clear, Return, Go, TypeOK
  <2>2. ArrayInv(t)'
    BY <2>1 DEF ArrayInv
  <2>3. EnabledHaveFd' /\ NoShare'
    BY <1>0, <1>b, <1>h, <1>o, <2>1 DEF EnabledHaveFd, NoShare, Enabled, OpenOn
  <2> QED BY <1>q, <2>2, <2>3
<1>11. ASSUME NEW r \in Replicas, OtherDisables(r)
       PROVE  DescInv'
  <2>1. UNCHANGED <<owner, handles, pc, i, fd>> /\ Enabled' \subseteq Enabled
    BY <1>11 DEF OtherDisables, Enabled
  <2>2. EnabledHaveFd' /\ NoShare'
    BY <1>0, <2>1 DEF EnabledHaveFd, NoShare, Enabled
  <2>3. \A t \in Threads : ArrayInv(t)'
    BY <1>a, <2>1 DEF ArrayInv, OpenOn
  <2> QED BY <1>t, <2>2, <2>3 DEF DescInv
<1>12. CASE UNCHANGED vars
  <2>1. EnabledHaveFd' /\ NoShare'
    BY <1>0, <1>12 DEF vars, EnabledHaveFd, NoShare, Enabled
  <2>2. \A t \in Threads : ArrayInv(t)'
    BY <1>a, <1>12 DEF vars, ArrayInv, OpenOn, Enabled
  <2> QED BY <1>t, <2>1, <2>2 DEF DescInv
<1> QED
  BY <1>1, <1>2, <1>3, <1>4, <1>5, <1>6, <1>7, <1>8, <1>9, <1>10, <1>11, <1>12
  DEF Next, OpenStep

(* An open file has an open descriptor of its own on every enabled replica  *)
(* (fs.c:282-506): what read and write rely on when they test only the     *)
(* flag, whatever opens failed and whatever was disabled since.            *)
THEOREM EnabledReplicasHaveFd ==
  ASSUME OneThread
  PROVE  Spec => []EnabledHaveFd
<1>1. Init => DescInv
  BY InitDescInv
<1>2. DescInv /\ [Next]_vars => DescInv'
  BY DescStep
<1>3. DescInv => EnabledHaveFd
  BY DEF DescInv
<1> QED BY <1>1, <1>2, <1>3, PTL DEF Spec

=============================================================================
