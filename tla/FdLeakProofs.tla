---------------------------- MODULE FdLeakProofs ----------------------------
(***************************************************************************)
(* With -s, no descriptor of an enabled replica leaks, what leaks on the    *)
(* others is bounded, and open answers EMFILE only when the table is full: *)
(* for any table size, hash, number of descriptors and of replicas.        *)
(***************************************************************************)
EXTENDS FdTableProofs, WellFoundedInduction, FiniteSetTheorems

(* The search of fd_hashseekfree misses no slot.                           *)
LEMMA SearchCoversTable ==
  ASSUME NEW h \in Slots, FreeSlots(h) = {}
  PROVE  \A s \in Slots : tab[s] # Null
<1>1. \A s \in Slots : s \in h .. FdBufSize - 1 \/ s \in 0 .. h - 1
  BY FdAssumption DEF Slots
<1> QED BY <1>1 DEF FreeSlots

(* A set of naturals that is not empty has a least element.                *)
LEMMA LeastOfNaturals ==
  ASSUME NEW S \in SUBSET Nat, S # {}
  PROVE  \E m \in S : \A n \in S : m <= n
<1>1. PICK m \in S : \A n \in S : <<n, m>> \notin OpToRel(<, Nat)
  BY Zenon, NatLessThanWellFounded, WFMin
<1>2. \A n \in S : ~ (n < m)
  BY <1>1 DEF OpToRel
<1> QED BY <1>2

(* While a descriptor of an enabled replica is open, one can be hashed.     *)
LEMMA SomeHashed ==
  ASSUME NEW t \in Threads, NEW q \in Enabled,
         \A r \in Enabled : OpenOn(fd[t], r)
  PROVE  \E f \in Fds : Hashed(t, f)
<1> DEFINE S == {x \in Replicas \ disabled : fd[t][x] >= 0}
<1>1. ASSUME NEW r \in Enabled PROVE fd[t][r] \in Fds /\ fd[t][r] >= 0
  <2>1. fd[t][r] \in Fds /\ fd[t][r] \in Nat
    BY FdAssumption DEF OpenOn
  <2> QED BY <2>1
<1>2. q \in S /\ S \in SUBSET Nat
  BY <1>1 DEF Enabled, Replicas
<1>3. PICK r \in S : \A x \in S : r <= x
  BY <1>2, LeastOfNaturals
<1>4. Hashed(t, fd[t][r])
  BY <1>3 DEF Hashed, IsFirst, Enabled
<1> QED BY <1>1, <1>3, <1>4 DEF Enabled

-----------------------------------------------------------------------------
(***************************************************************************)
(* The inductive invariant adds to DescInv that a descriptor in an array   *)
(* is open on the replica of its place, and what open knows when it finds  *)
(* no slot.                                                                *)
(***************************************************************************)

(* The array's descriptors, those of disabled replicas too.                *)
OwnedBy(a) == \A r \in Replicas : a[r] \in Fds => owner[a[r]] = r

Owned == (\A h \in handles : OwnedBy(h.fd)) /\ \A t \in Threads : OwnedBy(fd[t])

RequestInv(t) == pc[t] = "close" => \A s \in Slots : tab[s] # Null

LeakInv ==
  /\ DescInv /\ Owned /\ NoLeakWhileEnabled
  /\ \A t \in Threads : RequestInv(t)

LEMMA InitLeakInv == Init => LeakInv
<1> SUFFICES ASSUME Init PROVE LeakInv
  OBVIOUS
<1>1. \A r \in Replicas : Blank[r] \notin Fds /\ r # Nobody
  BY FdAssumption DEF Blank, Replicas, Nobody
<1>2. Owned
  BY <1>1 DEF Init, Owned, OwnedBy
<1>3. NoLeakWhileEnabled
  BY <1>1 DEF Init, NoLeakWhileEnabled
<1>4. \A t \in Threads : RequestInv(t)
  BY <1>1 DEF Init, RequestInv
<1> QED BY <1>2, <1>3, <1>4, InitDescInv DEF LeakInv

LEMMA LeakStep ==
  ASSUME OneThread
  PROVE  LeakInv /\ [Next]_vars => LeakInv'
<1> SUFFICES ASSUME LeakInv, [Next]_vars PROVE LeakInv'
  OBVIOUS
<1>0. TypeOK /\ OwnSlot /\ OpensInv /\ NoShare /\ Owned /\ NoLeakWhileEnabled
  BY DEF LeakInv, DescInv, TableInv
<1>a. \A t \in Threads : ArrayInv(t) /\ OpenInv(t) /\ RequestInv(t)
  BY <1>0 DEF LeakInv, DescInv, OpensInv
<1>d. DescInv'
  BY DescStep DEF LeakInv
<1>b. /\ \A r \in Replicas : Blank[r] \notin Fds /\ r \in Nat /\ r # Nobody
      /\ -1 \notin Fds
  BY FdAssumption DEF Blank, Replicas, Nobody
<1>o. \A t, u \in Threads : t = u
  BY DEF OneThread
<1>q. ASSUME NEW t \in Threads, RequestInv(t)', Owned', NoLeakWhileEnabled'
      PROVE  LeakInv'
  BY <1>d, <1>o, <1>q DEF LeakInv
<1>1. ASSUME NEW t \in Threads, Open(t) PROVE LeakInv'
  <2>1. UNCHANGED <<disabled, owner, handles, fd, tab>> /\ pc'[t] = "open"
    BY <1>0, <1>1 DEF Open, Go, TypeOK
  <2>2. RequestInv(t)'
    BY <1>a, <2>1 DEF RequestInv
  <2>3. Owned' /\ NoLeakWhileEnabled'
    BY <1>0, <2>1 DEF Owned, OwnedBy, NoLeakWhileEnabled, Kept
  <2> QED BY <1>q, <2>2, <2>3
<1>2. ASSUME NEW t \in Threads, NEW r \in Replicas, OpenSkips(t, r) PROVE LeakInv'
  <2>1. UNCHANGED <<disabled, owner, handles, fd, tab, pc>> /\ pc[t] = "open"
    BY <1>2 DEF OpenSkips, Iterate
  <2>2. RequestInv(t)'
    BY <1>a, <2>1 DEF RequestInv
  <2>3. Owned' /\ NoLeakWhileEnabled'
    BY <1>0, <2>1 DEF Owned, OwnedBy, NoLeakWhileEnabled, Kept
  <2> QED BY <1>q, <2>2, <2>3
<1>3. ASSUME NEW t \in Threads, NEW r \in Replicas, OpenFails(t, r) PROVE LeakInv'
  <2>1. /\ UNCHANGED <<disabled, owner, handles, tab, pc>> /\ pc[t] = "open"
        /\ fd'[t][r] = -1 /\ fd[t][r] \notin Fds
        /\ \A q \in Replicas : q # r => fd'[t][q] = fd[t][q]
    BY <1>0, <1>a, <1>b, <1>3 DEF OpenFails, Iterate, TypeOK, FdArrays, ArrayInv, Enabled
  <2>2. RequestInv(t)'
    BY <1>a, <1>b, <2>1 DEF RequestInv
  <2>3. Owned'
    BY <1>0, <1>b, <1>o, <2>1 DEF Owned, OwnedBy
  <2>4. ASSUME NEW f \in Fds, Kept(f) PROVE Kept(f)'
    BY <1>o, <2>1, <2>4 DEF Kept
  <2> QED BY <1>0, <1>q, <2>1, <2>2, <2>3, <2>4 DEF NoLeakWhileEnabled
<1>4. ASSUME NEW t \in Threads, NEW r \in Replicas, OpenSucceeds(t, r) PROVE LeakInv'
  <2>1. PICK f \in Fds : /\ owner[f] = Nobody
                         /\ fd' = [fd EXCEPT ![t][r] = f]
                         /\ owner' = [owner EXCEPT ![f] = r]
    BY <1>4 DEF OpenSucceeds, IsFirst, FreeFds
  <2>2. /\ UNCHANGED <<disabled, handles, tab, pc>> /\ pc[t] = "open"
        /\ r \notin disabled /\ fd'[t][r] = f /\ fd[t][r] \notin Fds
        /\ \A q \in Replicas : q # r => fd'[t][q] = fd[t][q]
        /\ owner'[f] = r /\ \A g \in Fds : g # f => owner'[g] = owner[g]
    BY <1>0, <1>a, <1>b, <1>4, <2>1
    DEF OpenSucceeds, Iterate, TypeOK, FdArrays, ArrayInv, Enabled
  <2>3. RequestInv(t)'
    BY <1>a, <2>2 DEF RequestInv
  <2>4. Owned'
    <3>1. ASSUME NEW a, OwnedBy(a) PROVE OwnedBy(a)'
      BY <1>b, <2>1, <2>2, <3>1 DEF OwnedBy
    <3>2. OwnedBy(fd[t])
      BY <1>0 DEF Owned
    <3>3. OwnedBy(fd[t])'
      <4>1. ASSUME NEW q \in Replicas, fd'[t][q] \in Fds PROVE owner'[fd'[t][q]] = q
        <5>1. CASE q = r
          BY <2>2, <5>1
        <5>2. CASE q # r
          BY <1>b, <2>1, <2>2, <3>2, <4>1, <5>2 DEF OwnedBy
        <5> QED BY <5>1, <5>2
      <4> QED BY <4>1 DEF OwnedBy
    <3> QED BY <1>0, <1>o, <2>2, <3>1, <3>3 DEF Owned
  <2>5. ASSUME NEW g \in Fds, Kept(g) PROVE Kept(g)'
    BY <1>o, <2>2, <2>5 DEF Kept
  <2>6. Kept(f)'
    BY <2>2 DEF Kept
  <2> QED BY <1>0, <1>q, <2>2, <2>3, <2>4, <2>5, <2>6 DEF NoLeakWhileEnabled
<1>5. ASSUME NEW t \in Threads, OpenEnds(t) PROVE LeakInv'
  <2>1. pc[t] = "open" /\ UNCHANGED <<disabled, owner, tab>>
    BY <1>5 DEF OpenEnds
  <2>2. CASE Took(t) = {}
    <3>1. handles' = handles /\ pc'[t] = "idle" /\ fd'[t] = Blank
      BY <1>0, <1>5, <2>2, GiveUpIsError DEF Return, Go, TypeOK
    <3>2. RequestInv(t)'
      BY <3>1 DEF RequestInv
    <3>3. Owned'
      BY <1>0, <1>b, <1>o, <2>1, <3>1 DEF Owned, OwnedBy
    <3>4. ASSUME NEW f \in Fds, Kept(f) PROVE Kept(f)'
      BY <1>o, <2>2, <3>1, <3>4 DEF Kept, Took
    <3> QED BY <1>0, <1>q, <2>1, <3>2, <3>3, <3>4 DEF NoLeakWhileEnabled
  <2>3. CASE Took(t) # {}
    <3>1. pc'[t] \in {"seek", "sweep"} /\ UNCHANGED <<handles, fd>>
      BY <1>0, <1>5, <2>3 DEF OpenEnds, Go, TypeOK
    <3>2. RequestInv(t)'
      BY <3>1 DEF RequestInv
    <3>3. Owned' /\ NoLeakWhileEnabled'
      BY <1>0, <2>1, <3>1 DEF Owned, OwnedBy, NoLeakWhileEnabled, Kept
    <3> QED BY <1>q, <3>2, <3>3
  <2> QED BY <2>2, <2>3
<1>6. ASSUME NEW t \in Threads, NEW r \in Replicas, Sweep(t, r) PROVE LeakInv'
  <2>1. /\ pc'[t] \in {"seek", "sweep"} /\ UNCHANGED <<owner, handles, fd>>
        /\ disabled \subseteq disabled'
    BY <1>0, <1>6 DEF Sweep, SweepTo, Go, TypeOK
  <2>2. RequestInv(t)'
    BY <2>1 DEF RequestInv
  <2>3. Owned' /\ NoLeakWhileEnabled'
    BY <1>0, <2>1 DEF Owned, OwnedBy, NoLeakWhileEnabled, Kept
  <2> QED BY <1>q, <2>2, <2>3
<1>7. ASSUME NEW t \in Threads, Seek(t) PROVE LeakInv'
  <2>1. /\ pc[t] = "seek" /\ pc'[t] \in {"set", "close"}
        /\ UNCHANGED <<disabled, owner, handles, fd, tab>>
    BY <1>0, <1>7 DEF Seek, Go, TypeOK
  <2>2. ASSUME pc'[t] = "close" PROVE \A s \in Slots : tab[s] # Null
    <3>1. \A f \in Fds : Hashed(t, f) => FreeSlots(HashFd[f]) = {}
      BY <1>0, <1>7, <2>2 DEF Seek, Go, TypeOK
    <3>2. PICK q \in Enabled : fd[t][q] \in Fds
      BY <1>a, <2>1 DEF OpenInv, Took, Enabled
    <3>3. \A r \in Enabled : OpenOn(fd[t], r)
      BY <1>a, <2>1 DEF ArrayInv
    <3>4. PICK f \in Fds : Hashed(t, f)
      BY <3>2, <3>3, SomeHashed
    <3>5. HashFd[f] \in Slots
      BY FdAssumption
    <3> QED BY <3>1, <3>4, <3>5, SearchCoversTable
  <2>3. RequestInv(t)'
    BY <1>a, <2>1, <2>2 DEF RequestInv
  <2>4. Owned' /\ NoLeakWhileEnabled'
    BY <1>0, <2>1 DEF Owned, OwnedBy, NoLeakWhileEnabled, Kept
  <2> QED BY <1>q, <2>3, <2>4
<1>8. ASSUME NEW t \in Threads, Set(t) PROVE LeakInv'
  <2>1. /\ pc'[t] = "idle" /\ fd'[t] = Blank /\ UNCHANGED <<disabled, owner>>
        /\ handles' = handles \cup {[slot |-> slot[t], fd |-> fd[t]]}
    BY <1>0, <1>8 DEF Set, Return, Go, TypeOK
  <2>2. RequestInv(t)'
    BY <1>b, <2>1 DEF RequestInv
  <2>3. Owned'
    <3>1. \A h \in handles' : OwnedBy(h.fd)
      BY <1>0, <2>1 DEF Owned
    <3> QED BY <1>b, <1>o, <2>1, <3>1 DEF Owned, OwnedBy
  <2>4. ASSUME NEW f \in Fds, Kept(f) PROVE Kept(f)'
    <3>1. CASE \E h \in handles, r \in Replicas : h.fd[r] = f
      BY <2>1, <3>1 DEF Kept
    <3>2. CASE \E u \in Threads, r \in Replicas : fd[u][r] = f
      <4>1. PICK r \in Replicas : fd[t][r] = f
        BY <1>o, <3>2
      <4>2. [slot |-> slot[t], fd |-> fd[t]].fd[r] = f
        BY <4>1
      <4> QED BY <2>1, <4>2 DEF Kept
    <3> QED BY <2>4, <3>1, <3>2 DEF Kept
  <2> QED BY <1>0, <1>q, <2>1, <2>2, <2>3, <2>4 DEF NoLeakWhileEnabled
<1>c. ASSUME NEW a, OwnedBy(a), NEW C, C \subseteq Fds,
             \A r \in Replicas : a[r] \notin C,
             owner' = [f \in Fds |-> IF f \in C THEN Nobody ELSE owner[f]]
      PROVE  OwnedBy(a)'
  BY <1>c DEF OwnedBy
<1>9. ASSUME NEW t \in Threads, CloseAll(t) PROVE LeakInv'
  <2>1. /\ pc[t] = "close" /\ pc'[t] = "idle" /\ fd'[t] = Blank
        /\ UNCHANGED <<disabled, handles, tab>>
        /\ owner' = [f \in Fds |-> IF f \in Closing(fd[t]) THEN Nobody ELSE owner[f]]
    BY <1>0, <1>9 DEF CloseAll, Return, Go, TypeOK
  <2>2. RequestInv(t)'
    BY <1>b, <2>1 DEF RequestInv
  <2>3. ASSUME NEW h \in handles, NEW r \in Replicas PROVE h.fd[r] \notin Closing(fd[t])
    <3>1. ASSUME NEW q \in Enabled, fd[t][q] = h.fd[r], h.fd[r] \in Fds PROVE FALSE
      <4>1. owner[h.fd[r]] = r /\ owner[fd[t][q]] = q
        BY <1>0, <3>1 DEF Owned, OwnedBy, Enabled
      <4> QED BY <1>0, <3>1, <4>1 DEF NoShare
    <3> QED BY <3>1 DEF Closing, Enabled
  <2>4. Owned'
    <3>1. \A h \in handles : OwnedBy(h.fd)'
      BY <1>0, <1>c, <2>1, <2>3 DEF Owned, Closing
    <3> QED BY <1>b, <1>o, <2>1, <3>1 DEF Owned, OwnedBy
  <2>5. ASSUME NEW f \in Fds, Kept(f), owner'[f] \in Enabled PROVE Kept(f)'
    <3>1. f \notin Closing(fd[t]) /\ owner[f] \in Enabled
      BY <1>b, <2>1, <2>5 DEF Enabled
    <3>2. \A r \in Replicas : fd[t][r] # f
      BY <1>a, <3>1 DEF OpenInv, Closing
    <3> QED BY <1>o, <2>1, <2>5, <3>2 DEF Kept
  <2>6. NoLeakWhileEnabled'
    BY <1>0, <1>b, <2>1, <2>5 DEF NoLeakWhileEnabled, Enabled
  <2> QED BY <1>q, <2>2, <2>4, <2>6
<1>10. ASSUME NEW t \in Threads, NEW h \in handles, Release(t, h) PROVE LeakInv'
  <2>1. h.fd \in FdArrays /\ tab[h.slot] = h.fd /\ h.fd # Null
    BY <1>0, ArraysAreNotNull DEF TypeOK, OwnSlot
  <2>2. /\ pc'[t] = "clear" /\ UNCHANGED <<disabled, fd, tab>>
        /\ handles' = handles \ {h}
        /\ owner' = [f \in Fds |-> IF f \in Closing(h.fd) THEN Nobody ELSE owner[f]]
    BY <1>0, <1>10, <2>1 DEF Release, Go, TypeOK
  <2>3. RequestInv(t)'
    BY <1>a, <2>2 DEF RequestInv
  <2>4. ASSUME NEW g \in handles', NEW r \in Replicas PROVE g.fd[r] \notin Closing(h.fd)
    <3>1. ASSUME NEW q \in Enabled, h.fd[q] = g.fd[r], g.fd[r] \in Fds PROVE FALSE
      <4>1. owner[g.fd[r]] = r /\ owner[h.fd[q]] = q
        BY <1>0, <2>2, <3>1 DEF Owned, OwnedBy, Enabled
      <4> QED BY <1>0, <2>2, <3>1, <4>1 DEF NoShare
    <3> QED BY <3>1 DEF Closing, Enabled
  <2>5. \A u \in Threads, r \in Replicas : fd[u][r] \notin Fds
    BY <1>0, <1>10, <1>a, <1>b, <1>o DEF Release, OpenInv
  <2>6. Owned'
    <3>1. \A g \in handles' : OwnedBy(g.fd)'
      BY <1>0, <1>c, <2>2, <2>4 DEF Owned, Closing
    <3> QED BY <2>2, <2>5, <3>1 DEF Owned, OwnedBy
  <2>7. ASSUME NEW f \in Fds, Kept(f), owner'[f] \in Enabled PROVE Kept(f)'
    <3>1. f \notin Closing(h.fd) /\ owner[f] \in Enabled
      BY <1>b, <2>2, <2>7 DEF Enabled
    <3>2. \A r \in Replicas : h.fd[r] # f
      BY <1>0, <3>1 DEF Owned, OwnedBy, Closing, Enabled
    <3> QED BY <2>2, <2>7, <3>2 DEF Kept
  <2>8. NoLeakWhileEnabled'
    BY <1>0, <1>b, <2>2, <2>7 DEF NoLeakWhileEnabled, Enabled
  <2> QED BY <1>q, <2>3, <2>6, <2>8
<1>11. ASSUME NEW t \in Threads, Clear(t) PROVE LeakInv'
  <2>1. /\ pc[t] = "clear" /\ pc'[t] = "idle" /\ fd'[t] = Blank
        /\ UNCHANGED <<disabled, owner, handles>>
    BY <1>0, <1>11 DEF Clear, Return, Go, TypeOK
  <2>2. fd' = fd
    BY <1>0, <1>11, <1>a, <2>1 DEF Clear, Return, OpenInv, TypeOK
  <2>3. RequestInv(t)'
    BY <1>b, <2>1 DEF RequestInv
  <2>4. Owned' /\ NoLeakWhileEnabled'
    BY <1>0, <2>1, <2>2 DEF Owned, OwnedBy, NoLeakWhileEnabled, Kept
  <2> QED BY <1>q, <2>3, <2>4
<1>12. ASSUME NEW r \in Replicas, OtherDisables(r) PROVE LeakInv'
  <2>1. /\ UNCHANGED <<owner, handles, tab, pc, fd>> /\ disabled' = disabled \cup {r}
        /\ \A t \in Threads : pc[t] = "idle"
    BY <1>12 DEF OtherDisables
  <2>2. \A t \in Threads : RequestInv(t)'
    BY <2>1 DEF RequestInv
  <2>3. Owned' /\ NoLeakWhileEnabled'
    BY <1>0, <2>1 DEF Owned, OwnedBy, NoLeakWhileEnabled, Kept
  <2> QED BY <1>d, <2>2, <2>3 DEF LeakInv
<1>13. CASE UNCHANGED vars
  <2>1. \A t \in Threads : RequestInv(t)'
    BY <1>a, <1>13 DEF vars, RequestInv
  <2>2. Owned' /\ NoLeakWhileEnabled'
    BY <1>0, <1>13 DEF vars, Owned, OwnedBy, NoLeakWhileEnabled, Kept
  <2> QED BY <1>d, <2>1, <2>2 DEF LeakInv
<1> QED
  BY <1>1, <1>2, <1>3, <1>4, <1>5, <1>6, <1>7, <1>8, <1>9, <1>10, <1>11, <1>12, <1>13
  DEF Next, OpenStep

(* A descriptor of an enabled replica stays open only for an open file or a *)
(* request under way (fs.c:282-506): every path of open and release that    *)
(* gives a file up closes it on the replicas in use.                       *)
THEOREM EnabledReplicasDoNotLeak ==
  ASSUME OneThread
  PROVE  Spec => []NoLeakWhileEnabled
<1>1. Init => LeakInv
  BY InitLeakInv
<1>2. LeakInv /\ [Next]_vars => LeakInv'
  BY LeakStep
<1>3. LeakInv => NoLeakWhileEnabled
  BY DEF LeakInv
<1> QED BY <1>1, <1>2, <1>3, PTL DEF Spec

(* open and create answer EMFILE only when every slot is taken: the search  *)
(* of fd_hashseekfree (fs.c:65-93) wraps around and misses none.           *)
THEOREM EmfileOnlyWhenFull ==
  ASSUME OneThread
  PROVE  Spec => EmfileMeansFull
<1>1. Init => LeakInv
  BY InitLeakInv
<1>2. LeakInv /\ [Next]_vars => LeakInv'
  BY LeakStep
<1>3. LeakInv => [\A t \in Threads :
        (pc[t] = "close" /\ ret'[t] = "emfile") => \A s \in Slots : tab[s] # Null]_vars
  BY DEF LeakInv, RequestInv
<1> QED BY <1>1, <1>2, <1>3, PTL DEF Spec, EmfileMeansFull

-----------------------------------------------------------------------------
(***************************************************************************)
(* The budget of descriptors.  On a replica in use each descriptor belongs *)
(* to a slot of the table or to the open under way; once the replica is    *)
(* disabled it gets no more.                                               *)
(***************************************************************************)
HeldOn(r) == {f \in Fds : owner[f] = r}

WithinBudget(r) == Cardinality(HeldOn(r)) <= FdBufSize + 1

(* Where a descriptor of r is kept: its slot, or FdBufSize for the request. *)
KeptAt(r, f) ==
  IF \E t \in Threads : fd[t][r] = f
    THEN FdBufSize
    ELSE CHOOSE s \in Slots : tab[s] # Null /\ tab[s][r] = f

LEMMA KeptAtItsPlace ==
  ASSUME LeakInv, NEW r \in Enabled, NEW f \in HeldOn(r)
  PROVE  \/ KeptAt(r, f) = FdBufSize /\ \E t \in Threads : fd[t][r] = f
         \/ KeptAt(r, f) \in Slots /\ tab[KeptAt(r, f)] # Null /\ tab[KeptAt(r, f)][r] = f
<1>0. TypeOK /\ OwnSlot /\ Owned /\ NoLeakWhileEnabled
  BY DEF LeakInv, DescInv, TableInv
<1>1. f \in Fds /\ owner[f] = r /\ r \in Replicas /\ Kept(f)
  BY <1>0 DEF HeldOn, NoLeakWhileEnabled, Enabled
<1>2. CASE \E t \in Threads : fd[t][r] = f
  BY <1>2 DEF KeptAt
<1>3. CASE ~ \E t \in Threads : fd[t][r] = f
  <2>1. PICK h \in handles, q \in Replicas : h.fd[q] = f
    <3>1. ~ \E t \in Threads, q \in Replicas : fd[t][q] = f
      BY <1>0, <1>1, <1>3 DEF Owned, OwnedBy
    <3> QED BY <1>1, <3>1 DEF Kept
  <2>2. q = r
    BY <1>0, <1>1, <2>1 DEF Owned, OwnedBy
  <2>3. h.slot \in Slots /\ tab[h.slot] # Null /\ tab[h.slot][r] = f
    BY <1>0, <2>1, <2>2, ArraysAreNotNull DEF TypeOK, OwnSlot
  <2>4. KeptAt(r, f) = CHOOSE s \in Slots : tab[s] # Null /\ tab[s][r] = f
    BY <1>3 DEF KeptAt
  <2> QED BY <2>3, <2>4
<1> QED BY <1>2, <1>3

LEMMA InUseWithinBudget ==
  ASSUME OneThread, LeakInv, NEW r \in Enabled
  PROVE  WithinBudget(r)
<1> DEFINE g == [f \in HeldOn(r) |-> KeptAt(r, f)]
<1>1. g \in [HeldOn(r) -> 0 .. FdBufSize]
  <2>1. ASSUME NEW f \in HeldOn(r) PROVE KeptAt(r, f) \in 0 .. FdBufSize
    <3>1. KeptAt(r, f) = FdBufSize \/ KeptAt(r, f) \in Slots
      BY KeptAtItsPlace
    <3> QED BY <3>1, FdAssumption DEF Slots
  <2> QED BY <2>1
<1>2. ASSUME NEW e \in HeldOn(r), NEW f \in HeldOn(r), KeptAt(r, e) = KeptAt(r, f)
      PROVE  e = f
  <2>1. FdBufSize \notin Slots
    BY FdAssumption DEF Slots
  <2>2. \/ KeptAt(r, e) = FdBufSize /\ \E t \in Threads : fd[t][r] = e
        \/ KeptAt(r, e) \in Slots /\ tab[KeptAt(r, e)][r] = e
    BY KeptAtItsPlace
  <2>3. \/ KeptAt(r, f) = FdBufSize /\ \E t \in Threads : fd[t][r] = f
        \/ KeptAt(r, f) \in Slots /\ tab[KeptAt(r, f)][r] = f
    BY KeptAtItsPlace
  <2> QED BY <1>2, <2>1, <2>2, <2>3 DEF OneThread
<1>3. g \in Injection(HeldOn(r), 0 .. FdBufSize)
  BY <1>1, <1>2 DEF Injection, IsInjective
<1>4. IsFiniteSet(0 .. FdBufSize) /\ Cardinality(0 .. FdBufSize) = FdBufSize + 1
  BY FS_Interval, FdAssumption
<1>5. Cardinality(HeldOn(r)) <= Cardinality(0 .. FdBufSize)
  BY <1>3, <1>4, FS_Injection
<1> QED BY <1>4, <1>5 DEF WithinBudget

(* A replica that is disabled, now or before, gets no descriptor.           *)
LEMMA DisabledHoldsNoMore ==
  ASSUME LeakInv, [Next]_vars, NEW r \in Replicas, r \in disabled'
  PROVE  HeldOn(r)' \subseteq HeldOn(r)
<1>0. TypeOK /\ r # Nobody
  BY FdAssumption DEF LeakInv, DescInv, TableInv, Replicas, Nobody
<1>1. ASSUME NEW f \in Fds, owner'[f] = r PROVE owner[f] = r
  <2>1. CASE UNCHANGED owner
    BY <1>1, <2>1
  <2>2. ASSUME NEW C, owner' = [x \in Fds |-> IF x \in C THEN Nobody ELSE owner[x]]
        PROVE  owner[f] = r
    BY <1>0, <1>1, <2>2
  <2>3. ASSUME NEW t \in Threads, NEW q \in Replicas, OpenSucceeds(t, q)
        PROVE  owner[f] = r
    <3>1. q # r
      BY <2>3 DEF OpenSucceeds
    <3> QED BY <1>0, <1>1, <2>3, <3>1 DEF OpenSucceeds, TypeOK
  <2>4. \/ UNCHANGED owner
        \/ \E C : owner' = [x \in Fds |-> IF x \in C THEN Nobody ELSE owner[x]]
        \/ \E t \in Threads, q \in Replicas : OpenSucceeds(t, q)
    <3>1. CASE UNCHANGED vars
      BY <3>1 DEF vars
    <3>2. ASSUME NEW t \in Threads, Open(t) \/ OpenEnds(t) \/ Seek(t) \/ Set(t) \/ Clear(t)
          PROVE  UNCHANGED owner
      BY <3>2 DEF Open, OpenEnds, Seek, Set, Clear
    <3>3. ASSUME NEW t \in Threads, NEW q \in Replicas, OpenSkips(t, q) \/ OpenFails(t, q) \/ Sweep(t, q)
          PROVE  UNCHANGED owner
      BY <3>3 DEF OpenSkips, OpenFails, Sweep, SweepTo
    <3>4. ASSUME NEW t \in Threads, CloseAll(t)
          PROVE  \E C : owner' = [x \in Fds |-> IF x \in C THEN Nobody ELSE owner[x]]
      BY <3>4 DEF CloseAll
    <3>5. ASSUME NEW t \in Threads, NEW h \in handles, Release(t, h)
          PROVE  \/ UNCHANGED owner
                 \/ \E C : owner' = [x \in Fds |-> IF x \in C THEN Nobody ELSE owner[x]]
      BY <3>5 DEF Release
    <3>6. ASSUME NEW q \in Replicas, OtherDisables(q) PROVE UNCHANGED owner
      BY <3>6 DEF OtherDisables
    <3> QED BY <3>1, <3>2, <3>3, <3>4, <3>5, <3>6 DEF Next, OpenStep
  <2> QED BY <2>1, <2>2, <2>3, <2>4
<1> QED BY <1>1 DEF HeldOn

(* No replica ever holds more descriptors than the table has slots, and one *)
(* for an open under way, though release (fs.c:483-506) never closes those  *)
(* of a disabled one: the leak is bounded for the life of the mount.        *)
THEOREM LeakIsBounded ==
  ASSUME OneThread
  PROVE  Spec => []FdBudget
<1> DEFINE InUse == \A r \in Replicas \ disabled : WithinBudget(r)
<1>1. LeakInv => InUse
  BY InUseWithinBudget DEF Enabled
<1>2. LeakInv /\ LeakInv' /\ InUse' /\ FdBudget /\ [Next]_vars => FdBudget'
  <2> SUFFICES ASSUME LeakInv, InUse', FdBudget, [Next]_vars, NEW r \in Replicas
               PROVE  WithinBudget(r)'
    BY DEF FdBudget, WithinBudget, HeldOn
  <2>1. CASE r \notin disabled'
    BY <2>1
  <2>2. CASE r \in disabled'
    <3>1. HeldOn(r)' \subseteq HeldOn(r) /\ HeldOn(r) \subseteq Fds
      BY <2>2, DisabledHoldsNoMore DEF HeldOn
    <3>2. IsFiniteSet(HeldOn(r))
      BY <3>1, FS_Subset, FdAssumption
    <3>3. /\ Cardinality(HeldOn(r)') <= Cardinality(HeldOn(r))
          /\ Cardinality(HeldOn(r)) \in Nat /\ Cardinality(HeldOn(r)') \in Nat
      BY <3>1, <3>2, FS_Subset, FS_CardinalityType
    <3>4. Cardinality(HeldOn(r)) <= FdBufSize + 1
      BY DEF FdBudget, HeldOn
    <3> QED BY <3>3, <3>4, FdAssumption DEF WithinBudget
  <2> QED BY <2>1, <2>2
<1>3. Init => FdBudget
  <2> SUFFICES ASSUME Init, NEW r \in Replicas
               PROVE  Cardinality(HeldOn(r)) <= FdBufSize + 1
    BY DEF FdBudget, HeldOn
  <2>1. HeldOn(r) = {}
    BY FdAssumption DEF Init, HeldOn, Replicas, Nobody
  <2> QED BY <2>1, FS_EmptySet, FdAssumption
<1>4. Init => LeakInv
  BY InitLeakInv
<1>5. LeakInv /\ [Next]_vars => LeakInv'
  BY LeakStep
<1> QED BY <1>1, <1>2, <1>3, <1>4, <1>5, PTL DEF Spec

=============================================================================
