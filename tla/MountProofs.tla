----------------------------- MODULE MountProofs -----------------------------
(***************************************************************************)
(* What do_mount makes of a limit and of a replica list, for lists of any  *)
(* length, limits and word sizes: a table of descriptors as large as the   *)
(* limit allows, and the round-robin tables that Replicas assumes, with    *)
(* which choose_replica never divides by zero.                             *)
(***************************************************************************)
EXTENDS Mount, TLAPS, SequenceTheorems, NaturalsInduction, WellFoundedInduction

(* The defining equation of the powers of two, and what follows by looking  *)
(* at the least number that would break it.                                *)
LEMMA PowerStep ==
  /\ PowerOf2[0] = 1
  /\ \A n \in Nat : PowerOf2[n + 1] = 2 * PowerOf2[n]
<1> DEFINE Twice(v, n) == 2 * v
<1>1. NatInductiveDefHypothesis(PowerOf2, 1, Twice)
  BY DEF NatInductiveDefHypothesis, PowerOf2
<1>2. NatInductiveDefConclusion(PowerOf2, 1, Twice)
  BY <1>1, NatInductiveDef
<1>3. PowerOf2 = [n \in Nat |-> IF n = 0 THEN 1 ELSE 2 * PowerOf2[n - 1]]
  BY <1>2 DEF NatInductiveDefConclusion
<1> QED BY <1>3

LEMMA LeastNatural ==
  ASSUME NEW S \in SUBSET Nat, S # {}
  PROVE  \E m \in S : \A n \in S : m <= n
<1>1. PICK m \in S : \A n \in S : <<n, m>> \notin OpToRel(<, Nat)
  BY Zenon, NatLessThanWellFounded, WFMin
<1>2. \A n \in S : ~ (n < m)
  BY <1>1 DEF OpToRel
<1> QED BY <1>2

LEMMA PowerType == \A n \in Nat : PowerOf2[n] \in Nat \ {0}
<1> DEFINE Bad == {n \in Nat : PowerOf2[n] \notin Nat \ {0}}
<1> SUFFICES ASSUME Bad # {} PROVE FALSE
  OBVIOUS
<1>1. PICK m \in Bad : \A n \in Bad : m <= n
  BY LeastNatural
<1>2. m - 1 \in Nat /\ m - 1 \notin Bad /\ m = (m - 1) + 1
  BY <1>1, PowerStep
<1>3. PowerOf2[m - 1] \in Nat \ {0} /\ PowerOf2[m] = 2 * PowerOf2[m - 1]
  BY <1>2, PowerStep
<1> QED BY <1>1, <1>3

LEMMA PowerGrows == \A m, n \in Nat : m < n => PowerOf2[m] < PowerOf2[n]
<1> SUFFICES ASSUME NEW m \in Nat, NEW k \in Nat, m < k, ~ (PowerOf2[m] < PowerOf2[k])
             PROVE  FALSE
  OBVIOUS
<1> DEFINE Bad == {n \in Nat : m < n /\ ~ (PowerOf2[m] < PowerOf2[n])}
<1>1. PICK n \in Bad : \A x \in Bad : n <= x
  <2>1. Bad \in SUBSET Nat /\ Bad # {}
    OBVIOUS
  <2> QED BY <2>1, LeastNatural
<1>2. n - 1 \in Nat /\ n = (n - 1) + 1 /\ n - 1 \notin Bad
  BY <1>1
<1>3. m = n - 1 \/ PowerOf2[m] < PowerOf2[n - 1]
  BY <1>1, <1>2
<1>4. PowerOf2[n] = 2 * PowerOf2[n - 1]
  BY <1>2, PowerStep
<1>5. PowerOf2[m] \in Nat \ {0} /\ PowerOf2[n - 1] \in Nat \ {0}
  BY <1>2, PowerType
<1> QED BY <1>1, <1>3, <1>4, <1>5

LEMMA WordFacts == Word \in Nat /\ Word >= 8 /\ Limits \subseteq 0 .. Word - 1
<1>1. PowerOf2[1] = 2 /\ PowerOf2[2] = 4 /\ PowerOf2[3] = 8
  <2>1. PowerOf2[0 + 1] = 2 * PowerOf2[0] /\ PowerOf2[1 + 1] = 2 * PowerOf2[1]
        /\ PowerOf2[2 + 1] = 2 * PowerOf2[2] /\ PowerOf2[0] = 1
    BY PowerStep
  <2> QED BY <2>1
<1>2. Width \in Nat /\ (3 < Width \/ Width = 3)
  BY MountAssumption
<1>3. Word \in Nat /\ (3 < Width => PowerOf2[3] < Word)
  BY <1>2, PowerType, PowerGrows DEF Word
<1> QED BY <1>1, <1>2, <1>3, MountAssumption DEF Word

(* The division of C, and the products the comparison of sizes needs.       *)
LEMMA Division ==
  ASSUME NEW x \in Nat, NEW n \in Nat, n > 0
  PROVE  /\ x \div n \in Nat
         /\ (x \div n) * n <= x
         /\ x < (x \div n) * n + n
  BY SMT

LEMMA Products ==
  ASSUME NEW a \in Nat, NEW b \in Nat, NEW n \in Nat, a <= b
  PROVE  a * n <= b * n
  BY SMT

-----------------------------------------------------------------------------
(***************************************************************************)
(* The type invariant, with what each phase knows of the list.             *)
(***************************************************************************)
ListInv ==
  /\ TypeOK
  /\ fields \in Seq(Fields) /\ rest \in Seq(Fields) /\ Len(fields) \in 2 .. MaxFields
  /\ high \in Seq(Nat) /\ low \in Seq(Nat)
  /\ phase \in {"count", "limit", "divide", "size", "alloc", "clear"} =>
       rest = fields /\ high = <<>> /\ low = <<>> /\ try = 0
  /\ phase \in {"count", "limit", "divide", "size", "alloc"} => i = 0
  /\ phase # "count" => max_replica = Len(fields)
  /\ phase = "split" => i + Len(rest) <= Len(fields)
  /\ phase = "mounted" => rest = <<>>

LEMMA InitListInv == Init => ListInv
<1> SUFFICES ASSUME Init PROVE ListInv
  OBVIOUS
<1>1. fields \in Seq(Fields) /\ Len(fields) \in 2 .. MaxFields
  <2>1. PICK n \in 2 .. MaxFields : fields \in [1 .. n -> Fields]
    BY DEF Init
  <2>2. n \in Nat
    BY <2>1, MountAssumption
  <2> QED BY <2>1, <2>2
<1>2. \A S : <<>> \in Seq(S)
  BY EmptySeq
<1>3. IntWord \in Nat /\ 0 \in 0 .. IntWord - 1
  <2>1. PowerOf2[IntWidth] \in Nat \ {0}
    BY PowerType, MountAssumption
  <2> QED BY <2>1 DEF IntWord
<1>4. TypeOK
  BY <1>1, <1>2, <1>3, WordFacts, MountAssumption DEF Init, TypeOK
<1> QED BY <1>1, <1>2, <1>4 DEF Init, ListInv

LEMMA ListStep == ListInv /\ [Next]_vars => ListInv'
<1> SUFFICES ASSUME ListInv, [Next]_vars PROVE ListInv'
  OBVIOUS
<1> USE DEF input, sizes, split
<1>0. /\ TypeOK /\ Len(fields) \in 2 .. MaxFields /\ Len(fields) \in Nat
      /\ Word \in Nat /\ Word >= 8 /\ soft \in 0 .. Word - 1 /\ hard \in 0 .. Word - 1
      /\ IntWord \in Nat /\ MaxFields < IntWord /\ MaxFields \in Nat
  <2>1. IntWord \in Nat
    BY PowerType, MountAssumption DEF IntWord
  <2> QED BY <2>1, WordFacts, MountAssumption DEF ListInv, TypeOK
<1>1. CASE Count
  BY <1>0, <1>1 DEF Count, TypeOK, ListInv
<1>r. CASE Raise
  BY <1>0, <1>r DEF Raise, TypeOK, ListInv
<1>d. CASE Divide
  <2> DEFINE x == (tmpfd + Word - 6) % Word
             q == x \div Len(fields)
  <2>1. x \in 0 .. Word - 1
    BY <1>0 DEF TypeOK
  <2>2. q \in Nat /\ q * Len(fields) <= x
    BY <1>0, <2>1, Division
  <2>3. q <= q * Len(fields)
    BY <1>0, <2>2, SMT
  <2>4. tmpfd' = q
    BY <1>d DEF Divide, ListInv
  <2>5. tmpfd' \in 0 .. Word - 1
    <3> HIDE DEF x, q
    <3> QED BY <1>0, <2>1, <2>2, <2>3, <2>4
  <2> QED BY <1>d, <2>5 DEF Divide, ListInv, TypeOK
<1>2. ASSUME NEW from, from # "count", Exit(from) PROVE ListInv'
  BY <1>2 DEF Exit, ListInv, TypeOK
<1>3. CASE Grow
  <2>1. fd_buf_size' \in 0 .. Word - 1
    BY <1>0, <1>3 DEF Grow, TypeOK
  <2> QED BY <1>3, <2>1 DEF Grow, ListInv, TypeOK
<1>4. CASE Halve
  <2>1. fd_buf_size' \in 0 .. Word - 1
    BY <1>0, <1>4 DEF Halve, TypeOK
  <2> QED BY <1>4, <2>1 DEF Halve, ListInv, TypeOK
<1>5. CASE Alloc
  BY <1>0, <1>5 DEF Alloc, ListInv, TypeOK
<1>c. CASE Clear
  <2>1. i' \in 0 .. IntWord - 1
    BY <1>0, <1>c DEF Clear, TypeOK
  <2> QED BY <1>c, <2>1 DEF Clear, ListInv, TypeOK
<1>t. CASE Tables
  BY <1>0, <1>t DEF Tables, Cleared, ListInv, TypeOK
<1>6. CASE SkipEmpty \/ Token
  <2>1. /\ Tail(rest) \in Seq(Fields) /\ Len(rest) \in Nat \ {0}
        /\ Len(Tail(rest)) = Len(rest) - 1
    BY <1>6, EmptySeq, HeadTailProperties, LenProperties DEF SkipEmpty, Token, ListInv
  <2>2. CASE SkipEmpty
    BY <1>0, <2>1, <2>2 DEF SkipEmpty, ListInv, TypeOK
  <2>3. CASE Token
    <3>1. /\ i \in Nat /\ i' = i + 1 /\ i + Len(rest) <= Len(fields)
          /\ max_replica = Len(fields) /\ phase' = phase /\ phase = "split"
      BY <1>0, <2>3 DEF Token, ListInv, TypeOK
    <3>2. i' \in 0 .. max_replica /\ i \in 0 .. MaxFields
      BY <1>0, <2>1, <3>1, MountAssumption
    <3>3. /\ high' \in Seq(Nat) /\ low' \in Seq(Nat)
          /\ high' \in Seq(0 .. MaxFields) /\ low' \in Seq(0 .. MaxFields)
      <4>1. /\ high \in Seq(Nat) /\ low \in Seq(Nat)
            /\ high \in Seq(0 .. MaxFields) /\ low \in Seq(0 .. MaxFields)
        BY DEF ListInv, TypeOK
      <4>2. /\ Append(high, i) \in Seq(Nat) /\ Append(low, i) \in Seq(Nat)
            /\ Append(high, i) \in Seq(0 .. MaxFields) /\ Append(low, i) \in Seq(0 .. MaxFields)
        BY <3>1, <3>2, <4>1, AppendProperties
      <4> QED BY <2>3, <4>1, <4>2 DEF Token
    <3>4. /\ i' \in 0 .. IntWord - 1 /\ i' <= max_replica
          /\ Len(rest') <= Len(fields) /\ i' + Len(rest') <= Len(fields)
          /\ rest' = Tail(rest) /\ UNCHANGED <<input, sizes, phase, try>>
      BY <1>0, <2>1, <2>3, <3>1, <3>2 DEF Token, ListInv, TypeOK
    <3>5. TypeOK'
      BY <3>1, <3>3, <3>4 DEF ListInv, TypeOK
    <3> QED BY <2>1, <3>1, <3>3, <3>4, <3>5 DEF ListInv
  <2> QED BY <1>6, <2>2, <2>3
<1>7. CASE BadToken \/ NoTables
  BY <1>2, <1>7 DEF BadToken, NoTables
<1>8. CASE Mounted
  BY <1>8 DEF Mounted, ListInv, TypeOK
<1>9. CASE Attempt
  <2>1. try' \in 0 .. max_replica
    BY <1>0, <1>9 DEF Attempt, TypeOK
  <2> QED BY <1>9, <2>1 DEF Attempt, ListInv, TypeOK
<1>10. CASE NextReader
  BY <1>0, <1>10 DEF NextReader, ListInv, TypeOK
<1>11. CASE UNCHANGED vars
  BY <1>11 DEF vars, ListInv, TypeOK
<1> QED
  BY <1>1, <1>r, <1>d, <1>2, <1>3, <1>4, <1>5, <1>c, <1>t, <1>6, <1>7, <1>8, <1>9, <1>10, <1>11
  DEF Next, Mounting

(* The state of do_mount keeps its types: no index leaves the list, no size *)
(* its word (conf.c:80-195).                                               *)
THEOREM MountType == Spec => []TypeOK
<1>1. ListInv => TypeOK
  BY DEF ListInv
<1> QED BY <1>1, InitListInv, ListStep, PTL DEF Spec

-----------------------------------------------------------------------------
(***************************************************************************)
(* The size of the table of descriptors: the loop keeps a power of two that *)
(* is at most twice tmpfd, and ends with one between half of it and it.    *)
(***************************************************************************)

(* What is left of the limit, wrapped around below 6.                      *)
Left == (hard + Word - 6) % Word

SizeInv ==
  /\ phase \in {"count", "limit", "divide"} => fd_buf_size = 1
  /\ phase = "divide" => tmpfd = hard
  /\ phase \in {"size", "alloc", "clear", "split", "mounted"} => tmpfd = Left \div max_replica
  /\ phase = "size" => \E n \in 0 .. Width - 1 :
       fd_buf_size = PowerOf2[n] /\ (n = 0 \/ fd_buf_size <= 2 * tmpfd)
  /\ phase \in {"alloc", "clear", "split", "mounted"} =>
       fd_buf_size <= tmpfd /\ (tmpfd = 0 \/ tmpfd < 2 * fd_buf_size)
  /\ phase \in {"clear", "split", "mounted"} => fd_buf_size <= Memory
  /\ phase = "clear" => i <= fd_buf_size

LEMMA SizeStep == ListInv /\ SizeInv /\ [Next]_vars => SizeInv'
<1> SUFFICES ASSUME ListInv, SizeInv, [Next]_vars PROVE SizeInv'
  OBVIOUS
<1> USE DEF input, sizes
<1>0. /\ Word \in Nat /\ Word >= 8 /\ Width \in Nat /\ Width >= 3 /\ Left \in 0 .. Word - 1
      /\ tmpfd \in Nat /\ fd_buf_size \in Nat /\ Len(fields) \in Nat /\ Len(fields) >= 2
  BY WordFacts, MountAssumption DEF ListInv, TypeOK, Left
<1>1. CASE Count \/ Raise
  BY <1>1 DEF Count, Raise, SizeInv
<1>d. CASE Divide
  <2>1. fd_buf_size' = PowerOf2[0] /\ 0 \in 0 .. Width - 1
    BY <1>0, <1>d, PowerStep DEF Divide, SizeInv
  <2>2. tmpfd' = Left' \div max_replica' /\ phase' = "size"
    BY <1>d DEF Divide, Left, SizeInv
  <2> QED BY <2>1, <2>2 DEF SizeInv
<1>2. CASE Grow
  <2>1. PICK n \in 0 .. Width - 1 : fd_buf_size = PowerOf2[n]
    BY <1>2 DEF Grow, SizeInv
  <2>2. 2 * fd_buf_size <= 2 * tmpfd /\ 2 * tmpfd <= Left
    <3>1. tmpfd = Left \div Len(fields)
      BY <1>2 DEF Grow, SizeInv, ListInv
    <3>2. tmpfd * Len(fields) <= Left
      BY <1>0, <3>1, Division
    <3>3. 2 * tmpfd <= Len(fields) * tmpfd
      BY <1>0, Products
    <3> QED BY <1>0, <1>2, <3>2, <3>3, SMT DEF Grow
  <2>3. fd_buf_size' = 2 * fd_buf_size
    BY <1>0, <1>2, <2>2 DEF Grow
  <2>4. fd_buf_size' = PowerOf2[n + 1] /\ n + 1 \in 0 .. Width - 1
    <3>1. fd_buf_size' = PowerOf2[n + 1]
      BY <1>0, <2>1, <2>3, PowerStep
    <3>2. n + 1 # Width
      BY <1>0, <2>2, <2>3, <3>1 DEF Word
    <3> QED BY <1>0, <3>1, <3>2
  <2>5. /\ phase = "size" /\ phase' = "size" /\ tmpfd' = tmpfd
        /\ max_replica' = max_replica /\ Left' = Left
    BY <1>2 DEF Grow, Left
  <2> QED BY <2>2, <2>3, <2>4, <2>5 DEF SizeInv
<1>3. CASE Halve
  <2>1. PICK n \in 0 .. Width - 1 :
          fd_buf_size = PowerOf2[n] /\ (n = 0 \/ fd_buf_size <= 2 * tmpfd)
    BY <1>3 DEF Halve, SizeInv
  <2>2. /\ phase = "size" /\ phase' = "alloc" /\ tmpfd' = tmpfd
        /\ max_replica' = max_replica /\ Left' = Left
        /\ fd_buf_size > tmpfd /\ fd_buf_size' = fd_buf_size \div 2
    BY <1>3 DEF Halve, Left
  <2>3. fd_buf_size' <= tmpfd' /\ (tmpfd' = 0 \/ tmpfd' < 2 * fd_buf_size')
    <3>1. CASE n = 0
      <4>1. fd_buf_size = 1 /\ tmpfd = 0 /\ fd_buf_size' = 0
        BY <1>0, <2>1, <2>2, <3>1, PowerStep
      <4> QED BY <2>2, <4>1
    <3>2. CASE n # 0
      <4>0. n - 1 \in Nat /\ n = (n - 1) + 1
        BY <1>0, <3>2
      <4>1. n - 1 \in Nat /\ fd_buf_size = 2 * PowerOf2[n - 1] /\ PowerOf2[n - 1] \in Nat
        BY <2>1, <4>0, PowerStep, PowerType
      <4>2. fd_buf_size' = PowerOf2[n - 1]
        BY <1>0, <2>2, <4>1
      <4> QED BY <1>0, <2>1, <2>2, <3>2, <4>1, <4>2
    <3> QED BY <3>1, <3>2
  <2> QED BY <2>2, <2>3 DEF SizeInv
<1>4. ASSUME \/ phase' = phase /\ phase # "clear"
             \/ phase' \in {"exited", "crashed"}
             \/ phase = "clear" /\ phase' = "split"
             \/ phase = "split" /\ phase' = "mounted",
             UNCHANGED <<sizes, hard>>
      PROVE  SizeInv'
  BY <1>4 DEF SizeInv, Left
<1>a. CASE Alloc
  <2>1. /\ phase = "alloc" /\ phase' = "clear" /\ fd_buf_size <= Memory /\ i' = 0
        /\ tmpfd' = tmpfd /\ fd_buf_size' = fd_buf_size /\ max_replica' = max_replica
        /\ Left' = Left
    BY <1>a DEF Alloc, ListInv, split, Left
  <2> QED BY <1>0, <2>1 DEF SizeInv
<1>c. CASE Clear
  <2>1. IntWord \in Nat /\ i \in 0 .. IntWord - 1
    BY PowerType, MountAssumption DEF ListInv, TypeOK, IntWord
  <2>2. i' <= i + 1 /\ i + 1 <= fd_buf_size
    BY <1>0, <1>c, <2>1 DEF Clear
  <2>3. /\ phase = "clear" /\ phase' = "clear"
        /\ tmpfd' = tmpfd /\ fd_buf_size' = fd_buf_size /\ max_replica' = max_replica
        /\ Left' = Left
    BY <1>c DEF Clear, Left
  <2>4. i' <= fd_buf_size
    BY <1>0, <1>c, <2>1, <2>2 DEF Clear
  <2> QED BY <2>3, <2>4 DEF SizeInv
<1>5. CASE Tables \/ NoTables \/ BadToken
  <2>1. CASE Tables
    <3>1. /\ phase = "clear" /\ phase' = "split" /\ tmpfd' = tmpfd
          /\ fd_buf_size' = fd_buf_size /\ max_replica' = max_replica /\ Left' = Left
      BY <2>1 DEF Tables, Cleared, Left
    <3> QED BY <3>1 DEF SizeInv
  <2>2. CASE NoTables \/ BadToken
    BY <1>4, <2>2 DEF NoTables, BadToken, Exit
  <2> QED BY <1>5, <2>1, <2>2
<1>8. CASE SkipEmpty \/ Token \/ Mounted \/ Attempt \/ NextReader
  BY <1>4, <1>8 DEF SkipEmpty, Token, Mounted, Attempt, NextReader
<1>6. ASSUME NEW from, Exit(from) PROVE SizeInv'
  BY <1>4, <1>6 DEF Exit
<1>7. CASE UNCHANGED vars
  BY <1>7 DEF vars, SizeInv, Left
<1> QED BY <1>1, <1>d, <1>2, <1>3, <1>a, <1>c, <1>5, <1>6, <1>7, <1>8
       DEF Next, Mounting

(* A table and the limit it was made for: of a limit below six the         *)
(* subtraction leaves so much that no memory holds half of it.             *)
LEMMA TableAndLimit ==
  ASSUME NEW slots \in 0 .. Memory, NEW n \in 1 .. MaxFields, NEW limit \in 0 .. Word - 1,
         NEW each \in Nat, each = ((limit + Word - 6) % Word) \div n,
         slots <= each, each = 0 \/ each < 2 * slots
  PROVE  /\ slots * n + 6 <= limit
         /\ \A files \in 0 .. limit : 2 * (files * n) + 6 <= limit => files <= slots
<1> DEFINE left == (limit + Word - 6) % Word
<1>1. /\ Word \in Nat /\ Word >= 8 /\ Memory \in Nat /\ MaxFields \in Nat /\ n \in Nat /\ n > 0
      /\ 2 * (Memory * MaxFields) < Word - 6 /\ slots \in Nat /\ limit \in Nat
  BY WordFacts, MountAssumption
<1>2. left \in Nat /\ (limit >= 6 => left = limit - 6) /\ (limit < 6 => left >= Word - 6)
  BY <1>1
<1>3. each = left \div n
  OBVIOUS
<1> HIDE DEF left
<1>4. each * n <= left /\ left < each * n + n
  BY <1>1, <1>2, <1>3, Division
<1>5. slots * n <= each * n
  BY <1>1, Products
<1>6. slots * n \in Nat /\ each * n \in Nat
  BY <1>1, SMT
<1>7. limit >= 6
  <2> SUFFICES ASSUME limit < 6 PROVE FALSE
    BY <1>1
  <2>1. slots * n <= Memory * MaxFields
    <3>1. slots * n <= Memory * n
      BY <1>1, Products
    <3>2. n * Memory <= MaxFields * Memory
      BY <1>1, Products
    <3> QED BY <1>1, <3>1, <3>2, SMT
  <2>2. each * n + n <= 2 * (slots * n) \/ each = 0
    <3>1. each # 0 => (each + 1) * n <= (2 * slots) * n
      BY <1>1, Products
    <3> QED BY <1>1, <3>1, SMT
  <2>3. 2 * (slots * n) < Word - 6
    BY <1>1, <1>6, <2>1, SMT
  <2>4. each # 0
    <3>1. n < Word - 6
      <4>1. 1 <= Memory
        BY MountAssumption
      <4>2. 1 * MaxFields <= Memory * MaxFields
        BY <1>1, <4>1, Products
      <4> QED BY <1>1, <4>2, SMT
    <3> QED BY <1>1, <1>2, <1>4, <3>1
  <2> QED BY <1>1, <1>2, <1>4, <1>6, <2>2, <2>3, <2>4
<1>8. ASSUME NEW files \in 0 .. limit, 2 * (files * n) + 6 <= limit, files > slots PROVE FALSE
  <2>1. (each + 1) * n <= (2 * files) * n
    <3>1. each + 1 <= 2 * files
      BY <1>1, <1>8
    <3> QED BY <1>1, <3>1, Products
  <2>2. (each + 1) * n = each * n + n /\ (2 * files) * n = 2 * (files * n)
    BY <1>1, SMT
  <2>3. files * n \in Nat
    BY <1>1, SMT
  <2> QED BY <1>1, <1>2, <1>4, <1>6, <1>7, <1>8, <2>1, <2>2, <2>3
<1> QED BY <1>1, <1>2, <1>4, <1>5, <1>6, <1>7, <1>8

(* What do_mount makes of any limit (conf.c:104-135), if it mounts at all:  *)
(* a table whose slots all fit in the limit, with six descriptors to spare, *)
(* and with no fewer slots than the formula of HOWTO.html promises.        *)
THEOREM TableFitsLimit == Spec => []TableWithinLimit
<1>1. Init => SizeInv
  BY DEF Init, SizeInv
<1>2. ListInv /\ SizeInv => TableWithinLimit
  <2> SUFFICES ASSUME ListInv, SizeInv, phase = "mounted"
               PROVE  /\ fd_buf_size * max_replica + 6 <= hard
                      /\ \A files \in 0 .. hard :
                           2 * (files * max_replica) + 6 <= hard => files <= fd_buf_size
    BY DEF TableWithinLimit
  <2>1. /\ hard \in 0 .. Word - 1 /\ max_replica \in 1 .. MaxFields
        /\ tmpfd \in Nat /\ fd_buf_size \in Nat
    BY WordFacts DEF ListInv, TypeOK
  <2>2. /\ tmpfd = ((hard + Word - 6) % Word) \div max_replica
        /\ fd_buf_size <= Memory /\ fd_buf_size <= tmpfd
        /\ tmpfd = 0 \/ tmpfd < 2 * fd_buf_size
    BY DEF SizeInv, Left
  <2>3. fd_buf_size \in 0 .. Memory
    BY <2>1, <2>2, MountAssumption
  <2> QED BY <2>1, <2>2, <2>3, TableAndLimit
<1> QED BY <1>1, <1>2, InitListInv, ListStep, SizeStep, PTL DEF Spec

(* A turn of the loop shifts the bit that is set, and not out of the word.  *)
LEMMA GrowGrows ==
  ASSUME ListInv, SizeInv, Grow
  PROVE  fd_buf_size' = 2 * fd_buf_size /\ fd_buf_size > 0 /\ 2 * fd_buf_size < Word
<1>1. /\ Word \in Nat /\ Word >= 8 /\ Left \in 0 .. Word - 1
      /\ tmpfd \in Nat /\ Len(fields) \in Nat /\ Len(fields) >= 2
  BY WordFacts, MountAssumption DEF ListInv, TypeOK, Left
<1>2. PICK n \in 0 .. Width - 1 : fd_buf_size = PowerOf2[n]
  BY DEF Grow, SizeInv
<1>3. fd_buf_size \in Nat \ {0} /\ fd_buf_size <= tmpfd
  BY <1>2, PowerType, MountAssumption DEF Grow
<1>4. tmpfd = Left \div Len(fields)
  BY DEF Grow, SizeInv, ListInv
<1>5. tmpfd * Len(fields) <= Left /\ 2 * tmpfd <= Len(fields) * tmpfd
  BY <1>1, <1>4, Division, Products
<1> HIDE DEF Left
<1>6. 2 * tmpfd <= Left
  BY <1>1, <1>5, SMT
<1>7. 2 * fd_buf_size < Word
  BY <1>1, <1>3, <1>6
<1> QED BY <1>1, <1>3, <1>7 DEF Grow

(* do_mount makes no more steps than the word has values, twice, and the   *)
(* list fields (conf.c:80-195), unless its table has too many slots for    *)
(* the counter of the loop that clears it (conf.c:133).                    *)
THEOREM MountEnds == Spec => MountIsBounded
<1>1. Init => SizeInv
  BY DEF Init, SizeInv
<1>2. ASSUME ListInv, SizeInv, ListInv', Mounting, ~Endless
      PROVE  Ahead \in Nat /\ Ahead' \in 0 .. Ahead - 1
  <2>0. /\ Word \in Nat /\ fd_buf_size \in 0 .. Word - 1 /\ fd_buf_size' \in 0 .. Word - 1
        /\ Len(fields) \in Nat /\ Len(rest) \in Nat /\ Len(rest') \in Nat
        /\ rest \in Seq(Fields) /\ i \in Nat /\ i' \in Nat
    <3>1. Word \in Nat /\ fd_buf_size \in 0 .. Word - 1 /\ fd_buf_size' \in 0 .. Word - 1
      BY <1>2, WordFacts DEF ListInv, TypeOK
    <3>2. fields \in Seq(Fields) /\ rest \in Seq(Fields) /\ rest' \in Seq(Fields)
      BY <1>2 DEF ListInv
    <3>3. i \in Nat /\ i' \in Nat
      <4>1. IntWord \in Nat
        BY PowerType, MountAssumption DEF IntWord
      <4> QED BY <1>2, <4>1 DEF ListInv, TypeOK
    <3> QED BY <3>1, <3>2, <3>3
  <2>v. /\ phase = "count" => Ahead = 2 * Word + Len(fields) + 6
        /\ phase = "limit" => Ahead = 2 * Word + Len(fields) + 5
        /\ phase = "divide" => Ahead = 2 * Word + Len(fields) + 4
        /\ phase = "size" => Ahead = (2 * Word - fd_buf_size) + Len(fields) + 3
        /\ phase = "alloc" => Ahead = fd_buf_size + Len(fields) + 3
        /\ phase = "clear" => Ahead = (fd_buf_size - i) + Len(fields) + 2
        /\ phase = "split" => Ahead = Len(rest) + 1
    BY Zenon DEF Ahead
  <2>w. /\ phase' = "count" => Ahead' = 2 * Word + Len(fields') + 6
        /\ phase' = "limit" => Ahead' = 2 * Word + Len(fields') + 5
        /\ phase' = "divide" => Ahead' = 2 * Word + Len(fields') + 4
        /\ phase' = "size" => Ahead' = (2 * Word - fd_buf_size') + Len(fields') + 3
        /\ phase' = "alloc" => Ahead' = fd_buf_size' + Len(fields') + 3
        /\ phase' = "clear" => Ahead' = (fd_buf_size' - i') + Len(fields') + 2
        /\ phase' = "split" => Ahead' = Len(rest') + 1
        /\ phase' \in {"exited", "mounted"} => Ahead' = 0
    BY Zenon DEF Ahead
  <2>1. CASE Count \/ Raise
    <3>1. /\ fields' = fields
          /\ \/ phase = "count" /\ phase' = "limit"
             \/ phase = "limit" /\ phase' = "divide"
      BY <2>1 DEF Count, Raise, input
    <3> QED BY <2>0, <2>v, <2>w, <3>1
  <2>d. CASE Divide
    <3>1. phase = "divide" /\ phase' = "size" /\ fields' = fields /\ fd_buf_size' = fd_buf_size
      BY <2>d DEF Divide, input
    <3>2. fd_buf_size = 1
      BY <1>2, <3>1 DEF SizeInv
    <3> QED BY <2>0, <2>v, <2>w, <3>1, <3>2
  <2>2. ASSUME NEW from \in {"limit", "alloc", "split"}, Exit(from)
        PROVE  Ahead \in Nat /\ Ahead' \in 0 .. Ahead - 1
    <3>1. phase = from /\ Ahead' = 0
      BY <2>2, <2>w DEF Exit
    <3>2. Ahead \in Nat \ {0}
      BY <2>0, <2>v, <2>w, <3>1
    <3> QED BY <3>1, <3>2
  <2>3. CASE Grow
    <3>1. fd_buf_size' > fd_buf_size
      BY <1>2, <2>0, <2>3, GrowGrows
    <3>2. phase = "size" /\ phase' = "size" /\ fields' = fields
      BY <2>3 DEF Grow, input
    <3> QED BY <2>0, <2>v, <2>w, <3>1, <3>2
  <2>4. CASE Halve
    BY <2>0, <2>v, <2>w, <2>4 DEF Halve, input
  <2>5. CASE Alloc
    BY <1>2, <2>0, <2>v, <2>w, <2>5 DEF Alloc, input, sizes, split, ListInv
  <2>c. CASE Clear
    <3>1. /\ phase = "clear" /\ phase' = "clear" /\ fields' = fields
          /\ fd_buf_size' = fd_buf_size /\ i < fd_buf_size
      BY <2>c DEF Clear, input, sizes
    <3>2. fd_buf_size < IntWord /\ IntWord \in Nat
      BY <1>2, <2>0, <3>1, PowerType, MountAssumption DEF Endless, IntWord
    <3>3. i' = i + 1
      BY <2>0, <2>v, <2>w, <2>c, <3>1, <3>2 DEF Clear
    <3> QED BY <2>0, <2>v, <2>w, <3>1, <3>3
  <2>t. CASE Tables \/ NoTables
    <3>1. /\ phase = "clear" /\ phase' \in {"split", "exited"} /\ Len(rest') = Len(fields)
          /\ rest = fields
      BY <1>2, <2>t DEF Tables, NoTables, Cleared, Exit, split, ListInv
    <3>2. Ahead \in Nat /\ Ahead >= Len(fields) + 2
      <4>1. i <= fd_buf_size
        BY <1>2, <3>1 DEF SizeInv
      <4> QED BY <2>0, <2>v, <2>w, <3>1, <4>1
    <3> QED BY <2>0, <2>v, <2>w, <3>1, <3>2
  <2>6. CASE SkipEmpty \/ Token
    <3>1. Len(rest') < Len(rest)
      BY <2>0, <2>v, <2>w, <2>6 DEF SkipEmpty, Token
    <3> QED BY <2>0, <2>v, <2>w, <2>6, <3>1 DEF SkipEmpty, Token
  <2>7. CASE Mounted
    BY <2>0, <2>v, <2>w, <2>7 DEF Mounted
  <2> QED BY <1>2, <2>1, <2>d, <2>2, <2>3, <2>4, <2>5, <2>c, <2>t, <2>6, <2>7
          DEF Mounting, BadToken
<1>3. ListInv /\ SizeInv /\ ListInv' /\ [Next]_vars
        => [Mounting /\ ~Endless => Ahead \in Nat /\ Ahead' \in 0 .. Ahead - 1]_vars
  BY <1>2
<1> QED BY <1>1, <1>3, InitListInv, ListStep, SizeStep, PTL DEF Spec, MountIsBounded

-----------------------------------------------------------------------------
(***************************************************************************)
(* The round-robin tables: strtok goes through the list in order, and each  *)
(* index lands in the table of its priority.                               *)
(***************************************************************************)

(* The table holds the places before n of the fields of a kind, in order.   *)
Holds(table, kind, n) ==
  /\ \A j \in 1 .. Len(table) : table[j] \in 0 .. n - 1 /\ fields[table[j] + 1] = kind
  /\ \A j, k \in 1 .. Len(table) : j < k => table[j] < table[k]
  /\ \A r \in 0 .. n - 1 : fields[r + 1] = kind => Contains(table, r)

Listed ==
  /\ i + Len(rest) = Len(fields)
  /\ \A n \in 1 .. Len(rest) : rest[n] = fields[i + n]
  /\ Len(high) + Len(low) = i
  /\ Holds(high, "high", i) /\ Holds(low, "low", i)
  /\ \A r \in 0 .. i - 1 : fields[r + 1] \in {"high", "low"}

SplitInv ==
  /\ (Regular /\ phase \in {"split", "mounted"}) => Listed
  /\ RegularNeverCrashes

LEMMA InitSplitInv == Init => SplitInv
  BY DEF Init, SplitInv, RegularNeverCrashes

LEMMA TablesListed ==
  ASSUME ListInv, Tables
  PROVE  Listed' /\ phase' = "split"
<1>1. /\ fields' = fields /\ rest' = fields /\ high' = <<>> /\ low' = <<>> /\ i' = 0
      /\ phase' = "split" /\ Len(fields) \in Nat
  BY DEF Tables, Cleared, ListInv, input
<1>2. <<>> \in Seq(Nat) /\ Len(<<>>) = 0
  BY EmptySeq
<1> QED BY <1>1, <1>2 DEF Listed, Holds

(* A field enters its table, and no other.                                 *)
LEMMA EntersTable ==
  ASSUME NEW t \in Seq(Nat), NEW n \in Nat, NEW kind, Holds(t, kind, n), fields[n + 1] = kind
  PROVE  Holds(Append(t, n), kind, n + 1) /\ Len(Append(t, n)) = Len(t) + 1
<1> DEFINE u == Append(t, n)
<1>1. /\ Len(t) \in Nat /\ Len(u) = Len(t) + 1 /\ u[Len(t) + 1] = n
      /\ \A j \in 1 .. Len(t) : u[j] = t[j]
  BY LenProperties, AppendProperties
<1> HIDE DEF u
<1>2. ASSUME NEW j \in 1 .. Len(u)
      PROVE  u[j] \in 0 .. n /\ fields[u[j] + 1] = kind
  <2>1. CASE j = Len(t) + 1
    BY <1>1, <2>1
  <2>2. CASE j # Len(t) + 1
    <3>1. j \in 1 .. Len(t)
      BY <1>1, <2>2
    <3> QED BY <1>1, <3>1 DEF Holds
  <2> QED BY <2>1, <2>2
<1>3. ASSUME NEW j \in 1 .. Len(u), NEW k \in 1 .. Len(u), j < k PROVE u[j] < u[k]
  <2>1. j \in 1 .. Len(t) /\ u[j] = t[j] /\ t[j] \in 0 .. n - 1
    BY <1>1, <1>3 DEF Holds
  <2>2. CASE k = Len(t) + 1
    BY <1>1, <2>1, <2>2
  <2>3. CASE k # Len(t) + 1
    <3>1. k \in 1 .. Len(t) /\ u[k] = t[k]
      BY <1>1, <2>3
    <3> QED BY <1>3, <2>1, <3>1 DEF Holds
  <2> QED BY <2>2, <2>3
<1>4. ASSUME NEW r \in 0 .. n, fields[r + 1] = kind PROVE Contains(u, r)
  <2>1. CASE r = n
    <3>1. Len(t) + 1 \in 1 .. Len(u)
      BY <1>1
    <3> QED BY <1>1, <2>1, <3>1 DEF Contains
  <2>2. CASE r # n
    <3>1. PICK j \in 1 .. Len(t) : t[j] = r
      BY <1>4, <2>2 DEF Holds, Contains
    <3>2. j \in 1 .. Len(u) /\ u[j] = r
      BY <1>1, <3>1
    <3> QED BY <3>2 DEF Contains
  <2> QED BY <2>1, <2>2
<1>5. Holds(u, kind, n + 1)
  <2>1. (n + 1) - 1 = n
    OBVIOUS
  <2> QED BY <1>2, <1>3, <1>4, <2>1 DEF Holds
<1> QED BY <1>1, <1>5 DEF u

LEMMA PassesTable ==
  ASSUME NEW t, NEW n \in Nat, NEW kind, Holds(t, kind, n), fields[n + 1] # kind
  PROVE  Holds(t, kind, n + 1)
<1>1. ASSUME NEW r \in 0 .. (n + 1) - 1, fields[r + 1] = kind PROVE r \in 0 .. n - 1
  BY <1>1
<1>2. 0 .. n - 1 \subseteq 0 .. (n + 1) - 1
  OBVIOUS
<1> QED BY <1>1, <1>2 DEF Holds

(* choose_replica on a list that is split: the tables have an entry for     *)
(* each attempt.                                                           *)
LEMMA HighFirst ==
  ASSUME ListInv, Listed, Regular, i = Len(fields)
  PROVE  Len(high) \in Nat \ {0} /\ Len(low) \in Nat /\ high # <<>>
<1>1. Len(high) \in Nat /\ Len(low) \in Nat /\ Len(fields) \in Nat /\ DOMAIN fields = 1 .. Len(fields)
  BY LenProperties DEF ListInv
<1>2. PICK f \in 1 .. Len(fields) : fields[f] = "high"
  BY DEF Regular, Contains
<1>3. f - 1 \in 0 .. i - 1 /\ (f - 1) + 1 = f
  BY <1>1, <1>2
<1>4. Contains(high, f - 1)
  BY <1>2, <1>3 DEF Listed, Holds
<1>5. Len(high) > 0
  BY <1>1, <1>4 DEF Contains
<1> QED BY <1>1, <1>5, EmptySeq

LEMMA NoDivision ==
  ASSUME ListInv, Listed, Regular, phase = "mounted", try < max_replica
  PROVE  ~DividesByZero
<1>1. /\ i = Len(fields) /\ Len(high) + Len(low) = max_replica /\ try \in Nat
  BY EmptySeq, LenProperties DEF ListInv, Listed, TypeOK
<1>2. Len(high) \in Nat \ {0} /\ Len(low) \in Nat /\ high # <<>>
  BY <1>1, HighFirst
<1>3. low = <<>> => try < Len(high)
  BY <1>1, <1>2, EmptySeq
<1> QED BY <1>1, <1>2, <1>3 DEF DividesByZero

(* One token of a regular list.                                            *)
LEMMA TokenListed ==
  ASSUME ListInv, Listed, Regular, SkipEmpty \/ Token
  PROVE  Listed' /\ phase' = "split"
<1>1. /\ rest # <<>> /\ Len(rest) \in Nat \ {0} /\ Head(rest) = fields[i + 1]
      /\ Len(Tail(rest)) = Len(rest) - 1 /\ Len(fields) \in Nat
      /\ \A n \in 1 .. Len(Tail(rest)) : Tail(rest)[n] = rest[n + 1]
  <2>1. rest # <<>> /\ Len(rest) \in Nat \ {0} /\ Len(fields) \in Nat
    BY EmptySeq, LenProperties DEF SkipEmpty, Token, ListInv
  <2>2. Head(rest) = rest[1] /\ 1 \in 1 .. Len(rest)
    BY <2>1 DEF ListInv
  <2> QED BY <2>1, <2>2, HeadTailProperties DEF ListInv, Listed
<1>2. /\ i \in Nat /\ i + 1 \in 1 .. Len(fields) /\ high \in Seq(Nat) /\ low \in Seq(Nat)
      /\ Len(high) \in Nat /\ Len(low) \in Nat
  BY <1>1, LenProperties DEF ListInv, TypeOK, Listed
<1>3. Head(rest) # "empty"
  <2>1. DOMAIN fields = 1 .. Len(fields)
    BY LenProperties DEF ListInv
  <2> QED BY <1>1, <1>2, <2>1 DEF Regular
<1>4. /\ i' = i + 1 /\ rest' = Tail(rest) /\ phase' = "split" /\ fields' = fields
      /\ \/ Head(rest) = "low" /\ low' = Append(low, i) /\ high' = high
         \/ Head(rest) = "high" /\ high' = Append(high, i) /\ low' = low
  BY <1>3 DEF SkipEmpty, Token, input
<1>5. Holds(high', "high", i + 1) /\ Holds(low', "low", i + 1) /\ Len(high') + Len(low') = i + 1
  <2>0. Len(high) + Len(low) = i /\ Holds(high, "high", i) /\ Holds(low, "low", i)
    BY DEF Listed
  <2>1. CASE Head(rest) = "low" /\ low' = Append(low, i) /\ high' = high
    <3>1. Holds(Append(low, i), "low", i + 1) /\ Len(Append(low, i)) = Len(low) + 1
      BY <1>1, <1>2, <2>0, <2>1, EntersTable
    <3>2. Holds(high, "high", i + 1)
      BY <1>1, <1>2, <2>0, <2>1, PassesTable
    <3>3. Len(high') = Len(high) /\ Len(low') = Len(low) + 1
      BY <2>1, <3>1
    <3>4. Len(high') + Len(low') = i + 1
      BY <1>2, <2>0, <3>3
    <3> QED BY <2>1, <3>1, <3>2, <3>4
  <2>2. CASE Head(rest) = "high" /\ high' = Append(high, i) /\ low' = low
    <3>1. Holds(Append(high, i), "high", i + 1) /\ Len(Append(high, i)) = Len(high) + 1
      BY <1>1, <1>2, <2>0, <2>2, EntersTable
    <3>2. Holds(low, "low", i + 1)
      BY <1>1, <1>2, <2>0, <2>2, PassesTable
    <3>3. Len(low') = Len(low) /\ Len(high') = Len(high) + 1
      BY <2>2, <3>1
    <3>4. Len(high') + Len(low') = i + 1
      BY <1>2, <2>0, <3>3
    <3> QED BY <2>2, <3>1, <3>2, <3>4
  <2> QED BY <1>4, <2>1, <2>2
<1>6. i' + Len(rest') = Len(fields)
  BY <1>1, <1>2, <1>4 DEF Listed
<1>7. ASSUME NEW n \in 1 .. Len(rest') PROVE rest'[n] = fields[i' + n]
  <2>1. n + 1 \in 1 .. Len(rest) /\ i' + n = i + (n + 1)
    BY <1>1, <1>2, <1>4
  <2> QED BY <1>1, <1>4, <2>1 DEF Listed
<1>8. ASSUME NEW r \in 0 .. i' - 1 PROVE fields[r + 1] \in {"high", "low"}
  <2>1. CASE r = i
    BY <1>1, <1>4, <2>1
  <2>2. CASE r # i
    <3>1. r \in 0 .. i - 1
      BY <1>2, <1>4, <2>2
    <3> QED BY <3>1 DEF Listed
  <2> QED BY <2>1, <2>2
<1>9. Holds(high, "high", i)' /\ Holds(low, "low", i)'
  BY <1>4, <1>5 DEF Holds
<1> QED BY <1>4, <1>5, <1>6, <1>7, <1>8, <1>9 DEF Listed

LEMMA SplitStep == ListInv /\ SplitInv /\ [Next]_vars => SplitInv'
<1> SUFFICES ASSUME ListInv, SplitInv, [Next]_vars PROVE SplitInv'
  OBVIOUS
<1> USE DEF input, sizes, split
<1>u. CASE UNCHANGED vars
  BY <1>u DEF vars, SplitInv, Listed, Holds, Regular, RegularNeverCrashes
<1>n. CASE Next
  <2>1. fields' = fields /\ Regular' = Regular
    BY <1>n DEF Next, Mounting, Count, Exit, Raise, Divide, Grow, Halve, Alloc, Clear, Tables,
                NoTables, SkipEmpty, Token, BadToken, Mounted, Attempt, NextReader, Regular
  <2>2. ASSUME Regular
        PROVE  phase' # "crashed" /\ (phase' \in {"split", "mounted"} => Listed')
    <3>1. phase # "crashed" /\ (phase \in {"split", "mounted"} => Listed)
      BY <2>2 DEF SplitInv, RegularNeverCrashes
    <3>2. CASE \/ Count \/ Raise \/ Divide \/ Grow \/ Halve \/ Alloc \/ Clear
      BY <3>1, <3>2 DEF Count, Raise, Divide, Grow, Halve, Alloc, Clear
    <3>t. CASE Tables
      <4>1. Listed' /\ phase' = "split"
        BY <3>t, TablesListed
      <4> QED BY <4>1
    <3>3. CASE SkipEmpty \/ Token
      <4>1. Listed' /\ phase' = "split"
        BY <2>2, <3>1, <3>3, TokenListed DEF SkipEmpty, Token
      <4> QED BY <4>1
    <3>m. CASE Mounted \/ NextReader
      BY <3>1, <3>m DEF Mounted, NextReader, Listed, Holds
    <3>4. CASE Attempt
      <4>1. ~DividesByZero
        BY <2>2, <3>1, <3>4, NoDivision DEF Attempt
      <4> QED BY <3>1, <3>4, <4>1 DEF Attempt, Listed, Holds
    <3> QED
      BY <1>n, <3>2, <3>t, <3>3, <3>m, <3>4 DEF Next, Mounting, Exit, BadToken, NoTables
  <2> QED BY <2>1, <2>2 DEF SplitInv, RegularNeverCrashes
<1> QED BY <1>u, <1>n

(* A table that holds its fields is one choose_replica can go round.        *)
LEMMA EntriesList ==
  ASSUME NEW t \in Seq(Nat), NEW kind, NEW n \in Nat, Holds(t, kind, n)
  PROVE  /\ Entries(t) \in [0 .. Len(t) - 1 -> 0 .. n - 1]
         /\ \A j, k \in 0 .. Len(t) - 1 : Entries(t)[j] = Entries(t)[k] => j = k
         /\ {Entries(t)[j] : j \in 0 .. Len(t) - 1} = {r \in 0 .. n - 1 : fields[r + 1] = kind}
<1>0. Len(t) \in Nat
  BY LenProperties
<1>1. ASSUME NEW j \in 0 .. Len(t) - 1
      PROVE  /\ j + 1 \in 1 .. Len(t) /\ Entries(t)[j] = t[j + 1]
             /\ Entries(t)[j] \in 0 .. n - 1 /\ fields[Entries(t)[j] + 1] = kind
  <2>1. j + 1 \in 1 .. Len(t) /\ Entries(t)[j] = t[j + 1]
    BY <1>0 DEF Entries
  <2> QED BY <2>1 DEF Holds
<1>2. ASSUME NEW j \in 0 .. Len(t) - 1, NEW k \in 0 .. Len(t) - 1,
             Entries(t)[j] = Entries(t)[k]
      PROVE  j = k
  <2>1. t[j + 1] = t[k + 1] /\ t[j + 1] \in Nat /\ j + 1 \in 1 .. Len(t) /\ k + 1 \in 1 .. Len(t)
    BY <1>0, <1>1, <1>2
  <2>2. ~(j + 1 < k + 1) /\ ~(k + 1 < j + 1)
    BY <2>1 DEF Holds
  <2> QED BY <2>2
<1>3. ASSUME NEW r \in 0 .. n - 1, fields[r + 1] = kind
      PROVE  \E j \in 0 .. Len(t) - 1 : r = Entries(t)[j]
  <2>1. PICK j \in 1 .. Len(t) : t[j] = r
    BY <1>3 DEF Holds, Contains
  <2>2. j - 1 \in 0 .. Len(t) - 1 /\ Entries(t)[j - 1] = r
    BY <1>0, <2>1 DEF Entries
  <2> QED BY <2>2
<1>4. Entries(t) \in [0 .. Len(t) - 1 -> 0 .. n - 1]
  BY <1>1 DEF Entries
<1> QED BY <1>1, <1>2, <1>3, <1>4

(* do_mount (conf.c:165-190) leaves each path of a regular list in one of   *)
(* the two round-robin tables, once, under its place in the list: the       *)
(* assumption of Replicas, from which the proofs about requests start.      *)
THEOREM TablesAreRight == Spec => []TablesListReplicas
<1>1. ListInv /\ SplitInv => TablesListReplicas
  <2> SUFFICES ASSUME ListInv, SplitInv, phase = "mounted", Regular
               PROVE  /\ R!RightTables
                      /\ R!HighReplicas = {r \in R!Replicas : fields[r + 1] = "high"}
    BY DEF TablesListReplicas
  <2>1. /\ Listed /\ i = max_replica /\ i \in Nat /\ i = Len(fields)
        /\ high \in Seq(Nat) /\ low \in Seq(Nat)
    BY EmptySeq DEF SplitInv, ListInv, Listed, TypeOK
  <2>2. Len(high) \in Nat \ {0} /\ Len(low) \in Nat /\ Len(high) + Len(low) = max_replica
    BY <2>1, HighFirst DEF Listed
  <2>3. R!Replicas = 0 .. i - 1
    BY <2>1 DEF R!Replicas
  <2>4. /\ R!Lists(Entries(high), Len(high))
        /\ R!HighReplicas = {r \in R!Replicas : fields[r + 1] = "high"}
    BY <2>1, <2>3, EntriesList DEF Listed, R!Lists, R!HighReplicas
  <2>5. /\ R!Lists(Entries(low), Len(low))
        /\ R!LowReplicas = {r \in R!Replicas : fields[r + 1] = "low"}
    BY <2>1, <2>3, EntriesList DEF Listed, R!Lists, R!LowReplicas
  <2>6. \A r \in R!Replicas : fields[r + 1] \in {"high", "low"}
    BY <2>1, <2>3 DEF Listed
  <2> QED BY <2>2, <2>4, <2>5, <2>6 DEF R!RightTables
<1> QED BY <1>1, InitListInv, InitSplitInv, ListStep, SplitStep, PTL DEF Spec

(* choose_replica (fs.c:159-187) never divides by zero on a mount of a      *)
(* regular list, however many attempts a request makes.                    *)
THEOREM RegularMountServes == Spec => []RegularNeverCrashes
<1>1. SplitInv => RegularNeverCrashes
  BY DEF SplitInv
<1> QED BY <1>1, InitListInv, InitSplitInv, ListStep, SplitStep, PTL DEF Spec

=============================================================================
