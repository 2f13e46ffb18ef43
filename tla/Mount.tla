-------------------------------- MODULE Mount --------------------------------
(***************************************************************************)
(* do_mount of conf.c: from the replica list of the command line and the   *)
(* limit on descriptors to max_replica, the size of the descriptor table   *)
(* and the two round-robin tables; and the divisions choose_replica makes  *)
(* with them once requests come.                                           *)
(*                                                                         *)
(* The list is a sequence of fields, each a path of high priority, one     *)
(* with a colon, a path realpath cannot resolve, or nothing at all.  main  *)
(* takes the argument as replica list because it has an `=', so there are  *)
(* two fields or more.  Sizes are of Width bits (unsigned long), the loop   *)
(* counter of IntWidth (unsigned int).                                     *)
(*                                                                         *)
(* Any call may fail: getrlimit, setrlimit, calloc, realpath.               *)
(***************************************************************************)
EXTENDS Naturals, Sequences, SequencesExt

CONSTANTS
  Width,      \* bits of an unsigned long
  IntWidth,   \* bits of an unsigned int
  Limits,     \* values of RLIMIT_NOFILE, soft or hard
  Memory,     \* the most pointers calloc can give
  MaxFields   \* bound on the fields of the list

PowerOf2[n \in Nat] == IF n = 0 THEN 1 ELSE 2 * PowerOf2[n - 1]

(* An unsigned long is reduced modulo Word, an unsigned int modulo IntWord. *)
Word == PowerOf2[Width]
IntWord == PowerOf2[IntWidth]

(* The command line is far shorter than 2^31 bytes, so the fields can be    *)
(* counted; and it is so short, and the memory a process can address so    *)
(* little, that both together stay below Word: an argument has at most     *)
(* 2^17 bytes, a process at most 2^47, 2^44 pointers.                      *)
ASSUME MountAssumption ==
  /\ Width \in Nat /\ Width >= 3 /\ IntWidth \in Nat
  /\ MaxFields \in Nat /\ MaxFields < IntWord
  /\ Memory \in Nat \ {0} /\ 2 * (Memory * MaxFields) < Word - 6
  /\ Limits \subseteq 0 .. Word - 1

Fields == {"high", "low", "missing", "empty"}

VARIABLES
  fields,         \* the list, from the command line
  soft, hard,     \* the limit in force, and the one it may be raised to
  phase,          \* where do_mount is; then "mounted", "exited" or "crashed"
  max_replica, tmpfd, fd_buf_size,
  rest,           \* the fields strtok has not reached
  i,              \* loop counter: of the table's slots, then of the tokens
  high, low,      \* round_robin_high and _low: as many as the counters say
  try             \* once mounted: the attempt number of a reader's loop

vars == <<fields, soft, hard, phase, max_replica, tmpfd, fd_buf_size, rest, i, high, low, try>>
input == <<fields, soft, hard>>
sizes == <<max_replica, tmpfd, fd_buf_size>>
split == <<rest, i, high, low>>

TypeOK ==
  /\ soft \in Limits /\ hard \in Limits /\ soft <= hard
  /\ phase \in {"count", "limit", "divide", "size", "alloc", "clear", "split",
                "mounted", "exited", "crashed"}
  /\ max_replica \in 0 .. MaxFields
  /\ tmpfd \in 0 .. Word - 1 /\ fd_buf_size \in 0 .. Word - 1
  /\ i \in 0 .. IntWord - 1 /\ (phase = "split" => i <= max_replica)
  /\ Len(rest) <= Len(fields)
  /\ high \in Seq(0 .. MaxFields) /\ low \in Seq(0 .. MaxFields)
  /\ try \in 0 .. max_replica

Init ==
  /\ fields \in UNION {[1 .. n -> Fields] : n \in 2 .. MaxFields}
  /\ soft \in Limits /\ hard \in Limits /\ soft <= hard
  /\ phase = "count"
  /\ max_replica = 0 /\ tmpfd = 0 /\ fd_buf_size = 1
  /\ rest = fields /\ i = 0 /\ high = <<>> /\ low = <<>> /\ try = 0

-----------------------------------------------------------------------------

(* Mutant of Count: the last field has no `=' after it.                    *)
CountOneLess ==
  /\ phase = "count"
  /\ max_replica' = Len(fields) - 1
  /\ phase' = "limit"
  /\ UNCHANGED <<input, tmpfd, fd_buf_size, split, try>>

(* The fields are counted by their `='.                                    *)
Count ==
  /\ phase = "count"
  /\ max_replica' = Len(fields)
  /\ phase' = "limit"
  /\ UNCHANGED <<input, tmpfd, fd_buf_size, split, try>>

(* A call fails: exit(errno).  At "limit", either getrlimit.                *)
Exit(from) ==
  /\ phase = from /\ phase' = "exited"
  /\ UNCHANGED <<input, sizes, split, try>>

(* A soft limit below the hard one is raised.  setrlimit may fail, and the  *)
(* limit stay as it was; rlp.rlim_cur has the hard one all the same.       *)
Raise ==
  /\ phase = "limit"
  /\ soft' \in {soft, hard}
  /\ tmpfd' = hard
  /\ phase' = "divide"
  /\ UNCHANGED <<fields, hard, max_replica, fd_buf_size, split, try>>

(* Mutant of Divide: nothing is reserved.                                  *)
DivideAll ==
  /\ phase = "divide"
  /\ tmpfd' = tmpfd \div max_replica
  /\ phase' = "size"
  /\ UNCHANGED <<input, max_replica, fd_buf_size, split, try>>

(* Six descriptors are set aside, and the rest divided among the replicas;  *)
(* the subtraction wraps around below 6.                                   *)
Divide ==
  /\ phase = "divide"
  /\ tmpfd' = ((tmpfd + Word - 6) % Word) \div max_replica
  /\ phase' = "size"
  /\ UNCHANGED <<input, max_replica, fd_buf_size, split, try>>

(* Mutant of Grow: the loop goes on for one doubling more.                 *)
GrowTooFar ==
  /\ phase = "size" /\ fd_buf_size <= 2 * tmpfd
  /\ fd_buf_size' = (fd_buf_size * 2) % Word
  /\ UNCHANGED <<input, phase, max_replica, tmpfd, split, try>>

(* One turn of `while (fd_buf_size <= tmpfd) fd_buf_size <<= 1'...          *)
Grow ==
  /\ phase = "size" /\ fd_buf_size <= tmpfd
  /\ fd_buf_size' = (fd_buf_size * 2) % Word
  /\ UNCHANGED <<input, phase, max_replica, tmpfd, split, try>>

(* ... and the shift back.                                                 *)
Halve ==
  /\ phase = "size" /\ fd_buf_size > tmpfd
  /\ fd_buf_size' = fd_buf_size \div 2
  /\ phase' = "alloc"
  /\ UNCHANGED <<input, max_replica, tmpfd, split, try>>

(* The table of open files, if there is memory for it...                   *)
Alloc ==
  /\ phase = "alloc" /\ fd_buf_size <= Memory /\ phase' = "clear"
  /\ UNCHANGED <<input, sizes, split, try>>

(* ... which is cleared slot by slot: the counter wraps around before it    *)
(* reaches a table of IntWord slots or more.                               *)
Clear ==
  /\ phase = "clear" /\ i < fd_buf_size
  /\ i' = (i + 1) % IntWord
  /\ UNCHANGED <<input, sizes, phase, rest, high, low, try>>

(* The replicas and the two round-robin tables are allocated, or not.       *)
Cleared == phase = "clear" /\ i >= fd_buf_size

Tables ==
  /\ Cleared /\ i' = 0 /\ phase' = "split"
  /\ UNCHANGED <<input, sizes, rest, high, low, try>>

NoTables == Cleared /\ Exit("clear")

(* strtok skips empty fields without counting them.                        *)
SkipEmpty ==
  /\ phase = "split" /\ rest # <<>> /\ Head(rest) = "empty"
  /\ rest' = Tail(rest)
  /\ UNCHANGED <<input, sizes, phase, i, high, low, try>>

(* Mutant of Token: a low-priority path is listed in both tables.          *)
TokenTwice ==
  /\ phase = "split" /\ rest # <<>> /\ Head(rest) \in {"high", "low"}
  /\ high' = Append(high, i)
  /\ low' = IF Head(rest) = "low" THEN Append(low, i) ELSE low
  /\ i' = i + 1
  /\ rest' = Tail(rest)
  /\ UNCHANGED <<input, sizes, phase, try>>

(* A path: it gets the next index, in the table of its priority.            *)
Token ==
  /\ phase = "split" /\ rest # <<>> /\ Head(rest) \in {"high", "low"}
  /\ IF Head(rest) = "low"
       THEN low' = Append(low, i) /\ UNCHANGED high
       ELSE high' = Append(high, i) /\ UNCHANGED low
  /\ i' = i + 1
  /\ rest' = Tail(rest)
  /\ UNCHANGED <<input, sizes, phase, try>>

(* realpath fails.                                                         *)
BadToken == rest # <<>> /\ Head(rest) = "missing" /\ Exit("split")

(* No token is left; fuse_main serves requests.                            *)
Mounted ==
  /\ phase = "split" /\ rest = <<>> /\ phase' = "mounted"
  /\ UNCHANGED <<input, sizes, split, try>>

(* Mutant of DividesByZero: the low turn moves one attempt early.           *)
DividesByZeroEarly ==
  \/ high = <<>> /\ try = 0
  \/ low = <<>> /\ try + 1 >= Len(high)

(* choose_replica takes a remainder by max_replica_high on attempt 0 and    *)
(* below it, by max_replica_low from attempt max_replica_high on.          *)
DividesByZero ==
  \/ high = <<>> /\ try = 0
  \/ low = <<>> /\ try >= Len(high)

(* One attempt of a reader: its replica fails or answers.                  *)
Attempt ==
  /\ phase = "mounted" /\ try < max_replica
  /\ IF DividesByZero
       THEN phase' = "crashed" /\ UNCHANGED try
       ELSE try' \in {try + 1, max_replica} /\ UNCHANGED phase
  /\ UNCHANGED <<input, sizes, split>>

NextReader ==
  /\ phase = "mounted" /\ try = max_replica /\ try' = 0
  /\ UNCHANGED <<input, sizes, split, phase>>

-----------------------------------------------------------------------------

Mounting ==
  \/ Count \/ Raise \/ Exit("limit") \/ Divide \/ Grow \/ Halve
  \/ Alloc \/ Exit("alloc") \/ Clear \/ Tables \/ NoTables
  \/ SkipEmpty \/ Token \/ BadToken \/ Mounted

Next == Mounting \/ Attempt \/ NextReader

Spec == Init /\ [][Next]_vars

-----------------------------------------------------------------------------
(***************************************************************************)
(* Properties.                                                             *)
(***************************************************************************)

(* A list the documentation describes: paths, one of them of high priority. *)
Regular == (\A f \in DOMAIN fields : fields[f] # "empty") /\ Contains(fields, "high")

(* What the requests find: the tables and sizes in `config'.               *)
Entries(table) == [n \in 0 .. Len(table) - 1 |-> table[n + 1]]

R == INSTANCE Replicas WITH
       MaxReplica <- max_replica, MaxHigh <- Len(high), MaxLow <- Len(low),
       RoundRobinHigh <- Entries(high), RoundRobinLow <- Entries(low)

(* Of a regular list, do_mount makes what Replicas assumes: each replica is *)
(* in one table, once, that of its priority, under its place in the list.  *)
TablesListReplicas ==
  (phase = "mounted" /\ Regular) =>
    /\ R!RightTables
    /\ R!HighReplicas = {r \in R!Replicas : fields[r + 1] = "high"}

(* A mount that succeeds, under any limit: with every slot in use, six      *)
(* descriptors are left of the hard limit (which is in force unless         *)
(* setrlimit failed), and there are slots for as many files as the formula  *)
(* of HOWTO.html, 2 * files * replicas + 6, promises for the limit.  So a   *)
(* limit below six, wrapped around, never mounts: no memory is so large.   *)
TableWithinLimit ==
  phase = "mounted" =>
    /\ fd_buf_size * max_replica + 6 <= hard
    /\ \A files \in 0 .. hard :
         2 * (files * max_replica) + 6 <= hard => files <= fd_buf_size

(* No attempt on a regular mount divides by zero, however many fail.        *)
RegularNeverCrashes == Regular => phase # "crashed"

(* The loop that clears a table its counter cannot count never ends.        *)
Endless == phase = "clear" /\ fd_buf_size >= IntWord

(* The steps do_mount has left at most: the turns of the loop over sizes,   *)
(* while its size grows below Word, the slots to clear, then the fields of *)
(* the list.                                                               *)
Ahead ==
  CASE phase = "count"  -> 2 * Word + Len(fields) + 6
    [] phase = "limit"  -> 2 * Word + Len(fields) + 5
    [] phase = "divide" -> 2 * Word + Len(fields) + 4
    [] phase = "size"   -> (2 * Word - fd_buf_size) + Len(fields) + 3
    [] phase = "alloc"  -> fd_buf_size + Len(fields) + 3
    [] phase = "clear"  -> (fd_buf_size - i) + Len(fields) + 2
    [] phase = "split"  -> Len(rest) + 1
    [] OTHER            -> 0

(* Every step of do_mount is nearer to its end, in all of its loops, with   *)
(* one exception: the shift never drops the one bit of the size, and the   *)
(* counter of slots comes to the end of all tables below IntWord.          *)
MountIsBounded ==
  [][Mounting /\ ~Endless => Ahead \in Nat /\ Ahead' \in 0 .. Ahead - 1]_vars

(***************************************************************************)
(* What the documentation says and the code does not do; see the README.   *)
(***************************************************************************)

(* A mounted list of paths can be read, whatever their priorities.          *)
PathsReadable ==
  (\A f \in DOMAIN fields : fields[f] # "empty") => phase # "crashed"

=============================================================================
