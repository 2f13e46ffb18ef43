# ChironFS in TLA+

ChironFS is a FUSE file system that keeps several copies ("replicas") of a
directory tree. Every update goes to all replicas in use; a read goes to one of
them; a replica that fails an operation which succeeds elsewhere is disabled
until the next mount. This directory models that machinery, checks it with TLC
and proves with TLAPS all the safety properties that TLC finds to hold, among
them that a mount that serves one request at a time implements the specification
of a single disk. All of the program's own logic is in `src/src/fs.c`, with
`conf.c` (mounting) and `ctl.c` (the control client).

## Inventory

| Component | State | Operations | Modelled in |
|---|---|---|---|
| replica policy (`fs.c` 153-226, 264-280) | `replicas[].disabled`, `curr_replica_high`, `curr_replica_low` | `choose_replica`, `disable_replica`, `disable_faulty_replicas`, `get_first_error` | `Replicas`, `ReplicaOps` |
| request handlers (`fs.c` 282-1539) | per request: loop counter, `err_list`, `succ_cnt`, `fail_cnt` | the 20 handlers of `chiron_oper`, `release` apart | `Handlers`, `ReplicaOps`, `Mirror` |
| table of open files (`fs.c` 55-131, 282-506) | `tab_fd`, the descriptors of the process, FUSE's handles | `open`, `create`, `release`, `fd_hashset`, `fd_hashseekfree` | `FdTable` |
| mounting (`conf.c` 80-195) | `max_replica`, `fd_buf_size`, the round-robin tables | `do_mount` | `Mount` |
| control server (`fs.c` 1564-1704) | socket, one connection at a time, counters `totrd`, `totwr` | `ctl_server`, `process_request` | `Ctl` |
| chironctl (`ctl.c`) | one connection | `get_path` ... `get_max_replica` | `Ctl` |
| caller's identity (`fs.c` 228-262) | effective uid and gid of the process | `drop_priv`, `reacquire_priv` | `Identity` |
| log (`debug.c`) | the log file, `errtab` | `_log`, `print_err`, `open_log` | not modelled: output |
| start-up (`fs.c` 1551-1562, 1712-1859) | options | `main`, `opt_proc`, `chiron_init` | not modelled: option parsing |

How they interact. `main` calls `do_mount`, which fills `config`, then
`fuse_main`. FUSE calls a handler per kernel request, by default from several
worker threads; the only thing the handlers and the control server share is
`config`, and nothing in it is locked. A handler gets the caller's identity,
loops over replicas making one system call on each, calls
`disable_faulty_replicas`, and answers. `open` and `create` also leave an array
of descriptors in `tab_fd`, which `read` and `write` use and `release` frees.
The control server, a thread of its own, reads the flags, paths and counters
over a UNIX socket.

What is hard: the handlers interleave on flags and turns that they test at one
moment and use at another; replicas fail one by one, and what one request
learnt decides what the others do; the table of open files, the descriptors of
the process and the sizes computed at mount time bound each other. What must be
right:

- policy and handlers: a replica that missed an update is never used again; one
  replica always remains; an error is reported only if no usable replica could
  answer, and success only if one did; slow replicas come last; every request
  ends; the replicas in use hold the same content, and all of this together is
  one disk to the user;
- identity: a system call is made as the user who asked for it, no identity
  stays behind, and a difference of identity never counts as a fault of a replica;
- table: a handle leads to its own file's descriptors, open and on the right
  replicas; leaks are bounded; `EMFILE` means the table is full;
- mounting: tables that list each replica once, a table of open files that fits
  the limit, no division by zero, termination;
- control: answers belong to their questions; the server survives its clients.

`PROJECT.json` lists the hazards of this kind, each with its line and the
properties that would catch it.

## Modules

`Replicas` holds the constants of a mount and the three policies as operators:
`ChosenReplica` / `TurnMoves` / `NextTurn` (`choose_replica`), `PartialSuccess`
(the test of `disable_faulty_replicas`) and `GetFirstError`. A set of replicas
stands for each `int` array indexed by replica: `disabled`, and `failed` for the
non-zero entries of `err_list`. `TableAssumption` says that the tables are
`RightTables`, which is what `do_mount` leaves for a list without empty fields
and with a fast replica: `Mount` instantiates `Replicas` with its own tables
(`R`) and states `R!RightTables`.

`Handlers` gives each handler its control profile, a record: does it stop at the
first success; what a `NULL` from `xlate` means to it; does it change the
replica; can its call succeed in part; does it take a slot of `tab_fd`. The
handlers differ otherwise only in the system call they make.

`ReplicaOps` EXTENDS both and runs the handlers on `Threads` worker threads.

| Action | Code |
|---|---|
| `Begin`, `Refuse` | head of a handler: `calloc`s, empty slot (e.g. 508-531) |
| `LoadTurn`, `StoreTurn`, `Choose` | `choose_replica`: load the turn, store the next, read it again to pick |
| `SkipDisabled`, `Test` | the test of `disabled`: passed over, or about to be asked |
| `NoPath`, `CallFails`, `CallSucceeds`, `Unsupported` | the ways the call, and with it the iteration, ends |
| `Sweep` | one iteration of `disable_faulty_replicas` |
| `Reply` | `get_first_error`, success, or `-EMFILE` from a full table |

`pc[t]` says where thread t is: `idle`, in `choose_replica` (`load`, `store`,
`choose`), at an `attempt`, at the `call` after its test of the flag, in the
`sweep` and its reply. `missed` is a history
variable: the replicas that lack an update another replica took, by a request
that has been answered.

One action is one access to shared state or one system call. The test of
`disabled` and the call after it are separate steps, in `Mirror` and `Identity`
too: between them another thread may disable the replica, write its content or
change the ids, and the call is made all the same. There is one liberty:
`get_first_error` reads the flags of the replicas that failed at one instant. The
code reads them one after the other, with the same outcomes: flags are only ever
set, so it finds all of them set exactly if they all are when it reads the last,
and finds one clear at an instant when it is. Turns are loaded and stored in
separate steps, since `a = (a + 1) % b` on a shared int is. `ReplicaOps` has no
contents, only who took what.

`Mirror` EXTENDS `ReplicaOps` with contents: `copy[r]` is the content of the
file on replica r, `val[t]` the buffer of thread t. A successful call of an
updating handler stores the buffer in its replica (a part of it leaves `Torn`),
one of a reading handler fetches it; a call that fails leaves its replica as it
was. What the code does not tell its caller ends the promise, and the history
variable `sound` with it (`Spoils`): `pwrite` took less on one replica than on
another (`fs.c:601` returns the largest count); `xlate` gave `NULL` and an
update was not made on a replica in use (`fs.c:909`); it gave `NULL` to a read
that no replica answered, and 0 is returned. Such a replica stays in use with a
different content, so RAID 1 is exact only while `sound`.

`SingleCopy` is what users are promised: one file and no replicas. A request is
asked, carried out once or not at all, and answered accordingly; a read finds
what the last update left. `Mirror!OneDisk` is `SingleCopy!Spec` under this
mapping: a request is `done` once a replica `took` it; `content` is the copy of
any replica in use, and the buffer of the update under way from its first
successful call on (the point where it takes effect; with one thread nobody
can look at the other replicas before they have it too, or are disabled).

`Identity` EXTENDS `ReplicaOps` with `drop_priv` and `reacquire_priv`: `stage[t]`
goes through `DropGid`, `DropUid`, the handler (`Enter`, `Inside`, `Leave`, or
the early return `LeaveEarly`), `BackUid`, `BackGid`, one action per change of
an id. Both ids belong to the process: `setegid` and `seteuid` of the C library
change all threads. `MaySet` is the kernel's rule for them; if `setegid` fails
`seteuid` is not called, and the handler goes on either way. All replicas hold
the same file, open to the users or groups in `permits[t]`, and memory lasts: a
call fails exactly where the ids of that moment are refused. `read` and
`write` use descriptors, which are not checked again.

`FdTable` is the same `open` and `create`, seen from the table, with `release`.
`tab` has `Null` or an array of descriptors in each slot; `owner` is the
kernel's view, the replica each descriptor of the process is open on; `handles`
is FUSE's view, the files it has open, with the array stored for each. The
kernel gives the lowest free descriptor. The sweep disables one replica per step
(`Sweep`), and the search for a slot (`Seek`) and the store (`Set`) are
separate; the loop of `release` over its descriptors is one step. An `open` that
no replica took ends with `get_first_error` (`GiveUp`): an error, or 0 once
others have disabled every replica that failed, and then FUSE holds an open file
whose handle is the 0 its request came with, whoever has that slot. With one
thread that cannot happen, which is part of the proofs (`GiveUpIsError`).
`OtherDisables` stands for all requests of `ReplicaOps` that this module does
not model: with one thread they run between `open`s and `release`s and never
take the last replica, which is a theorem of `ReplicaOpsSerialProofs`; with
more, they disable anything at any time. The hash of `hash.c` is the constant
`HashFd`, any function into the table.

`Mount` is `do_mount`: the count of `=`; the soft limit on descriptors raised to
the hard one (`Raise`), or left as it is when `setrlimit` fails, after which the
program computes with the hard limit all the same (`conf.c:105-107`); that limit
divided among the replicas with the wrap-around of unsigned integers of `Width`
bits; the doubling loop; the table allocated, if there is memory, and cleared
slot by slot with a counter of `IntWidth` bits (`Clear`); and the split of the
list by `strtok`, then the divisions `choose_replica` makes with the sizes. A
field of the list is a fast path, a slow one, one that does not resolve, or
empty. Every call that can fail may fail, and ends the process.

`Ctl` is the control socket: the server thread, one action per call on a socket
(`Bind`, `Listen`, `SetupFails`, `CallAccept`, `CallAcceptFails`, `Accept`,
`ReadCode`, `ReadId`, `WriteAnswer`, `WriteBody`, `EndOfFile`, `WriteFails`),
and chironctl processes that ask their questions in `main`'s order (`SendCode`,
`SendId`, `ReadLength`, `ReadAnswer`) and may be killed at any point. Each
connection is two queues of messages. Nothing in a message tells a command from
a number: a server that had fallen out of step could take the bytes of either
for any of the other (`CodesIn`, `NumbersIn`), `DONE` and a number out of range
included. That it never does is `AnswersMatch`, not an assumption. Meanwhile the
other threads of the daemon disable replicas and open files, which compete for
descriptors with the connections, never closed by the server; the administrator
unmounts, mounts again and removes the socket file. `accept` takes its
descriptor before it waits, as it does on Linux, so a daemon without descriptors
exits although nobody connects. When the daemon ends a client is cut off at
once; the answers it might still have read are not modelled.

`MCReplicaOps`, `MCMirror`, `MCIdentity` and `MCFdTable` define the tables,
descriptors, hash and symmetry of the runs; `Mount` and `Ctl` need no such
module.

Operators whose comment begins with "Mutant" are wrong variants of the
definition after them. No specification uses them; exchanged for their original
they show that a property notices, as `PROJECT.json` pairs them.

## Runs

| Run | Instance | Shows |
|---|---|---|
| `ops_mt` | 2 threads, 2 fast replicas, fair | `TypeOK`; a replica that missed an update is disabled (`MissedUpdateDisables`); one that failed where another succeeded is disabled in the end, whoever interferes, if it was an update (`FailedUpdateIsDisabled`); the replica asked is one of the table, wherever the turns have gone (`AttemptsInTable`); a request has at most `6 * MaxReplica + 1` steps left, each of its own takes one off, none of another's adds one (`RequestsAreBounded`), and every request is answered (`EveryRequestReplies`) |
| `ops_serial` | `Mirror`, 1 thread, 2 fast and 2 slow replicas, 2 contents | `MTypeOK`, `SomeReplicaEnabled`, `LowPriorityLast`, `ReadErrorMeansNoReplica`, `HonestSuccess`, `DisableNeedsOtherSuccess`; while no update is under way the replicas in use agree (`Mirrored`); the mount implements `SingleCopy` (`OneDisk`) |
| `identity` | 2 threads, 2 users, daemon of root, 2 replicas | `ITypeOK`; the ids are the daemon's or those of a caller still being served (`NoIdOutlives`); a request that meets no other one is served as its caller (`AloneAsCaller`) and disables no consistent replica (`AloneDisablesNone`) |
| `table` | 1 thread, 2 replicas, 4 slots, descriptors 4-13 | `TypeOK`, `OwnSlot`, `EnabledHaveFd`, `NoLeakWhileEnabled`, `FdBudget`, `EmfileMeansFull` |
| `mount` | lists of 2 to 4 fields, 10 values for the soft and the hard limit, words of 8 bits, counters of 4, memory for 31 pointers | `TypeOK`; the round-robin tables are right (`TablesListReplicas`); a table that mounts leaves six descriptors of the hard limit and has the slots `doc/HOWTO.html` promises, whatever the limit (`TableWithinLimit`); no division by zero on a regular list (`RegularNeverCrashes`); each step of `do_mount` brings its end nearer, except in a table its counter cannot count (`MountIsBounded`) |
| `ctl` | 2 clients, 2 replicas, 3 descriptors of which open files use at most 1 | `TypeOK`; answers are read by the question they belong to (`AnswersMatch`); a status was true between question and answer (`StatusIsRecent`); the server and a client never wait for each other (`NoStalemate`); every client ends (`EveryClientEnds`) |

The other runs each check one sentence of the documentation, and TLC refutes it:

| Run | Sentence | What the code does |
|---|---|---|
| `read_gives_up` | a failed read is tried on another replica (`doc/HOWTO.html:413-416`) | another thread moves the turn between two attempts; the same replica is asked twice and its error returned |
| `false_success` | `get_first_error` returns the error when all replicas failed (`fs.c:264-266`, 348) | two requests disable each other's replica; the error belongs to a disabled replica and 0 is returned |
| `writes_diverge` | RAID 1 (`man/chironfs.8:10-11`) | two updates reach two replicas in different orders; both are answered with success and the replicas differ, in use |
| `healthy_disabled` | a disabled replica is inconsistent (`man/chironfs.8:83-85`) | another request's `drop_priv` or `reacquire_priv` changes the ids between two replicas; one refuses, the other accepts, and the first is disabled |
| `table_race` | "if the hash address is not used then use it" (`fs.c:126`) | two opens find the same slot and the second overwrites the first |
| `mount_low` | paths may have a colon (`fs.c:1716-1718`) | a list of slow paths only divides by zero at the first read, getattr, ... |

The kernel serialises the writes of one inode, which two names made by
`chiron_link` are not to FUSE: `writes_diverge` takes such a pair, or a write and
a `truncate`.

`ReadErrorMeansNoReplica`, `HonestSuccess`, `Mirrored` and `DisabledIsInconsistent`
thus hold with `-s` (they are proved) and fail without, and so do the other
properties of `ops_serial` and `table`, type invariants apart: they are stated for
one thread, and TLC finds them violated with two. The properties of `ops_mt`
and `identity` hold in both cases. For `Mirrored` it is not the threads that
matter: it holds for any number of them, readers included, as long as no two
updates of the file overlap (`SerialUpdatesMirror`), so `writes_diverge` shows
the only way to lose it.

`healthy_disabled` shows a second disagreement. The manual says that a replica is
disabled "ONLY IF a write operation was FAILED" (`man/chironfs.8:88-90`, and
`doc/HOWTO.html:413-422` alike); the request that disables one in the run is an
`open`. So do read, getattr, access, readlink and readdir, which end with
`disable_faulty_replicas` as well (every profile of `Handlers` goes through
`Sweep`). No property demands it of them: what the runs ask of readers is only
that they disable for a reason (`DisableNeedsOtherSuccess`, `AloneDisablesNone`).

Three more properties of the code are part of the models and contradict no
sentence of the documentation that is exact enough to refute. When `setrlimit`
fails the table is sized by a limit that is not in force, so `TableWithinLimit`
speaks of the hard limit. The loop that clears the table counts with an
`unsigned int` up to an `unsigned long` and does not end with 2^32 slots or more
(`Endless`, which `MountIsBounded` excepts and the run reaches); Linux never
allows so many descriptors to a process. `fs.c:101-105` expects that the table
is never full; `conf.c:121-124` rounds it down to a power of two, so it may be
while descriptors are left, which `EmfileMeansFull` allows.

Bounds. Two threads and two replicas are the least that show one thread changing
the turn or the flags under another, in either direction; each thread serves any
number of requests, one after the other, of every profile. The serial run has
two replicas of each priority, so both tables wrap around at any turn; two
contents are enough to tell the last update from the one before. In the identity
run two users are enough for a thread to run as neither the daemon nor its own
caller; threads, and users, differ in nothing but what they do, so the run is
symmetric in both (its properties are all safety). The table run has fewer free
slots than opens can ask for, a hash with collisions and one that starts at the
last slot, and leaks until the descriptors are used up. The limits of the mount
run lie on both sides of every case of the size computation: below 6, too few
for a slot, just below and at a power of two, more than there is memory for, and
the largest word; every pair of a soft and a hard one is tried. The memory holds
a table of 16 slots, which a counter of 4 bits cannot count, and no larger one.
(`MountAssumption` asks of the memory what the addresses of a 64-bit process
give: without it a limit that wrapped around could mount.) In the control run
one client waits, or is killed, while the other is served; a whole session is
eleven questions; and three descriptors let the daemon serve two connections or
run out earlier, by its files. Nothing else bounds a run: no counter grows
without limit. The largest runs have 4.4 million states (`identity`), 4.1
million (`ops_serial`), 470 thousand (`ctl`), 330 thousand (`mount`) and 260
thousand (`ops_mt`); each takes about a minute or less.

Deadlock is checked except for `Mount`, where `do_mount` exits when a call
fails and the process may have crashed.

Fairness. `ReplicaOps!FairSpec` has weak fairness of each thread's own steps:
threads are scheduled and system calls return. It says nothing of `Begin`; no
request need ever come. `Ctl!Spec` has weak fairness of the server thread and of
each client's own steps: not of starting, killing, mounting or unmounting.
`Mirror`, `Identity`, `FdTable` and `Mount` are checked for safety only.
Nothing is assumed of the replicas: any call may fail at any time, for ever.

## Proofs

All theorems are for any number of replicas, any round-robin tables that
satisfy `TableAssumption`, any table size, hash and set of descriptors
(`FdAssumption`).

`ReplicaOpsProofs`, any number of threads:

- `TypeCorrect`: `Spec => []TypeOK`. The arithmetic core is that a remainder of
  `choose_replica` is an index of its table.
- `MissedUpdateIsDisabled`: `Spec => []MissedUpdateDisables`. The reply of an
  update adds to `missed` whoever did not take it; to know these are
  disabled one must know what happened to each replica in the loop, so the
  inductive invariant `IInv` adds, for each thread: behind the loop counter of
  an update every replica took it, was passed over, failed or is disabled
  (`LoopCovers`), and behind the counter of the sweep every failed one is
  disabled (`SweepCovers`). It is stable under the other threads because
  `disabled` only grows. An update that goes to a replica disabled since the test
  needs no word: whatever it took, it is disabled.
- `AttemptsAreInTable`: an attempt is made on what `choose_replica` returned, and
  both of its remainders stay inside their table whichever turns it read.
- `RequestIsBounded`: `Left` counts the loop and the sweep still to go by `pc`,
  `try` and `MaxReplica`, all of which only the thread itself changes. With a
  fair scheduler every request therefore ends.

`ReplicaOpsSerialProofs`, under `OneThread`:

- `ReplicaStaysEnabled`, `LowPriorityIsLast`, `ReadErrorNeedsEveryReplica`,
  `SuccessIsHonest`, `DisabledForOther`. Lemmas on `ChosenReplica` show that the
  attempts of one request go through distinct replicas and reach all, the fast
  before the slow, whatever the turns (`RoundCovers`, `RoundDistinct`,
  `EveryReplicaChosen`, `ChosenDistinct`). `SerialInv` adds to `IInv` that a
  reader inside its loop has asked exactly the replicas chosen by the attempts
  it has made (`FirstBehind`), that a replica found in use is still in use when
  it is asked (`StillEnabled`), that a replica has one result, and that no
  replica that took the request is disabled (`Outcome`): that is the one the
  sweep leaves enabled. None of this survives a second thread that moves the
  turn or sweeps, which is what the violated runs show.

`FdTableProofs`:

- `TableType`, for any threads;
- `SerialSetsFreeSlot`, one thread: the sentence `table_race` refutes is true with
  `-s`, because the slot that `Seek` found is still free at `Set`;
- `EachFileOwnsItsSlot`, one thread: `TableInv` adds that the slot found by the
  search is still free when it is used, and the slot being released belongs to
  no handle any more (`SlotInv`); and that some replica is enabled, of which an
  open that fails has an error (`OpensInv`), or 0 would be answered with a handle
  that is another file's (`GiveUpIsError`);
- `EnabledReplicasHaveFd`, one thread: `DescInv` adds what an `open` has
  gathered so far (`ArrayInv`) and that no two files share a descriptor of an
  enabled replica (`NoShare`), or a `release` would close another file's.

`FdLeakProofs`, one thread:

- `EnabledReplicasDoNotLeak`: `LeakInv` adds to `DescInv` that what an array
  holds is open on the replica of its place, for disabled replicas too
  (`Owned`), and that a request under way holds nothing of a disabled replica
  (`RequestInv`): what `CloseAll` and `Clear` do not close was open on a
  disabled one.
- `EmfileOnlyWhenFull`: `RequestInv` carries from the search to the answer that no
  slot was free; `FreeSlots` misses none, whatever slot the hash starts it at
  (`SearchCoversTable`).
- `LeakIsBounded`: while a replica is in use, all its descriptors are held by an
  open file or by the request under way (`NoLeakWhileEnabled`), by `Owned` each at
  the place of the replica, and different files have different slots. So the
  descriptors map one to one into the slots and one more. Once it is disabled it
  gets no new one (`DisabledHoldsNoMore`), so the bound it had then stays.

`MirrorProofs`, on top of `ReplicaOpsSerialProofs`:

- `MirrorIsReplicaOps`: contents only watch, so all theorems about
  `ReplicaOps` hold of `Mirror`.
- `MirrorType`: `MSpec => []MTypeOK`, any number of threads (`MTypeInv`).
- `SerialUpdatesMirror`: `MSpec /\ []OneUpdater => []Mirrored`, any number of
  threads. `OneUpdater`, at most one update under way, is what the kernel's lock
  of an inode gives to the writes of one name. `CopyInv` adds to `MTypeInv`, while
  `sound`, that outside of an update the replicas in use agree and that inside
  one those that took all of it hold its value (`Whole`). The sweep closes the
  gap: whoever did not take a successful update is disabled before the reply, by
  `LoopCovers` and `SweepCovers`. Readers may disable replicas meanwhile: a
  smaller set still agrees.
- `ReplicasAgree`: with one thread there is one updater.
- `MirrorIsOneDisk`, one thread: `MInv`, which is `SerialInv` and `CopyInv`, lets
  each step be mapped: the first successful call to `Carry`, a reply to `Answer`,
  `Begin` and `Refuse` to `Ask` and `Refuse`, every other step to a stutter, above
  all those that disable a replica or copy the value to the next one.

`IdentityProofs`, any daemon unless stated:

- `IdentityIsReplicaOps`: the ids only decide which calls fail.
- `IdentityTyped`, `IdentityEnds`, any number of threads and users: `BackUid` and
  `BackGid` set the ids back whoever set them, so an id that is not the daemon's
  was set by a thread that has not passed them.
- `AloneIsCaller` (the daemon is root): while a request is alone, the ids follow
  its stages (`OwnIds`), because they were the daemon's when it began.
- `AloneKeepsReplicas`: inside a request that is alone the ids do not change, so
  all its calls have one answer (`OneAnswer`) and `PartialSuccess` is false.
  `SerialKeepsReplicas`, one thread: no replica of this mount, where all are
  consistent, is ever disabled.

`CtlProofs`, any number of clients, replicas and descriptors:

- `CtlTyped`: among the rest, files and connections that are never closed stay
  within the descriptors.
- `AnswersBelong`: `CtlInv` says, for each place client and server can be in
  within a question, exactly what the two queues hold (`InStep`), and what a
  client that waits to be accepted may have sent (`Placed`). So the server never
  takes a number for a command, whatever its bytes would mean as one.
- `StatusNotOlder`: `StatusInv` adds that a status on its way was the flag's
  value at some time since its question, because flags are only ever set.
- `CtlNeverStuck`: `CtlInv` leaves a client nothing to wait for that the server
  does not owe it, and the server nothing that a client in the middle of a
  command will not send.

`MountProofs`, lists of any length, words of any width from three bits:

- `MountType`, for which the fields `strtok` has gone through bound the lengths
  of the tables (`ListInv`).
- `TableFitsLimit`, under any limit, soft and hard: in the loop `fd_buf_size` is
  1 or a power of two that is at most `2 * tmpfd`, after it the largest that is
  at most `tmpfd` (`SizeInv`), and the division among two replicas or more keeps
  `2 * tmpfd` inside the word. A limit below six wraps around to sizes there is
  no memory for, which is what the theorem takes from `MountAssumption`; a limit
  too small for a slot leaves an empty table, within the limit.
- `MountEnds`: by `SizeInv` the shift never wraps, so the size doubles with each
  turn and passes `tmpfd`; the loop that clears the table comes to its end
  unless its counter wraps first (`Endless`), which a table of `IntWord` slots or
  more makes it do. `PowerOf2` is a recursive function: its defining equation is
  proved from the existence of such a function, and that it is positive and grows
  by a least counterexample.
- `TablesAreRight`: the tables list the fields `strtok` has gone through
  (`Listed`); a regular list ends with `RightTables`, the assumption from which all
  theorems about requests start.
- `RegularMountServes`: the remainders are then by non-zero sizes.

Assumptions: `TableAssumption`, `FdAssumption`, `MountAssumption` and
`CtlAssumption` on the constants, each evaluated by TLC in a run; and `OneThread`
where it says "one thread".

Only model-checked: the liveness properties `FailedUpdateIsDisabled`,
`EveryRequestReplies` and `EveryClientEnds`. Fairness is about `ENABLED`, which is
out of the prover's reach. What they rest on is proved as safety:
`RequestIsBounded` and `CtlNeverStuck`; that a waiting client of `Ctl` is served in
the end is left to TLC.

## Not modelled

- The control-file system of `man/chironfs.8:24-40`: this version of the code has
  the control socket instead.
- Start-up: `opt_proc`, `help` and `main` parse options and call `do_mount` and
  `fuse_main` in sequence, before any request; `Mount` and `Identity` start from
  what they leave.
- The log: `_log`, `print_err`, `open_log` and `debug` write text, and no other
  part reads it. (`_log` indexes `errtab`, of seven entries, with `-(err+1)`, and
  `disable_faulty_replicas` gives it `-errno`: what it prints for a failed
  replica is another message, or none of the table's.)
- The statistics `totrd` and `totwr`, incremented without a lock by `read` and
  `write` and only ever printed.
- `readdir`'s call-backs and directories, `create`'s use of `creat` (a write-only
  descriptor), more than one file in `Mirror`, offsets of reads and writes.
- A table without a slot, which a limit between 6 and 5 + `max_replica` leaves:
  `Mount` mounts it, `FdTable` assumes a slot. (The first `open` would search from
  an index that a mask of -1 does not bound, outside of an empty array.)
- Supplementary groups, and the owner a new file gets.
- The `DONE` command of the control server, which no client sends, and the bytes
  of its messages.
- Memory that leaks (`err_list` at `fs.c:937`), and the use of descriptors by
  anything other than open files and control connections.

`enable_replica` has no caller: no model enables a replica.

## Plan

Done: all components but the log and start-up, the refinement of `SingleCopy` by
`Mirror`, and the theorems above.

Left, in this order:

1. What a read may return beside an update: with one updater and many readers, the
   value before or the value of the update under way (a regular register), as a
   second abstract specification for `Mirror` and a theorem under `OneUpdater`.
2. `Mirror` with two files joined by a directory operation, so that `rename` and
   `unlink` are told from `write`.
3. The counters: `totrd++` as a load and a store, read by `Ctl`'s answers.
4. The fault log: which errors fall outside of `errtab`, and whether every
   disabled replica has its report.
5. A measure for a whole session of chironctl, like `Left` for a request.
