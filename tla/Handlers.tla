------------------------------- MODULE Handlers -------------------------------
(***************************************************************************)
(* The FUSE handlers of fs.c that loop over the replicas, each by its      *)
(* control profile:                                                        *)
(*   loop    "first": ask replicas in choose_replica order until one       *)
(*                    succeeds; "all": call every replica in index order   *)
(*   xlate   what a NULL from xlate (malloc failure) does to a replica:    *)
(*           "fail" counts it as failed with -ENOMEM, "skip" passes over   *)
(*           it without counting, "none": the handler uses descriptors     *)
(*   updates the call changes the replica                                  *)
(*   short   the call may succeed for a part of the request only           *)
(*   rejects the handler answers -ENOSYS at the first replica it could use *)
(*   table   the handler needs a slot of the descriptor table at the end   *)
(* Handlers with one profile differ only in the system call they make.     *)
(***************************************************************************)

Reader == [loop |-> "first", xlate |-> "skip", updates |-> FALSE,
           short |-> FALSE, rejects |-> FALSE, table |-> FALSE]
Updater == [Reader EXCEPT !.loop = "all", !.updates = TRUE]

(* Handlers that ask one replica.  Those named by a path: *)
chiron_getattr  == Reader
chiron_access   == Reader
chiron_readlink == Reader
chiron_readdir  == Reader
(* pread on the descriptors of an open file. *)
chiron_read == [Reader EXCEPT !.xlate = "none"]

(* Handlers that change every replica. *)
chiron_mknod(supported) == [Updater EXCEPT !.rejects = ~supported]
chiron_truncate == Updater
chiron_chmod    == Updater
chiron_chown    == Updater
chiron_utime    == Updater
chiron_rmdir    == Updater
chiron_unlink   == Updater
chiron_mkdir    == Updater
chiron_symlink  == Updater
chiron_rename   == Updater
chiron_link     == Updater
(* pwrite on the descriptors; it may write less than size bytes. *)
chiron_write == [Updater EXCEPT !.xlate = "none", !.short = TRUE]

(* Handlers that open every replica, then take a slot of tab_fd. *)
chiron_create == [Updater EXCEPT !.xlate = "fail", !.table = TRUE]
chiron_open   == [chiron_create EXCEPT !.updates = FALSE]

Handlers ==
  {chiron_getattr, chiron_access, chiron_readlink, chiron_readdir, chiron_read,
   chiron_mknod(TRUE), chiron_mknod(FALSE), chiron_truncate, chiron_chmod,
   chiron_chown, chiron_utime, chiron_rmdir, chiron_unlink, chiron_mkdir,
   chiron_symlink, chiron_rename, chiron_link, chiron_write, chiron_create,
   chiron_open}

=============================================================================
