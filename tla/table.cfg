CONSTANTS
  Threads = {t1}
  MaxReplica = 2
  FdBufSize = 4
  Fds <- Limit14
  HashFd <- HashSpread
SPECIFICATION Spec
INVARIANTS TypeOK OwnSlot EnabledHaveFd NoLeakWhileEnabled FdBudget
PROPERTIES EmfileMeansFull
