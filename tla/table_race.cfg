CONSTANTS
  Threads = {t1, t2}
  MaxReplica = 2
  FdBufSize = 4
  Fds <- Limit14
  HashFd <- HashSpread
SPECIFICATION Spec
PROPERTIES SetsFreeSlot
