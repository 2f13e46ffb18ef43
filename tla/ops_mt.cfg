CONSTANTS
  Threads = {t1, t2}
  MaxReplica = 2
  MaxHigh = 2
  MaxLow = 0
  RoundRobinHigh <- TwoHigh
  RoundRobinLow <- NoLow
SPECIFICATION FairSpec
INVARIANTS TypeOK MissedUpdateDisables AttemptsInTable
PROPERTIES FailedUpdateIsDisabled EveryRequestReplies RequestsAreBounded
