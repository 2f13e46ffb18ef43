CONSTANTS
  Threads = {t1, t2}
  MaxReplica = 2
  MaxHigh = 2
  MaxLow = 0
  RoundRobinHigh <- TwoHigh
  RoundRobinLow <- NoLow
SPECIFICATION Spec
PROPERTIES ReadErrorMeansNoReplica
