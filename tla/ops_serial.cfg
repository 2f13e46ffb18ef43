CONSTANTS
  Threads = {t1}
  MaxReplica = 4
  MaxHigh = 2
  MaxLow = 2
  RoundRobinHigh <- TwoHigh
  RoundRobinLow <- TwoLow
  Values = {a, b}
  NoValue = none
  Torn = torn
SPECIFICATION MSpec
INVARIANTS MTypeOK SomeReplicaEnabled LowPriorityLast Mirrored
PROPERTIES ReadErrorMeansNoReplica HonestSuccess DisableNeedsOtherSuccess OneDisk
