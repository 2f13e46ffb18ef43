CONSTANTS
  Threads = {t1, t2}
  MaxReplica = 2
  MaxHigh = 2
  MaxLow = 0
  RoundRobinHigh <- TwoHigh
  RoundRobinLow <- NoLow
  Users = {alice, bob}
  Root = root
  Daemon = root
SYMMETRY Symmetry
SPECIFICATION ISpec
INVARIANTS ITypeOK NoIdOutlives AloneAsCaller
PROPERTIES AloneDisablesNone
