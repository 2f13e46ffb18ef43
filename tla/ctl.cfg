CONSTANTS
  Clients = {c1, c2}
  MaxReplica = 2
  Limit = 3
  MaxFiles = 1
  None = None
SPECIFICATION Spec
INVARIANTS TypeOK AnswersMatch StatusIsRecent NoStalemate
PROPERTIES EveryClientEnds
