SPECIFICATION FairSpec
CONSTANTS
  Clusters = {c1, c2, c3, c4, c5, c6, c7, c8}
  Slots = 4
  PollInterval = 3
  CallTimeout = 3
  EventTimeout = 1
  ClusterTimeout = 30
  PassGrace = 6
  MaxProgressAge = 30
  SchemaInterval = 60
  MaxChanges = 0
  MaxPasses = 0
  MaxHangs = 0
CHECK_DEADLOCK FALSE
INVARIANT SlowIsAlive
