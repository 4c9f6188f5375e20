SPECIFICATION OneOddSpec
CONSTANTS
  Clusters = {c1, c2}
  Slots = 1
  PollInterval = 1
  CallTimeout = 1
  EventTimeout = 1
  ClusterTimeout = 1
  PassGrace = 2
  MaxProgressAge = 8
  SchemaInterval = 2
  MaxChanges = 2
  MaxPasses = 2
  MaxHangs = 1
INVARIANTS SlowIsAlive ReadyIsTrue
PROPERTY HungIsRestarted
