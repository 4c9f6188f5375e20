SPECIFICATION Spec
CONSTANTS
  Names = {a}
  MaxRuns = 2
  Invocations <- Named
  MaxEvents = 0
  MaxFaults = 0
CHECK_DEADLOCK FALSE
INVARIANTS DoneRenews
