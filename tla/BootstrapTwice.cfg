SPECIFICATION Spec
CONSTANTS
  Names = {a}
  MaxRuns = 2
  Invocations <- Twice
  MaxEvents = 0
  MaxFaults = 0
CHECK_DEADLOCK FALSE
PROPERTIES AdoptionIsKept
