SPECIFICATION OneOddSpec
CONSTANTS
  Names = {a, b}
  MaxRuns = 2
  Invocations <- Everything
  MaxEvents = 1
  MaxFaults = 1
CHECK_DEADLOCK FALSE
INVARIANTS AdoptionIsTrue OneConnection DoneMeansProvisioned
PROPERTIES NoSilentTakeover DonePublishes GapCloses
