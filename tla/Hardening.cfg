SPECIFICATION OneOddSpec
CONSTANTS
  Conns = {c1, c2, c3}
  Endpoints = {e1, e2}
  Secrets = {s1, s2}
  MaxRuns = 2
  MaxEvents = 2
  MaxFaults = 1
SYMMETRY Interchangeable
CHECK_DEADLOCK FALSE
INVARIANTS SuccessIsNarrow InventoryRight
PROPERTIES NoGap ForeignKept
