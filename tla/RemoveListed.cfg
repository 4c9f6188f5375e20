SPECIFICATION OneOddSpec
CONSTANTS
  MaxTokens = 4
  MaxFaults = 0
  MaxRuns = 1
  MaxPasses = 1
CHECK_DEADLOCK FALSE
INVARIANTS LeftIsListed
