SPECIFICATION OneOddSpec
CONSTANTS
  MaxTokens = 4
  MaxFaults = 0
  MaxRuns = 1
  MaxPasses = 0
CHECK_DEADLOCK FALSE
PROPERTIES SparesNeighbours
