SPECIFICATION OneOddSpec
CONSTANTS
  MaxTokens = 4
  MaxFaults = 0
  MaxRuns = 2
  MaxPasses = 0
CHECK_DEADLOCK FALSE
PROPERTIES SparesSharedAgain
