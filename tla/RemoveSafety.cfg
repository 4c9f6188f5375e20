SPECIFICATION OneOddSpec
CONSTANTS
  MaxTokens = 4
  MaxFaults = 1
  MaxRuns = 2
  MaxPasses = 1
CHECK_DEADLOCK FALSE
INVARIANTS TypeOK DoneMeansGone PreviewTold
PROPERTIES SparesRefused SparesShared
