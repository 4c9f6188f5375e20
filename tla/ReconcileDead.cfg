SPECIFICATION Spec
CONSTANTS
  Events <- AccountDeleted
  MaxTokens = 4
  MaxWants = 1
  MaxEvents = 1
  MaxFaults = 1
  MaxRestarts = 0
INVARIANT ForcesReissue
