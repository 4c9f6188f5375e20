SPECIFICATION AgeingSpec
CONSTANTS
  Events <- Everything
  MaxTokens = 4
  MaxWants = 2
  MaxEvents = 2
  MaxFaults = 1
  MaxRestarts = 1
INVARIANTS SuccessIsPublished SuccessIsAlive NotLockedOut NeverBare
PROPERTIES NeverForTheWorse NoSuccessOverForeign Heals
