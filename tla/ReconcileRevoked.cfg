SPECIFICATION Spec
CONSTANTS
  Events <- OwnReplaced
  MaxTokens = 4
  MaxWants = 1
  MaxEvents = 2
  MaxFaults = 0
  MaxRestarts = 0
INVARIANT SelfRenewalSafe
