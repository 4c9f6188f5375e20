SPECIFICATION Spec
CONSTANTS
  PollInterval = 4
  MinPassInterval = 4
  MaxPassInterval = 16
  RetryInterval = 4
  MaxRetryInterval = 16
  ClusterTimeout = 4
  ListTime = 1
  SelfRenewInterval = 32
  TokenTTL = 120
  SelfTokenTTL = 64
  TokenGrants = {32, 72}
  SelfGrants = {48}
INVARIANTS TokenLives OnTime RenewedInTime LapseForetold
