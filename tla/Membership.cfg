SPECIFICATION FairSpec
CONSTANTS
  Peers = {}
  MaxSwarmPeers = 1
  MaxRetries = 3
  RetryTimeout = 1
  RefreshPeriod = 5
  MaxAge = 25
  PurgePeriod = 10
  Woken = TRUE
  Repeats = TRUE
INVARIANTS TypeOK ForgottenInTime OldOnlyUnheard
PROPERTY BackInTable
