SPECIFICATION Spec
CONSTANTS
  Peers = {}
  MaxSwarmPeers = 5
  MaxRetries = 5
  RetryTimeout = 1
  RefreshPeriod = 20
  MaxAge = 100
  PurgePeriod = 40
  Woken = FALSE
  Repeats = FALSE
PROPERTY LeaveUnanswered
