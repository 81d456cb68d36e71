SPECIFICATION FairSpec
CONSTANTS
  c1 = c1
  c2 = c2
  c3 = c3
  Client = {c1, c2, c3}
  NumWant = 1
  FailFast = TRUE
INVARIANTS TypeOK ReplySane
PROPERTIES RegisterKept StalePurged
CHECK_DEADLOCK FALSE
