SPECIFICATION FairSpec
CONSTANTS
  p1 = p1
  p2 = p2
  Peers = {p1, p2}
  MaxSwarmPeers = 2
  MaxIn = 1
  MaxOut = 1
  MaxRetries = 2
  MaxInbox = 2
CHECK_DEADLOCK FALSE
INVARIANTS TypeOK EventTellsState SwarmDriven ReplacementPending LossPending
PROPERTY LossHandled
