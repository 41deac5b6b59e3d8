CONSTANTS
  Clients = {c1, c2, c3}
  Timeout = 2
  MaxTime = 4
SPECIFICATION KeeperFairSpec
INVARIANTS NoTokenIsMissed ListIsAlive
PROPERTIES TimeoutEnds
CHECK_DEADLOCK FALSE
