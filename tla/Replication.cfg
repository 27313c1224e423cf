SPECIFICATION RestartedSpec
CONSTANTS
  Node = {n1, n2, n3}
  None = None
  Tx = 6
  Grants = 2
  Expires = 1
  Crashes = 1
  Cuts = 1
  Drops = 1
  Reaps = 1
  QueueCap = 1
  Budget <- MCBudget
CHECK_DEADLOCK FALSE
INVARIANTS TypeOK PosMatchesContent ServerTracksReplica NoLostWakeup
PROPERTIES Converges
