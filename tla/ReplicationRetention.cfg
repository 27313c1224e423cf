SPECIFICATION Spec
CONSTANTS
  Node = {n1, n2}
  None = None
  Tx = 3
  Grants = 2
  Expires = 0
  Crashes = 1
  Cuts = 0
  Drops = 0
  Reaps = 1
  QueueCap = 1
  Budget <- MCBudget
SYMMETRY Symmetry
CHECK_DEADLOCK FALSE
INVARIANTS Recoverable
