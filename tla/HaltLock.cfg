SPECIFICATION UsedSpec
CONSTANTS
  None = None
  Replica = {r1}
  Handle = {h1, h2}
  Home <- OneReplica
  MaxTx = 2
  MaxGuard = 3
  MaxReq = 2
  MaxBreak = 1
CHECK_DEADLOCK FALSE
SYMMETRY Symmetry
INVARIANTS TypeOK HaltHasGuards
PROPERTIES HaltTaken KeptOnceForwarded BuildsOnWhatItHad
