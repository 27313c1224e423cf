SPECIFICATION Spec
CONSTANTS
  None = None
  Replica = {r1}
  Handle = {h1}
  Home <- OneReplica
  MaxTx = 2
  MaxGuard = 1
  MaxReq = 1
  MaxBreak = 1
CHECK_DEADLOCK FALSE
INVARIANTS NoLostUpdate
