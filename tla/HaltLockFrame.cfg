SPECIFICATION FairSpec
CONSTANTS
  None = None
  Replica = {r1}
  Handle = {h1}
  Home <- OneReplica
  MaxTx = 1
  MaxGuard = 1
  MaxReq = 1
  MaxBreak = 0
CHECK_DEADLOCK FALSE
PROPERTIES FrameUnhalts
