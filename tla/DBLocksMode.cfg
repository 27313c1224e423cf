SPECIFICATION Spec
CONSTANTS
  Client = {c1}
  Writer = {w}
  Exporter = {}
  Guard = {c1, w}
  NoGuard = NoGuard
  NReads = 2
  MaxTx = 1
  Optional = {"leave"}
CHECK_DEADLOCK FALSE
PROPERTIES AppropriateLocks
