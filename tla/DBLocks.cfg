SPECIFICATION Spec
CONSTANTS
  Client = {c1, c2}
  Writer = {w}
  Exporter = {x}
  Guard = {c1, c2, w, x}
  NoGuard = NoGuard
  NReads = 3
  MaxTx = 1
  Optional = {"restart"}
SYMMETRY Symmetry
INVARIANTS TypeOK WriteLockExcludes BeliefHolds ClosedMeansFree
PROPERTIES AppropriateLocks ExportStable
