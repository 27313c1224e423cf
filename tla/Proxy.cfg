SPECIFICATION FairSpec
CONSTANTS
  Node = {n1, n2}
  None = None
  Client = {a}
  Request = {a1, a2}
  Owner <- Overlap
  MaxTx = 2
  MaxOutage = 1
INVARIANTS TypeOK 
PROPERTIES Answered
