SPECIFICATION Spec
CONSTANTS
  MaxPage = 2
  Tx = 2
  Demotions = 0
  Losses = 1
  Clients = {"passive"}
  Budget <- MCBudget
CHECK_DEADLOCK FALSE
INVARIANTS OpenSucceeds
