SPECIFICATION Spec
CONSTANTS
  MaxPage = 2
  Tx = 3
  Demotions = 1
  Losses = 2
  OrderedMetadata = TRUE
  Budget <- MCBudget
CHECK_DEADLOCK FALSE
INVARIANTS TypeOK OpenSucceeds LTXChain ReadersSeePos CommitNeverRefused
