SPECIFICATION FairSpec
CONSTANTS
  Guard = {g1, g2, g3}
  NoGuard = NoGuard
INVARIANTS TypeOK NoAssertionFails QueryAgreesWithTry
PROPERTIES ImplementsPosixLock PollReturns
