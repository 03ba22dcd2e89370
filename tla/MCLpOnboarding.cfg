\* Three clients, and others that come and go between any two of their steps.
SPECIFICATION Spec
CONSTANTS
  MaxAccounts = 4
  Strategies <- AllStrategies
  PAYER = payer
  OTHERS = other
  MaxRuns = 3
  MaxMoves = 5
INVARIANTS TypeOK FindsItsSlot ManifestIsTradeable
CHECK_DEADLOCK FALSE
