\* The four scripts, a fault anywhere and a stranger who joins.
SPECIFICATION Spec
CONSTANTS
  Scripts <- AllScripts
  PAYER = payer
  STRANGER = stranger
  MaxSlot = 3
  BankUsers = 2
  MaxFaults = 1
  MaxJoins = 1
INVARIANTS TypeOK LeftOnlyByFaults DrillReturnsSlab
\* A script ends.
CHECK_DEADLOCK FALSE
