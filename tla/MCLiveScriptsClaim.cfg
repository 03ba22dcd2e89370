\* The bank run, undisturbed.
SPECIFICATION Spec
CONSTANTS
  Scripts <- Drills
  PAYER = payer
  STRANGER = stranger
  MaxSlot = 3
  BankUsers = 2
  MaxFaults = 0
  MaxJoins = 0
INVARIANTS SaidClosedIsClosed
CHECK_DEADLOCK FALSE
