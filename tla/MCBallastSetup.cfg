\* Two operators, two runs, each of which may die anywhere.
SPECIFICATION Spec
CONSTANTS
  op1 = op1
  op2 = op2
  Operators <- TwoOperators
  MaxRuns = 2
  INSURANCE = 5
  WRAP = 6
SYMMETRY Symmetry
INVARIANTS TypeOK ConfigNamesCrankedSlab ManifestIsFunded WrapsTheShortfall
PROPERTIES ReplacedOnlyByForce
CHECK_DEADLOCK FALSE
