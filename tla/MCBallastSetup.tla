--------------------------- MODULE MCBallastSetup ---------------------------
(* Small instances of BallastSetup.  Operators are interchangeable.         *)
EXTENDS BallastSetup, TLC

CONSTANTS op1, op2
TwoOperators == {op1, op2}
Symmetry     == Permutations(TwoOperators)
=============================================================================
