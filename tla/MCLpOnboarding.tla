--------------------------- MODULE MCLpOnboarding ---------------------------
(* Small instance of LpOnboarding: four slots, three runs, five moves.      *)
EXTENDS LpOnboarding

AllStrategies == {"first_free", "difference", "last"}
=============================================================================
