\* Two runs at once, each of which may die anywhere, and a few commands.
SPECIFICATION Spec
CONSTANTS
  Slabs = {s1}
  PAYER = payer
  STRANGER = stranger
  ZERO = zero
  MaxAccounts = 2
  MaxFund = 2
  CAP_MULT = 2
  FUNDING = 1
  MaxCommands = 2
  CLI <- MCCLI
  Terminals = {t1, t2}
  Scripts = {"devnet", "max_risk", "mainnet", "bounty2", "burn"}
  MaxRuns = 3
INVARIANTS TypeOK AdminBurnedLast BurnedIsWhole ManifestTellsTheTruth SeededOnce
CHECK_DEADLOCK FALSE
SYMMETRY Alike
