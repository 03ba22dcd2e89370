\* One reader at a time against a market of up to three units.
SPECIFICATION Spec
CONSTANTS
  Funds = 2
  CapMult = 2
INVARIANTS TypeOK AlarmsAreReal
PROPERTIES BreakIsReported StallIsReported
