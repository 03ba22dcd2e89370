\* Two traders on a slab of four; the intervals keep the ratio of the code.
SPECIFICATION Spec
CONSTANTS
  I128_MAX = 63
  U64_MAX = 6
  BPS_DENOM = 10
  MAX_TOTAL_BPS_CEILING = 9
  E6 = 2
  DEFAULT_PASSIVE_SPREAD_BPS = 2
  MaxAccounts = 4
  NUM_TRADERS = 2
  DEPOSIT = 4
  BANK_RUN_INTERVAL = 3
  REVALIDATE_INTERVAL = 6
  ORACLE = 5
  TRADE_SIZE = 3
  Context <- MCContext
  MaxFaults = 1
  MaxChanges = 1
  MaxCapital = 10
INVARIANTS TypeOK FundedOnce
PROPERTIES StaleIsReplaced
