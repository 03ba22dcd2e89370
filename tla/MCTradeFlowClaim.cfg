\* The README's claim: a wallet outside the allowlist cannot trade.
SPECIFICATION TradeSpec
CONSTANTS
  I128_MAX = 99
  U64_MAX = 9
  BPS_DENOM = 10
  MAX_TOTAL_BPS_CEILING = 9
  E6 = 2
  ALLOWLIST_MAX = 2
  zero = zero
  alice = alice
  bob = bob
  open = open
  closed = closed
  rogue = rogue
  ctxO = ctxO
  ctxC = ctxC
  ZERO_KEY = zero
  Ctxs = {ctxO, ctxC}
  Keys <- MCKeys
  Users <- MCUsers
  Lps <- MCLps
  Registered <- MCRegistered
  Deployed <- MCDeployed
  Prices = {4, 8, 9}
  Requests <- MCRequests
  MaxTrades = 2
INVARIANTS OnlyAllowlistedTrade
CHECK_DEADLOCK FALSE
