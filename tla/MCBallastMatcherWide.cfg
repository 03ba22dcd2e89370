\* One context whose cap is at or beyond the edge of i128.
SPECIFICATION Spec
CONSTANTS
  I128_MAX = 63
  U64_MAX = 6
  BPS_DENOM = 10
  MAX_TOTAL_BPS_CEILING = 9
  E6 = 2
  DEFAULT_PASSIVE_SPREAD_BPS = 2
  ALLOWLIST_MAX = 2
  zero = zero
  lpA = lpA
  lpB = lpB
  ZERO_KEY = zero
  Ctxs = {c1}
  Keys <- MCKeys
  InitPayloads <- WidePayloads
  MatchCalls <- WideCalls
INVARIANTS NeverPanics
PROPERTIES FillsAreExact
