--------------------------- MODULE MatcherPricing ---------------------------
(***************************************************************************)
(* The pure arithmetic of the Ballast matcher: how much of a request the   *)
(* LP takes and at which price.  Integers keep the widths of the Rust      *)
(* types; the release profile has overflow-checks = true, so an arithmetic *)
(* operation that leaves its type aborts the instruction, which is the     *)
(* error "Panic" here.                                                     *)
(***************************************************************************)
EXTENDS Integers

CONSTANTS
  I128_MAX,              (* largest i128; the code's is 2^127 - 1          *)
  U64_MAX,               (* largest u64; the code's is 2^64 - 1            *)
  BPS_DENOM,             (* basis points in one; the code's is 10 000      *)
  MAX_TOTAL_BPS_CEILING, (* ceiling of max_total_bps; the code's is 9 000  *)
  E6                     (* price scale; the code's is 1 000 000           *)

I128_MIN == -I128_MAX - 1
U128_MAX == 2 * I128_MAX + 1

I128 == I128_MIN .. I128_MAX
U128 == 0 .. U128_MAX
U64  == 0 .. U64_MAX

ASSUME WidthAssumption ==
  /\ I128_MAX \in Nat \ {0}
  /\ U64_MAX \in Nat \ {0}
  /\ E6 \in Nat \ {0}
  /\ BPS_DENOM \in Nat \ {0}
  /\ MAX_TOTAL_BPS_CEILING \in 0 .. BPS_DENOM - 1
  /\ 2 * BPS_DENOM * U64_MAX <= U128_MAX

KIND_PASSIVE == 0
KIND_VAMM    == 1

ALLOW_FILLS_NEVER == 0
ALLOW_FILLS_FILL  == 1

REJECTED_EXEC_PRICE == 1

Abs(x)           == IF x < 0 THEN -x ELSE x
Lesser(a, b)     == IF a <= b THEN a ELSE b
Clamp(x)         == IF x > I128_MAX THEN I128_MAX
                    ELSE IF x < I128_MIN THEN I128_MIN ELSE x
AsI128(u)        == IF u <= I128_MAX THEN u ELSE u - U128_MAX - 1
SaturatingSub(a, b) == IF a >= b THEN a - b ELSE 0

(***************************************************************************)
(* Terms of an LP, as process_init stores them.                            *)
(***************************************************************************)
Terms == [kind : Nat, allow_fills : Nat, fee_bps : Nat, spread_bps : Nat,
          max_total_bps : Nat, impact_k_bps : Nat, liquidity : U128,
          max_fill_abs : U128, max_inventory_abs : U128]

TermsOK(t) ==
  /\ t.kind \in {KIND_PASSIVE, KIND_VAMM}
  /\ t.allow_fills \in {ALLOW_FILLS_NEVER, ALLOW_FILLS_FILL}
  /\ t.max_total_bps <= MAX_TOTAL_BPS_CEILING
  /\ t.fee_bps + t.spread_bps <= t.max_total_bps
  /\ t.kind = KIND_VAMM => t.liquidity # 0

(***************************************************************************)
(* check_inventory_limit.  A taker's buy takes fill_abs out of the LP's    *)
(* inventory, a sell adds it.  WithinLimit is the early return; Room is    *)
(* what is left up to the cap on the side the request pushes towards.      *)
(***************************************************************************)
(* Mutant: the cap is compared after its cast to i128.                     *)
WithinCastLimit(inventory, cap, fill, is_buy) ==
  \/ cap = 0
  \/ Abs(Clamp(inventory + (IF is_buy THEN -AsI128(fill) ELSE AsI128(fill)))) <= AsI128(cap)

WithinLimit(inventory, cap, fill, is_buy) ==
  \/ cap = 0
  \/ Abs(Clamp(inventory + (IF is_buy THEN -AsI128(fill) ELSE AsI128(fill)))) <= cap

Room(inventory, cap, is_buy) ==
  IF is_buy THEN inventory + AsI128(cap) ELSE AsI128(cap) - inventory

(* Mutant: the room is the whole cap, whatever the LP already holds.       *)
LimitOfEmptyBook(inventory, cap, fill, is_buy) ==
  IF WithinLimit(inventory, cap, fill, is_buy) THEN fill ELSE Lesser(fill, AsI128(cap))

check_inventory_limit(inventory, cap, fill, is_buy) ==
  IF WithinLimit(inventory, cap, fill, is_buy) THEN fill
  ELSE IF Room(inventory, cap, is_buy) <= 0 THEN 0
  ELSE Lesser(fill, Abs(Room(inventory, cap, is_buy)))

(* The overflow traps of the same function: negating fill_abs or the cap,  *)
(* and the two sums that compute Room.                                     *)
LimitTraps(inventory, cap, fill, is_buy) ==
  \/ cap # 0 /\ is_buy /\ -AsI128(fill) \notin I128
  \/ /\ ~WithinLimit(inventory, cap, fill, is_buy)
     /\ \/ is_buy /\ -AsI128(cap) \notin I128
        \/ /\ Room(inventory, cap, is_buy) > 0
           /\ Room(inventory, cap, is_buy) \notin I128

(***************************************************************************)
(* The size of a fill: the request, cut to max_fill_abs, cut to the        *)
(* inventory cap.                                                          *)
(***************************************************************************)
CappedRequest(t, size) ==
  IF t.max_fill_abs = 0 THEN 0 ELSE Lesser(Abs(size), t.max_fill_abs)

FillAbs(t, inventory, size) ==
  check_inventory_limit(inventory, t.max_inventory_abs, CappedRequest(t, size), size > 0)

(***************************************************************************)
(* The price of a fill, in basis points over or under the oracle.          *)
(***************************************************************************)
PassiveBps(t) == Lesser(t.max_total_bps, t.spread_bps + t.fee_bps)

Notional(fill, oracle) == (fill * oracle) \div E6

ImpactBps(t, fill, oracle) ==
  IF t.liquidity > 0 THEN (Notional(fill, oracle) * t.impact_k_bps) \div t.liquidity ELSE 0

VammBps(t, fill, oracle) ==
  LET max_impact == SaturatingSub(SaturatingSub(t.max_total_bps, t.spread_bps), t.fee_bps)
  IN  Lesser(t.max_total_bps,
             t.spread_bps + t.fee_bps + Lesser(ImpactBps(t, fill, oracle), max_impact))

(* Mutant: the impact is added without its bounds.                         *)
UnboundedBps(t, fill, oracle) == t.spread_bps + t.fee_bps + ImpactBps(t, fill, oracle)

TotalBps(t, fill, oracle) ==
  IF t.kind = KIND_PASSIVE THEN PassiveBps(t) ELSE VammBps(t, fill, oracle)

Multiplier(bps, is_buy) == IF is_buy THEN BPS_DENOM + bps ELSE BPS_DENOM - bps

ExecPrice(oracle, bps, is_buy) == (oracle * Multiplier(bps, is_buy)) \div BPS_DENOM

(* Mutant: the price is cast to u64 without the final range check.         *)
OnlyProductsOverflow(t, fill, oracle, is_buy) ==
  \/ t.kind = KIND_VAMM /\ Notional(fill, oracle) * t.impact_k_bps > U128_MAX
  \/ oracle * Multiplier(TotalBps(t, fill, oracle), is_buy) > U128_MAX

(* checked_mul and the final range check of the price.                     *)
PriceOverflows(t, fill, oracle, is_buy) ==
  LET bps   == TotalBps(t, fill, oracle)
      price == ExecPrice(oracle, bps, is_buy)
  IN  \/ t.kind = KIND_VAMM /\ fill * oracle > U128_MAX
      \/ t.kind = KIND_VAMM /\ Notional(fill, oracle) * t.impact_k_bps > U128_MAX
      \/ oracle * Multiplier(bps, is_buy) > U128_MAX
      \/ price = 0
      \/ price > U64_MAX

(***************************************************************************)
(* compute_passive_fill and compute_vamm_fill, which differ in TotalBps    *)
(* only.  The result is an outcome: an error, or the return the LP gives.  *)
(***************************************************************************)
Outcome(err, kind, price, size) ==
  [err |-> err, kind |-> kind, exec_price |-> price, exec_size |-> size]

Failed(err)      == Outcome(err, "none", 0, 0)
Rejected         == Outcome("Ok", "rejected", REJECTED_EXEC_PRICE, 0)
ZeroFill(oracle) == Outcome("Ok", "zero_fill", oracle, 0)
Filled(price, size) == Outcome("Ok", "filled", price, size)

ComputeFill(t, inventory, oracle, size) ==
  LET is_buy == size > 0
      fill   == FillAbs(t, inventory, size)
      bps    == TotalBps(t, fill, oracle)
  IN  IF oracle = 0 \/ size = I128_MIN THEN Failed("InvalidInstructionData")
      ELSE IF ~TermsOK(t) THEN Failed("InvalidAccountData")
      ELSE IF LimitTraps(inventory, t.max_inventory_abs, CappedRequest(t, size), is_buy)
           THEN Failed("Panic")
      ELSE IF fill = 0 THEN ZeroFill(oracle)
      ELSE IF Multiplier(bps, is_buy) < 0 THEN Failed("Panic")
      ELSE IF PriceOverflows(t, fill, oracle, is_buy) THEN Failed("ArithmeticOverflow")
      ELSE Filled(ExecPrice(oracle, bps, is_buy), IF is_buy THEN fill ELSE -fill)
=============================================================================
