----------------------------- MODULE QuoteRouter -----------------------------
(***************************************************************************)
(* The two routers that quote an LP before anybody trades with it:         *)
(* best-price, a command that prints bid and ask of every LP, and the      *)
(* router of random-traders.ts, which quotes one side at the size of its   *)
(* trade and picks an LP.  Both read an LP's terms out of its matcher      *)
(* context, if it carries the magic of the upstream matcher; the Ballast   *)
(* matcher ports that one's arithmetic under a magic of its own.           *)
(* Prices are integers of oracle units, sizes of base units.               *)
(***************************************************************************)
EXTENDS MatcherPricing

CONSTANTS
  DEFAULT_PASSIVE_SPREAD_BPS  (* quoted for contexts they cannot read: 50  *)

ASSUME RouterAssumption == DEFAULT_PASSIVE_SPREAD_BPS \in 0 .. BPS_DENOM

(***************************************************************************)
(* What a router reads of a context: whether the account is there and long *)
(* enough, its magic, version and LP PDA, and terms.                       *)
(***************************************************************************)
MatcherParams(mode, fee, spread, max_total, k, liquidity) ==
  [mode |-> mode, fee |-> fee, spread |-> spread, max_total |-> max_total, k |-> k,
   liquidity |-> liquidity]

NoParams == MatcherParams(-1, 0, 0, 0, 0, 0)

ParamsOf(t) ==
  MatcherParams(t.kind, t.fee_bps, t.spread_bps, t.max_total_bps, t.impact_k_bps, t.liquidity)

(* "assuming passive 50bps".                                               *)
DefaultPassive ==
  MatcherParams(0, 0, DEFAULT_PASSIVE_SPREAD_BPS, DEFAULT_PASSIVE_SPREAD_BPS, 0, 0)

(* A context that is missing, short or bound to another LP is not quoted.  *)
fetchMatcherParams(context, lp) ==
  IF ~context.full THEN NoParams
  ELSE IF context.magic # "percmatc" \/ context.version # 3 THEN DefaultPassive
  ELSE IF context.lp_pda # lp THEN NoParams
  ELSE ParamsOf(context.terms)

(* best-price looks at the magic only, and falls back to a quote without a *)
(* cap where it reads nothing.                                             *)
Fallback == MatcherParams(0, 0, DEFAULT_PASSIVE_SPREAD_BPS, 0, 0, 0)

BestPriceParams(context) ==
  IF context.full /\ context.magic = "percmatc" THEN ParamsOf(context.terms) ELSE Fallback

-----------------------------------------------------------------------------
(***************************************************************************)
(* computeQuote of random-traders.ts: base fee, spread and, for a vAMM,    *)
(* the impact of the size asked for, under max_total.                      *)
(***************************************************************************)
QuoteImpact(p, oracle, size) ==
  IF p.mode = KIND_VAMM /\ p.liquidity > 0
  THEN (((Abs(size) * oracle) \div E6) * p.k) \div p.liquidity ELSE 0

QuoteBps(p, oracle, size) ==
  LET base == p.spread + p.fee
  IN  Lesser(base + Lesser(QuoteImpact(p, oracle, size), SaturatingSub(p.max_total, base)),
             p.max_total)

(* Mutant: a sell is quoted over the oracle, like a buy.                   *)
QuoteOfBuy(p, oracle, size, isLong) ==
  (oracle * Multiplier(QuoteBps(p, oracle, size), TRUE)) \div BPS_DENOM

computeQuote(p, oracle, size, isLong) ==
  (oracle * Multiplier(QuoteBps(p, oracle, size), isLong)) \div BPS_DENOM

(* computeQuote of best-price.ts: no impact, a cap only when there is one; *)
(* a bid is rounded down, an ask up.                                       *)
TotalEdgeBps(p) ==
  IF p.max_total > 0 THEN Lesser(p.fee + p.spread, p.max_total) ELSE p.fee + p.spread

Bid(p, oracle) == (oracle * (BPS_DENOM - TotalEdgeBps(p))) \div BPS_DENOM
Ask(p, oracle) == (oracle * (BPS_DENOM + TotalEdgeBps(p)) + BPS_DENOM - 1) \div BPS_DENOM

-----------------------------------------------------------------------------
(***************************************************************************)
(* Picking.  lps is the set of LPs, each with its index, its LP PDA, the   *)
(* context it names and its capital; the sort is stable, so that among     *)
(* equals the LP with the lowest index wins.                               *)
(***************************************************************************)
Better(isLong, a, b) == IF isLong THEN a <= b ELSE a >= b

Beats(isLong, q, r) ==
  IF q.price = r.price THEN q.index <= r.index ELSE Better(isLong, q.price, r.price)

Winner(quotes, isLong) == {q.index : q \in {p \in quotes : \A r \in quotes : Beats(isLong, p, r)}}

(* An LP whose context cannot be read, or without capital, is skipped; the *)
(* result is empty when no LP is left.                                     *)
findBestLp(lps, oracle, size, isLong) ==
  LET able == {lp \in lps : fetchMatcherParams(lp.context, lp.lp_pda) # NoParams /\ lp.capital > 0}
  IN  Winner({[index |-> lp.index,
               price |-> computeQuote(fetchMatcherParams(lp.context, lp.lp_pda), oracle, size, isLong)] :
                lp \in able}, isLong)
=============================================================================
