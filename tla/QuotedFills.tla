----------------------------- MODULE QuotedFills -----------------------------
(***************************************************************************)
(* The matcher program and the routers, put together: what a taker was     *)
(* told of a Ballast LP against what the matcher answers.  The program     *)
(* stamps its contexts with a magic and a version of its own, which        *)
(* neither router knows: its LPs are quoted at the default, whatever they  *)
(* charge.                                                                 *)
(***************************************************************************)
EXTENDS BallastMatcher, QuoteRouter

(* A context of the program as a router reads it.                          *)
AsRead(a) ==
  [full |-> a.full, magic |-> a.magic, version |-> 1, lp_pda |-> a.lp_pda, terms |-> a.terms]

(* What a quote of a Ballast LP is worth to the taker who acts on it: no   *)
(* fill is worse than random-traders quoted it, nor than the bid or ask    *)
(* best-price printed, when the LP's max_total_bps is within the default   *)
(* of 50 bps; and none is better than the quote when the LP's fee and      *)
(* spread alone come to the default, however small a part of the request   *)
(* its caps leave and whatever its impact.  Of an LP whose charges start   *)
(* under the default and may pass it, the quote says neither.              *)
DefaultQuoteBounds ==
  last.op = "match" /\ last.err = "Ok" /\ acct[last.ctx].ret.kind = "filled" =>
    LET a       == acct[last.ctx]
        oracle  == last.call.oracle
        isLong  == last.call.size > 0
        level   == a.ret.exec_price
        quote   == computeQuote(fetchMatcherParams(AsRead(a), a.lp_pda), oracle, last.call.size, isLong)
        printed == IF isLong THEN Ask(BestPriceParams(AsRead(a)), oracle)
                             ELSE Bid(BestPriceParams(AsRead(a)), oracle)
    IN  /\ a.terms.max_total_bps <= DEFAULT_PASSIVE_SPREAD_BPS =>
             Better(isLong, level, quote) /\ Better(isLong, level, printed)
        /\ a.terms.fee_bps + a.terms.spread_bps >= DEFAULT_PASSIVE_SPREAD_BPS =>
             Better(isLong, quote, level)
=============================================================================
