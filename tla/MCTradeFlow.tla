---------------------------- MODULE MCTradeFlow ----------------------------
(***************************************************************************)
(* Two users and three LPs: an open one bound to its context, a closed one *)
(* bound to its own, and one that gave InitLP the context of the first.    *)
(***************************************************************************)
EXTENDS TradeFlow

CONSTANTS zero, alice, bob, open, closed, rogue, ctxO, ctxC

MCUsers == {alice, bob}
MCLps   == {open, closed, rogue}
MCKeys  == {zero} \cup MCUsers \cup MCLps
MCRegistered == [lp \in MCLps |-> IF lp = closed THEN ctxC ELSE ctxO]

MCTerms(allow) ==
  [kind |-> 0, allow_fills |-> allow, fee_bps |-> 1, spread_bps |-> 1, max_total_bps |-> 4,
   impact_k_bps |-> 0, liquidity |-> 0, max_fill_abs |-> 2, max_inventory_abs |-> 3]

(* alice is on the allowlist of every context.                             *)
MCPayload(allow) ==
  [framed |-> TRUE, terms |-> MCTerms(allow), allowlist_count |-> 1,
   allowlist |-> [i \in 1 .. ALLOWLIST_MAX |-> IF i = 1 THEN alice ELSE zero]]

MCDeployed == [c \in {ctxO, ctxC} |-> IF c = ctxO THEN [lp |-> open, payload |-> MCPayload(1)]
                                      ELSE [lp |-> closed, payload |-> MCPayload(0)]]

Cpi(user, lp, size, limit) ==
  [kind |-> "cpi", user |-> user, lp |-> lp, size |-> size, limit |-> limit, max |-> 0,
   min |-> 0, ctx |-> MCRegistered[lp], oracle |-> "given", signs |-> FALSE,
   simulate |-> FALSE]

NoCpi(user, lp, size, max, min) ==
  [Cpi(user, lp, size, 0) EXCEPT !.kind = "nocpi", !.max = max, !.min = min, !.signs = TRUE]

(* Fills in full and in part, with a limit the price moves across, through *)
(* a wrong context, a foreign one and a closed door, without an oracle,    *)
(* signed by the LP or not, and simulated.                                 *)
MCRequests ==
  {Cpi(alice, open, 2, 5), Cpi(bob, open, -2, 5), Cpi(bob, closed, 1, 0),
   Cpi(bob, rogue, 1, 0), [Cpi(bob, open, 1, 0) EXCEPT !.ctx = ctxC],
   [Cpi(alice, open, 1, 0) EXCEPT !.oracle = "none"],
   [Cpi(alice, open, 1, 0) EXCEPT !.simulate = TRUE],
   NoCpi(alice, open, 1, 4, 0), NoCpi(bob, open, -1, 0, 6),
   [NoCpi(bob, closed, 1, 0, 0) EXCEPT !.signs = FALSE]}
=============================================================================
