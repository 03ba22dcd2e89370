-------------------------- MODULE MCBallastMatcher --------------------------
(***************************************************************************)
(* Small instances of BallastMatcher: the widths, the LPs' terms and the   *)
(* requests of the runs.                                                   *)
(***************************************************************************)
EXTENDS QuotedFills

CONSTANTS zero, lpA, lpB

MCKeys == {zero, lpA, lpB}

TermsOf(kind, allow, fee, spread, max_total, k, liq, fill, cap) ==
  [kind |-> kind, allow_fills |-> allow, fee_bps |-> fee, spread_bps |-> spread,
   max_total_bps |-> max_total, impact_k_bps |-> k, liquidity |-> liq,
   max_fill_abs |-> fill, max_inventory_abs |-> cap]

NoSlots   == [i \in 1 .. ALLOWLIST_MAX |-> zero]
Payload(t) == [framed |-> TRUE, terms |-> t, allowlist_count |-> 0, allowlist |-> NoSlots]

(* A passive LP with a cap its per-call limit does not divide, which stays *)
(* within the routers' default, a vAMM LP with a cap, which starts at it,  *)
(* a closed one, and payloads Init refuses: terms over their ceiling, a    *)
(* vAMM without liquidity, a passive LP with impact, an unused allowlist   *)
(* slot that is not zero, a bad frame.                                     *)
Passive  == TermsOf(0, 1, 1, 0, 2, 0, 0, 3, 5)
Vamm     == TermsOf(1, 1, 1, 1, 5, 4, 4, 4, 6)
Closed   == TermsOf(0, 0, 1, 1, 4, 0, 0, 3, 5)
Uncapped == TermsOf(0, 1, 0, 2, 2, 0, 0, U128_MAX, 0)
Widest   == [Uncapped EXCEPT !.max_inventory_abs = I128_MAX - 1]
AtMax    == [Uncapped EXCEPT !.max_inventory_abs = I128_MAX]
TooWide  == [Uncapped EXCEPT !.max_inventory_abs = I128_MAX + 1]

MCPayloads ==
  {Payload(Passive), Payload(Vamm), Payload(Closed),
   Payload([Passive EXCEPT !.max_total_bps = BPS_DENOM]),
   Payload([Passive EXCEPT !.fee_bps = 4]),
   Payload([Vamm EXCEPT !.liquidity = 0]),
   Payload([Passive EXCEPT !.impact_k_bps = 1]),
   [Payload(Passive) EXCEPT !.allowlist[1] = lpB],
   [Payload(Passive) EXCEPT !.framed = FALSE]}

Call(id, oracle, size) == [framed |-> TRUE, id |-> id, oracle |-> oracle, size |-> size]

(* Requests in and out of every cap, and calls Match refuses.              *)
MCCalls ==
  {Call(1, 5, s) : s \in {-2, 4}} \cup {Call(2, 3, s) : s \in {I128_MIN, -7, 0, 1}}
  \cup {Call(1, 0, 1), Call(2, U64_MAX, 4), Call(2, 1, -2),
        [Call(1, 5, 1) EXCEPT !.framed = FALSE]}

(* Caps at the edge of i128 and requests that cross it: an inventory of    *)
(* any size is a few calls away.                                           *)
WidePayloads == {Payload(Uncapped), Payload(Widest), Payload(AtMax), Payload(TooWide)}
WideCalls    == {Call(1, 5, s) : s \in {I128_MAX, -I128_MAX, -25, 9}}

=============================================================================
