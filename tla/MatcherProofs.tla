---------------------------- MODULE MatcherProofs ----------------------------
(***************************************************************************)
(* What the matcher's arithmetic computes, bounds and never does, and what *)
(* Init and Match leave of a context account.  The matcher keeps its       *)
(* promises for every width, every set of contexts and keys, every Init    *)
(* payload and every Match request, and what the routers' default says of  *)
(* its fills is as far as a quote goes.  In a trade the two books stay     *)
(* together, prices asked for hold and a success was executed, for every   *)
(* set of wallets, LPs and contexts, every way LPs are registered and any  *)
(* number of trades.                                                       *)
(***************************************************************************)
EXTENDS QuotedFills, TradeFlow, TLAPS

(* A book that check_inventory_limit may be asked about.                   *)
BookOK(inventory, cap) ==
  /\ inventory \in I128
  /\ cap \in U128
  /\ cap # 0 => Abs(inventory) <= cap

(* check_inventory_limit never returns more than it was asked, and the     *)
(* inventory it leaves is inside the cap.                                  *)
LEMMA LimitKeepsCap ==
  ASSUME NEW inventory, NEW cap, NEW fill \in 0 .. I128_MAX, NEW is_buy \in BOOLEAN,
         BookOK(inventory, cap)
  PROVE  LET f == check_inventory_limit(inventory, cap, fill, is_buy)
         IN  /\ f \in 0 .. fill
             /\ cap # 0 => Abs(Clamp(IF is_buy THEN inventory - f ELSE inventory + f)) <= cap
<1> DEFINE f == check_inventory_limit(inventory, cap, fill, is_buy)
<1>1. inventory \in Int /\ cap \in Nat /\ fill \in Nat /\ I128_MAX \in Nat
  BY WidthAssumption DEF BookOK, I128, U128, U128_MAX, I128_MIN
<1>2. AsI128(fill) = fill
  BY <1>1 DEF AsI128
<1> DEFINE Goal == /\ f \in 0 .. fill
                   /\ cap # 0 => Abs(Clamp(IF is_buy THEN inventory - f ELSE inventory + f)) <= cap
<1> SUFFICES Goal
  OBVIOUS
<1>3. CASE WithinLimit(inventory, cap, fill, is_buy)
  <2>1. f = fill
    BY <1>3 DEF check_inventory_limit
  <2> HIDE DEF f
  <2> QED BY <1>1, <1>2, <1>3, <2>1 DEF WithinLimit, Abs, Clamp, I128_MIN
<1>4. CASE ~WithinLimit(inventory, cap, fill, is_buy)
  <2>1. cap # 0 /\ Abs(inventory) <= cap
    BY <1>4 DEF WithinLimit, BookOK
  <2>2. cap <= I128_MAX
    <3>1. SUFFICES ASSUME cap > I128_MAX PROVE FALSE
      BY <1>1
    <3> DEFINE x == inventory + (IF is_buy THEN -AsI128(fill) ELSE AsI128(fill))
    <3>2. x \in Int
      BY <1>1, <1>2
    <3>3. Abs(Clamp(x)) <= I128_MAX + 1 /\ Abs(Clamp(x)) \in Nat
      <4> HIDE DEF x
      <4> QED BY <1>1, <3>2 DEF Abs, Clamp, I128_MIN
    <3> QED BY <1>1, <1>4, <3>1, <3>3 DEF WithinLimit
  <2>3. AsI128(cap) = cap
    BY <2>2 DEF AsI128
  <2>4. Room(inventory, cap, is_buy) = IF is_buy THEN inventory + cap ELSE cap - inventory
    BY <2>3 DEF Room
  <2>5. Room(inventory, cap, is_buy) \in Nat
    BY <1>1, <2>1, <2>4 DEF Abs
  <2>6. f = IF Room(inventory, cap, is_buy) = 0 THEN 0
            ELSE Lesser(fill, Room(inventory, cap, is_buy))
    BY <1>4, <2>5 DEF check_inventory_limit, Abs
  <2>7. f \in 0 .. fill /\ f <= Room(inventory, cap, is_buy)
    BY <1>1, <2>5, <2>6 DEF Lesser
  <2> HIDE DEF f
  <2>8. CASE is_buy
    BY <1>1, <2>1, <2>2, <2>4, <2>7, <2>8 DEF Abs, Clamp, I128_MIN
  <2>9. CASE ~is_buy
    BY <1>1, <2>1, <2>2, <2>4, <2>7, <2>9 DEF Abs, Clamp, I128_MIN
  <2> QED BY <2>7, <2>8, <2>9
<1> QED BY <1>3, <1>4

(* No sum or negation in check_inventory_limit leaves its type, although   *)
(* none of them is checked: the early return shields the widest caps, and  *)
(* the room up to a cap is less than the request that did not fit.         *)
LEMMA LimitNeverTraps ==
  ASSUME NEW inventory, NEW cap, NEW fill \in 0 .. I128_MAX, NEW is_buy \in BOOLEAN,
         BookOK(inventory, cap)
  PROVE  ~LimitTraps(inventory, cap, fill, is_buy)
<1>1. inventory \in Int /\ cap \in Nat /\ fill \in Nat /\ I128_MAX \in Nat
  BY WidthAssumption DEF BookOK, I128, U128, U128_MAX, I128_MIN
<1>2. AsI128(fill) = fill
  BY <1>1 DEF AsI128
<1>3. -AsI128(fill) \in I128
  BY <1>1, <1>2 DEF I128, I128_MIN
<1>4. CASE WithinLimit(inventory, cap, fill, is_buy)
  BY <1>3, <1>4 DEF LimitTraps
<1>5. CASE ~WithinLimit(inventory, cap, fill, is_buy)
  <2>1. cap # 0 /\ Abs(inventory) <= cap
    BY <1>5 DEF WithinLimit, BookOK
  <2>2. cap <= I128_MAX
    <3>1. SUFFICES ASSUME cap > I128_MAX PROVE FALSE
      BY <1>1
    <3> DEFINE x == inventory + (IF is_buy THEN -AsI128(fill) ELSE AsI128(fill))
    <3>2. x \in Int
      BY <1>1, <1>2
    <3>3. Abs(Clamp(x)) <= I128_MAX + 1 /\ Abs(Clamp(x)) \in Nat
      <4> HIDE DEF x
      <4> QED BY <1>1, <3>2 DEF Abs, Clamp, I128_MIN
    <3> QED BY <1>1, <1>5, <3>1, <3>3 DEF WithinLimit
  <2>3. AsI128(cap) = cap
    BY <2>2 DEF AsI128
  <2>4. -AsI128(cap) \in I128
    BY <1>1, <2>2, <2>3 DEF I128, I128_MIN
  <2>5. Room(inventory, cap, is_buy) \in I128
    <3>1. CASE is_buy
      <4>1. Abs(Clamp(inventory - fill)) > cap
        BY <1>1, <1>2, <1>5, <2>1, <3>1 DEF WithinLimit, Abs, Clamp, I128_MIN
      <4>2. inventory + cap <= fill
        BY <1>1, <2>1, <2>2, <4>1 DEF Abs, Clamp, I128_MIN
      <4> QED BY <1>1, <2>1, <2>3, <3>1, <4>2 DEF Room, Abs, I128, I128_MIN
    <3>2. CASE ~is_buy
      <4>1. Abs(Clamp(inventory + fill)) > cap
        BY <1>1, <1>2, <1>5, <2>1, <3>2 DEF WithinLimit, Abs, Clamp, I128_MIN
      <4>2. cap - inventory <= fill
        BY <1>1, <2>1, <2>2, <4>1 DEF Abs, Clamp, I128_MIN
      <4> QED BY <1>1, <2>1, <2>3, <3>2, <4>2 DEF Room, Abs, I128, I128_MIN
    <3> QED BY <3>1, <3>2
  <2> QED BY <1>3, <2>4, <2>5 DEF LimitTraps
<1> QED BY <1>4, <1>5

(* Integer division rounds down by less than one unit.                     *)
LEMMA FloorDivision ==
  ASSUME NEW x \in Nat, NEW d \in Nat \ {0}
  PROVE  /\ x \div d \in Nat
         /\ d * (x \div d) <= x
         /\ x < d * (x \div d) + d
<1>1. x = d * (x \div d) + (x % d) /\ x % d \in 0 .. d - 1 /\ x \div d \in Int
  OBVIOUS
<1> DEFINE q == x \div d
           r == x % d
<1>2. q \in Int /\ r \in 0 .. d - 1 /\ x = d * q + r
  BY <1>1
<1> HIDE DEF q, r
<1>3. q >= 0
  <2>1. SUFFICES ASSUME q + 1 <= 0 PROVE FALSE
    BY <1>2
  <2>2. d * (q + 1) <= 0
    BY <1>2, <2>1
  <2>3. d * q + d <= 0
    BY <1>2, <2>2
  <2> QED BY <1>2, <2>3
<1>4. q \in Nat /\ d * q <= x /\ x < d * q + d
  <2>1. d * q \in Int
    BY <1>2
  <2> QED BY <1>2, <1>3, <2>1
<1> QED BY <1>4 DEF q

(* Products and quotients of naturals are naturals.                        *)
LEMMA NatProduct ==
  ASSUME NEW a \in Nat, NEW b \in Nat
  PROVE  a * b \in Nat
OBVIOUS

(* Impact included, the spread an LP charges is its fee and spread at      *)
(* least, and never passes its own maximum, and so never the ceiling.      *)
LEMMA TotalWithinMax ==
  ASSUME NEW t \in Terms, TermsOK(t), NEW fill \in Nat, NEW oracle \in Nat
  PROVE  /\ TotalBps(t, fill, oracle) \in 0 .. t.max_total_bps
         /\ t.fee_bps + t.spread_bps <= TotalBps(t, fill, oracle)
<1>1. /\ t.max_total_bps \in Nat /\ t.spread_bps \in Nat /\ t.fee_bps \in Nat
      /\ t.impact_k_bps \in Nat /\ t.liquidity \in Nat
      /\ t.fee_bps + t.spread_bps <= t.max_total_bps
  BY DEF Terms, TermsOK, U128
<1>2. ImpactBps(t, fill, oracle) \in Nat
  <2>1. fill * oracle \in Nat
    BY NatProduct
  <2>2. Notional(fill, oracle) \in Nat
    BY <2>1, FloorDivision, WidthAssumption DEF Notional
  <2>3. Notional(fill, oracle) * t.impact_k_bps \in Nat
    BY <1>1, <2>2, NatProduct
  <2> HIDE DEF Notional
  <2> QED BY <1>1, <2>3, FloorDivision DEF ImpactBps
<1> HIDE DEF ImpactBps
<1>3. SaturatingSub(SaturatingSub(t.max_total_bps, t.spread_bps), t.fee_bps) \in Nat
  BY <1>1 DEF SaturatingSub
<1> DEFINE impact == Lesser(ImpactBps(t, fill, oracle),
                            SaturatingSub(SaturatingSub(t.max_total_bps, t.spread_bps), t.fee_bps))
<1>4. impact \in Nat
  BY <1>2, <1>3 DEF Lesser
<1>5. VammBps(t, fill, oracle) = Lesser(t.max_total_bps, t.spread_bps + t.fee_bps + impact)
  BY DEF VammBps
<1> HIDE DEF impact
<1>6. /\ VammBps(t, fill, oracle) \in 0 .. t.max_total_bps
      /\ t.fee_bps + t.spread_bps <= VammBps(t, fill, oracle)
  BY <1>1, <1>4, <1>5 DEF Lesser
<1>7. /\ PassiveBps(t) \in 0 .. t.max_total_bps
      /\ t.fee_bps + t.spread_bps <= PassiveBps(t)
  BY <1>1 DEF PassiveBps, Lesser
<1> QED BY <1>6, <1>7 DEF TotalBps

(* A price is on the LP's side of the oracle and within bps of it, up to   *)
(* the unit that rounding a sell down may cost.                            *)
LEMMA PriceBand ==
  ASSUME NEW oracle \in Nat, NEW bps \in 0 .. BPS_DENOM, NEW is_buy \in BOOLEAN
  PROVE  LET level == ExecPrice(oracle, bps, is_buy)
         IN  /\ level \in Nat
             /\ is_buy => /\ level >= oracle
                          /\ BPS_DENOM * (level - oracle) <= oracle * bps
             /\ ~is_buy => /\ level <= oracle
                           /\ BPS_DENOM * (oracle - level) < oracle * bps + BPS_DENOM
<1>1. BPS_DENOM \in Nat \ {0} /\ bps \in Nat
  BY WidthAssumption
<1> DEFINE level == ExecPrice(oracle, bps, is_buy)
           x == oracle * Multiplier(bps, is_buy)
<1>2. Multiplier(bps, is_buy) \in Nat
  BY <1>1 DEF Multiplier
<1>3. x \in Nat
  BY <1>2, NatProduct
<1>4. level = x \div BPS_DENOM
  BY DEF ExecPrice
<1>5. x = IF is_buy THEN BPS_DENOM * oracle + oracle * bps ELSE BPS_DENOM * oracle - oracle * bps
  BY <1>1 DEF Multiplier
<1>6. oracle * bps \in Nat /\ BPS_DENOM * oracle \in Nat
  BY <1>1, NatProduct
<1> HIDE DEF x, level
<1>7. /\ level \in Nat
      /\ BPS_DENOM * level <= x
      /\ x < BPS_DENOM * level + BPS_DENOM
  BY <1>1, <1>3, <1>4, FloorDivision
<1>8. BPS_DENOM * (level - oracle) = BPS_DENOM * level - BPS_DENOM * oracle
  BY <1>1, <1>7
<1>9. BPS_DENOM * (oracle - level) = BPS_DENOM * oracle - BPS_DENOM * level
  BY <1>1, <1>7
<1>10. is_buy => level >= oracle
  <2>1. SUFFICES ASSUME is_buy, level + 1 <= oracle PROVE FALSE
    BY <1>7
  <2>2. BPS_DENOM * (level + 1) <= BPS_DENOM * oracle
    BY <1>1, <1>7, <2>1
  <2>3. BPS_DENOM * level + BPS_DENOM <= BPS_DENOM * oracle
    BY <1>1, <1>7, <2>2
  <2> QED BY <1>1, <1>5, <1>6, <1>7, <2>1, <2>3
<1>11. ~is_buy => level <= oracle
  <2>1. SUFFICES ASSUME ~is_buy, oracle + 1 <= level PROVE FALSE
    BY <1>7
  <2>2. BPS_DENOM * (oracle + 1) <= BPS_DENOM * level
    BY <1>1, <1>7, <2>1
  <2>3. BPS_DENOM * oracle + BPS_DENOM <= BPS_DENOM * level
    BY <1>1, <1>7, <2>2
  <2> QED BY <1>1, <1>5, <1>6, <1>7, <2>1, <2>3
<1> QED
  <2>1. is_buy => BPS_DENOM * (level - oracle) <= oracle * bps
    BY <1>1, <1>5, <1>6, <1>7, <1>8
  <2>2. ~is_buy => BPS_DENOM * (oracle - level) < oracle * bps + BPS_DENOM
    BY <1>1, <1>5, <1>6, <1>7, <1>9
  <2>3. /\ level \in Nat
        /\ is_buy => /\ level >= oracle
                     /\ BPS_DENOM * (level - oracle) <= oracle * bps
        /\ ~is_buy => /\ level <= oracle
                      /\ BPS_DENOM * (oracle - level) < oracle * bps + BPS_DENOM
    BY <1>7, <1>10, <1>11, <2>1, <2>2
  <2> QED BY <2>3 DEF level

(* The request that reaches the inventory check fits an i128 and respects  *)
(* the per-call limit.                                                     *)
LEMMA CappedRequestBound ==
  ASSUME NEW t \in Terms, NEW size \in I128, size # I128_MIN
  PROVE  /\ CappedRequest(t, size) \in 0 .. I128_MAX
         /\ CappedRequest(t, size) <= Abs(size)
         /\ CappedRequest(t, size) <= t.max_fill_abs
<1>1. I128_MAX \in Nat /\ t.max_fill_abs \in Nat
  BY WidthAssumption DEF Terms, U128
<1>2. Abs(size) \in 0 .. I128_MAX
  BY <1>1 DEF I128, I128_MIN, Abs
<1> HIDE DEF Abs
<1> QED BY <1>1, <1>2 DEF CappedRequest, Lesser

(* What a fill may be: an answer to the request, priced within the band.   *)
FillOK(out, t, inventory, oracle, size) ==
  /\ out.kind \in {"rejected", "zero_fill", "filled"}
  /\ out.exec_price \in U64
  /\ IF size > 0 THEN out.exec_size \in 0 .. size ELSE out.exec_size \in size .. 0
  /\ Abs(out.exec_size) <= t.max_fill_abs
  /\ t.max_inventory_abs # 0 =>
       Abs(Clamp(inventory - out.exec_size)) <= t.max_inventory_abs
  /\ out.exec_size > 0 =>
       /\ out.exec_price >= oracle
       /\ BPS_DENOM * (out.exec_price - oracle) <= oracle * t.max_total_bps
  /\ out.exec_size < 0 =>
       /\ out.exec_price <= oracle
       /\ BPS_DENOM * (oracle - out.exec_price) < oracle * t.max_total_bps + BPS_DENOM

(* compute_passive_fill and compute_vamm_fill never trap, and what they    *)
(* return is a fill that FillOK describes.                                 *)
LEMMA ComputeFillSound ==
  ASSUME NEW t \in Terms, TermsOK(t), NEW inventory, BookOK(inventory, t.max_inventory_abs),
         NEW oracle \in U64, NEW size \in I128
  PROVE  LET out == ComputeFill(t, inventory, oracle, size)
         IN  /\ out.err \in {"Ok", "InvalidInstructionData", "ArithmeticOverflow"}
             /\ out.err = "Ok" => FillOK(out, t, inventory, oracle, size)
<1> DEFINE out    == ComputeFill(t, inventory, oracle, size)
           is_buy == size > 0
           asked  == CappedRequest(t, size)
           cap    == t.max_inventory_abs
           fill   == FillAbs(t, inventory, size)
           bps    == TotalBps(t, fill, oracle)
           level  == ExecPrice(oracle, bps, is_buy)
           Goal   == /\ out.err \in {"Ok", "InvalidInstructionData", "ArithmeticOverflow"}
                     /\ out.err = "Ok" => FillOK(out, t, inventory, oracle, size)
<1> SUFFICES Goal
  OBVIOUS
<1>1. CASE oracle = 0 \/ size = I128_MIN
  BY <1>1 DEF ComputeFill, Failed, Outcome
<1>2. CASE ~(oracle = 0 \/ size = I128_MIN)
  <2>1. /\ I128_MAX \in Nat /\ U64_MAX \in Nat /\ BPS_DENOM \in Nat /\ oracle \in Nat
        /\ size \in Int /\ inventory \in Int /\ cap \in Nat /\ t.max_fill_abs \in Nat
        /\ t.max_total_bps \in Nat /\ t.max_total_bps <= BPS_DENOM - 1
        /\ is_buy \in BOOLEAN
    BY WidthAssumption DEF U64, I128, I128_MIN, U128, Terms, TermsOK, BookOK
  <2>2. asked \in 0 .. I128_MAX /\ asked <= Abs(size) /\ asked <= t.max_fill_abs
    BY <1>2, CappedRequestBound
  <2>3. fill = check_inventory_limit(inventory, cap, asked, is_buy)
    BY DEF FillAbs
  <2> HIDE DEF asked, is_buy
  <2>4. /\ fill \in 0 .. asked
        /\ cap # 0 => Abs(Clamp(IF is_buy THEN inventory - fill ELSE inventory + fill)) <= cap
    BY <2>1, <2>2, <2>3, LimitKeepsCap
  <2>5. ~LimitTraps(inventory, cap, asked, is_buy)
    BY <2>1, <2>2, LimitNeverTraps
  <2>6. fill \in Nat /\ fill <= Abs(size) /\ fill <= t.max_fill_abs
    BY <2>1, <2>2, <2>4 DEF Abs
  <2> HIDE DEF fill
  <2>7. bps \in 0 .. t.max_total_bps
    BY <2>1, <2>6, TotalWithinMax
  <2> HIDE DEF bps
  <2>8. /\ level \in Nat
        /\ is_buy => level >= oracle /\ BPS_DENOM * (level - oracle) <= oracle * bps
        /\ ~is_buy => level <= oracle /\ BPS_DENOM * (oracle - level) < oracle * bps + BPS_DENOM
    <3>1. bps \in 0 .. BPS_DENOM
      BY <2>1, <2>7
    <3> QED BY <2>1, <3>1, PriceBand
  <2> HIDE DEF level
  <2>9. oracle * bps <= oracle * t.max_total_bps /\ oracle * bps \in Nat
        /\ oracle * t.max_total_bps \in Nat
    BY <2>1, <2>7
  <2>10. ~(Multiplier(bps, is_buy) < 0)
    BY <2>1, <2>7 DEF Multiplier
  <2>11. out = IF fill = 0 THEN ZeroFill(oracle)
               ELSE IF PriceOverflows(t, fill, oracle, is_buy) THEN Failed("ArithmeticOverflow")
               ELSE Filled(level, IF is_buy THEN fill ELSE -fill)
    BY <1>2, <2>5, <2>10 DEF ComputeFill, asked, is_buy, fill, bps, level
  <2> HIDE DEF out
  <2>12. CASE fill = 0
    <3>1. out = Outcome("Ok", "zero_fill", oracle, 0)
      BY <2>11, <2>12 DEF ZeroFill
    <3>2. IF size > 0 THEN 0 \in 0 .. size ELSE 0 \in size .. 0
      BY <2>1
    <3>3. cap # 0 => Abs(Clamp(inventory - 0)) <= cap
      BY <2>1, <2>4, <2>12
    <3>4. Abs(0) <= t.max_fill_abs
      BY <2>1 DEF Abs
    <3> QED BY <2>1, <3>1, <3>2, <3>3, <3>4 DEF Outcome, FillOK
  <2>13. CASE fill # 0 /\ PriceOverflows(t, fill, oracle, is_buy)
    BY <2>11, <2>13 DEF Failed, Outcome
  <2>14. CASE fill # 0 /\ ~PriceOverflows(t, fill, oracle, is_buy)
    <3> DEFINE signed == IF is_buy THEN fill ELSE -fill
    <3>1. out = Outcome("Ok", "filled", level, signed)
      BY <2>11, <2>14 DEF Filled
    <3>2. level \in U64
      BY <2>1, <2>8, <2>14 DEF PriceOverflows, level, bps, U64
    <3>3. IF size > 0 THEN signed \in 0 .. size ELSE signed \in size .. 0
      BY <2>1, <2>6 DEF is_buy, Abs
    <3>4. Abs(signed) <= t.max_fill_abs /\ (signed > 0 <=> is_buy) /\ (signed < 0 <=> ~is_buy)
      BY <2>1, <2>6, <2>14 DEF Abs
    <3>5. cap # 0 => Abs(Clamp(inventory - signed)) <= cap
      <4>1. inventory - signed = IF is_buy THEN inventory - fill ELSE inventory + fill
        BY <2>1, <2>6
      <4> QED BY <2>4, <4>1
    <3> HIDE DEF signed
    <3>6. /\ signed > 0 => /\ level >= oracle
                           /\ BPS_DENOM * (level - oracle) <= oracle * t.max_total_bps
          /\ signed < 0 => /\ level <= oracle
                           /\ BPS_DENOM * (oracle - level) < oracle * t.max_total_bps + BPS_DENOM
      <4>1. BPS_DENOM * (level - oracle) \in Int /\ BPS_DENOM * (oracle - level) \in Int
        BY <2>1, <2>8
      <4> QED BY <2>1, <2>8, <2>9, <3>4, <4>1
    <3> QED BY <3>1, <3>2, <3>3, <3>4, <3>5, <3>6 DEF Outcome, FillOK
  <2> QED BY <2>12, <2>13, <2>14
<1> QED BY <1>1, <1>2

(***************************************************************************)
(* A good account, the part of an inductive invariant that speaks of one.  *)
(* The properties are not inductive: the cap holds after a fill only if    *)
(* the terms of a stamped context validate, and an Init keeps the closed   *)
(* door only because a context never stamped is still zeroed memory.       *)
(***************************************************************************)
StampedTermsOK(a) == a.magic = "ballast" => Validates(a.terms, a.lp_pda)

UnstampedZero(a) ==
  a.magic = "zero" => /\ a.lp_pda = ZERO_KEY /\ a.terms = ZeroTerms
                      /\ a.inventory = 0 /\ a.last_exec = 0 /\ a.ret = ZeroReturn

SystemUnstamped(a) == a.owner = "system" => a.magic = "zero"

CapKept(a) == a.terms.max_inventory_abs # 0 => Abs(a.inventory) <= a.terms.max_inventory_abs

DoorKept(a) ==
  a.terms.allow_fills = ALLOW_FILLS_NEVER =>
    a.inventory = 0 /\ a.last_exec = 0 /\ a.ret.kind \in {"none", "rejected"}

BandKept(a) ==
  LET r    == a.ret
      band == r.oracle * a.terms.max_total_bps
  IN  /\ r.exec_size > 0 => /\ r.exec_price >= r.oracle
                            /\ BPS_DENOM * (r.exec_price - r.oracle) <= band
      /\ r.exec_size < 0 => /\ r.exec_price <= r.oracle
                            /\ BPS_DENOM * (r.oracle - r.exec_price) < band + BPS_DENOM

AccountOK(a) ==
  /\ a \in Accounts
  /\ StampedTermsOK(a) /\ UnstampedZero(a) /\ SystemUnstamped(a)
  /\ CapKept(a) /\ DoorKept(a) /\ BandKept(a)

(* Zeroed memory is a good account, whoever owns it.                       *)
LEMMA BlankOK ==
  ASSUME NEW owner \in {"system", "ballast"}, NEW full \in BOOLEAN
  PROVE  AccountOK(Blank(owner, full))
<1>1. /\ ZERO_KEY \in Keys /\ ALLOWLIST_MAX \in Nat
      /\ 0 \in U64 /\ 0 \in I128 /\ 0 \in U128 /\ BPS_DENOM \in Nat
  BY KeyAssumption, WidthAssumption DEF U64, I128, U128, I128_MIN, U128_MAX
<1>2. ZeroTerms \in Terms
  BY <1>1 DEF ZeroTerms, Terms
<1>3. [i \in 1 .. ALLOWLIST_MAX |-> ZERO_KEY] \in Slots
  BY <1>1 DEF Slots
<1>4. Blank(owner, full) \in Accounts
  BY <1>1, <1>2, <1>3 DEF Blank, Accounts, ZeroReturn
<1>5. CapKept(Blank(owner, full)) /\ DoorKept(Blank(owner, full)) /\ BandKept(Blank(owner, full))
  BY DEF CapKept, DoorKept, BandKept, Blank, ZeroTerms, ZeroReturn
<1> QED
  BY <1>4, <1>5 DEF AccountOK, StampedTermsOK, UnstampedZero, SystemUnstamped, Blank

(* Init stamps zeroed memory only with terms that validate, and leaves a   *)
(* book that no request has touched.                                       *)
LEMMA StampedOK ==
  ASSUME NEW a, AccountOK(a), a.magic = "zero", a.owner = "ballast", NEW lp \in Keys,
         NEW p \in Payloads, ParsesInit(p), Validates(p.terms, lp)
  PROVE  AccountOK(Stamped(a, lp, p))
<1> DEFINE s == Stamped(a, lp, p)
<1>1. a \in Accounts /\ a.ret = ZeroReturn
  BY DEF AccountOK, UnstampedZero
<1>2. 0 \in I128 /\ 0 \in U64
  BY WidthAssumption DEF I128, U64, I128_MIN
<1>3. p.terms \in Terms /\ p.allowlist_count \in Nat /\ p.allowlist \in Slots
  BY DEF Payloads
<1>4. /\ s.magic = "ballast" /\ s.lp_pda = lp /\ s.terms = p.terms
      /\ s.inventory = 0 /\ s.last_exec = 0 /\ s.ret = ZeroReturn /\ s.owner = "ballast"
  BY <1>1 DEF Stamped, Accounts
<1>5. s \in Accounts
  BY <1>1, <1>2, <1>3 DEF Stamped, Accounts
<1>6. CapKept(s)
  <2>1. s.terms.max_inventory_abs \in Nat
    BY <1>3, <1>4 DEF Terms, U128
  <2> QED BY <1>4, <2>1 DEF CapKept, Abs
<1>7. DoorKept(s) /\ BandKept(s)
  BY <1>4 DEF DoorKept, BandKept, ZeroReturn
<1> HIDE DEF s
<1>8. StampedTermsOK(s)
  BY <1>4 DEF StampedTermsOK
<1>9. UnstampedZero(s) /\ SystemUnstamped(s)
  BY <1>4 DEF UnstampedZero, SystemUnstamped
<1> QED BY <1>5, <1>6, <1>7, <1>8, <1>9 DEF AccountOK, s

(* What a Match that passes its guards may answer: a refusal through a     *)
(* closed door, or a fill that ComputeFillSound describes.                 *)
LEMMA MatchOutcomeSound ==
  ASSUME NEW a, AccountOK(a), NEW lp \in Keys, NEW signer \in BOOLEAN, NEW call \in Calls
  PROVE  LET out == MatchOutcome(a, lp, signer, call)
         IN  /\ out.err \in Errors \ {"Panic"}
             /\ out.err = "Ok" =>
                  /\ a.magic = "ballast" /\ a.owner = "ballast"
                  /\ signer /\ a.lp_pda = lp
                  /\ FillOK(out, a.terms, a.inventory, call.oracle, call.size)
                  /\ a.terms.allow_fills = ALLOW_FILLS_NEVER => out = Rejected
<1> DEFINE err == MatchGuard(a, lp, signer, call)
           out == MatchOutcome(a, lp, signer, call)
           Goal == /\ out.err \in Errors \ {"Panic"}
                   /\ out.err = "Ok" =>
                        /\ a.magic = "ballast" /\ a.owner = "ballast"
                        /\ signer /\ a.lp_pda = lp
                        /\ FillOK(out, a.terms, a.inventory, call.oracle, call.size)
                        /\ a.terms.allow_fills = ALLOW_FILLS_NEVER => out = Rejected
<1> SUFFICES Goal
  OBVIOUS
<1>1. CASE err # "Ok"
  <2>1. out = Failed(err)
    BY <1>1 DEF MatchOutcome
  <2>2. err \in Errors \ {"Ok", "Panic"}
    BY <1>1 DEF MatchGuard, Errors
  <2> QED BY <2>1, <2>2 DEF Failed, Outcome
<1>2. CASE err = "Ok"
  <2>1. /\ a.magic = "ballast" /\ a.owner = "ballast" /\ Validates(a.terms, a.lp_pda)
        /\ signer /\ a.lp_pda = lp
    <3>1. a.owner = "ballast" /\ a.magic = "ballast"
      BY <1>2 DEF MatchGuard
    <3>2. Validates(a.terms, a.lp_pda)
      BY <3>1 DEF AccountOK, StampedTermsOK
    <3>3. signer /\ a.lp_pda = lp
      BY <1>2 DEF MatchGuard
    <3> QED BY <3>1, <3>2, <3>3
  <2>2. /\ a.terms \in Terms /\ TermsOK(a.terms)
        /\ BookOK(a.inventory, a.terms.max_inventory_abs)
        /\ call.oracle \in U64 /\ call.size \in I128
    BY <2>1 DEF AccountOK, Accounts, Validates, CapKept, BookOK, Terms, Calls
  <2>3. CASE a.terms.allow_fills = ALLOW_FILLS_NEVER
    <3>1. out = Rejected
      BY <1>2, <2>3 DEF MatchOutcome
    <3>2. out = [err |-> "Ok", kind |-> "rejected", exec_price |-> 1, exec_size |-> 0]
      BY <3>1 DEF Rejected, Outcome, REJECTED_EXEC_PRICE
    <3>3. /\ 1 \in U64 /\ a.terms.max_fill_abs \in Nat /\ a.inventory \in I128
          /\ a.terms.max_inventory_abs \in Nat /\ call.size \in Int
      BY <2>2, WidthAssumption DEF U64, Terms, U128, BookOK, I128
    <3>4. Clamp(a.inventory - 0) = a.inventory
      BY <3>3, WidthAssumption DEF Clamp, I128, I128_MIN
    <3>5. FillOK(out, a.terms, a.inventory, call.oracle, call.size)
      <4>1. IF call.size > 0 THEN 0 \in 0 .. call.size ELSE 0 \in call.size .. 0
        BY <3>3
      <4>2. Abs(0) <= a.terms.max_fill_abs
        BY <3>3 DEF Abs
      <4> QED BY <2>2, <3>2, <3>3, <3>4, <4>1, <4>2 DEF FillOK, BookOK
    <3>6. out.err \in Errors \ {"Panic"}
      BY <3>2 DEF Errors
    <3> HIDE DEF out
    <3> QED BY <2>1, <3>1, <3>5, <3>6
  <2>4. CASE a.terms.allow_fills # ALLOW_FILLS_NEVER
    <3>1. out = ComputeFill(a.terms, a.inventory, call.oracle, call.size)
      BY <1>2, <2>4 DEF MatchOutcome
    <3> HIDE DEF out
    <3>2. /\ out.err \in {"Ok", "InvalidInstructionData", "ArithmeticOverflow"}
          /\ out.err = "Ok" => FillOK(out, a.terms, a.inventory, call.oracle, call.size)
      BY <2>2, <3>1, ComputeFillSound
    <3> QED BY <2>1, <2>4, <3>2 DEF Errors
  <2> QED BY <2>3, <2>4
<1> QED BY <1>1, <1>2

(* A Match that answers leaves a good account: the cap, the closed door    *)
(* and the band are those of the terms, which it does not touch.           *)
LEMMA MatchedOK ==
  ASSUME NEW a, AccountOK(a), a.magic = "ballast", a.owner = "ballast", NEW call \in Calls,
         NEW out, FillOK(out, a.terms, a.inventory, call.oracle, call.size),
         a.terms.allow_fills = ALLOW_FILLS_NEVER => out = Rejected
  PROVE  AccountOK(Matched(a, out, call))
<1> DEFINE m == Matched(a, out, call)
           ret == Returned(out, call)
<1>1. a \in Accounts /\ Validates(a.terms, a.lp_pda)
  BY DEF AccountOK, StampedTermsOK
<1>2. call.oracle \in U64 /\ call.size \in I128 /\ call.id \in Nat
  BY DEF Calls
<1>3. out.exec_size \in I128
  BY <1>2, WidthAssumption DEF FillOK, I128, I128_MIN
<1>4. /\ out.kind \in {"none", "rejected", "zero_fill", "filled"} /\ out.exec_price \in U64
  BY DEF FillOK
<1>5. ret \in [kind : {"none", "rejected", "zero_fill", "filled"}, exec_price : U64,
               exec_size : I128, id : Nat, oracle : U64]
  BY <1>2, <1>3, <1>4 DEF Returned
<1>6. /\ ret.kind = out.kind /\ ret.exec_price = out.exec_price
      /\ ret.exec_size = out.exec_size /\ ret.oracle = call.oracle
  BY DEF Returned
<1> HIDE DEF ret
<1>7. m = [a EXCEPT !.ret = ret,
                    !.inventory = IF out.exec_size = 0 THEN @ ELSE Clamp(@ - out.exec_size),
                    !.last_oracle = IF out.exec_size = 0 THEN @ ELSE call.oracle,
                    !.last_exec = IF out.exec_size = 0 THEN @ ELSE out.exec_price]
  BY <1>1 DEF Matched, ret, Accounts
<1>8. Clamp(a.inventory - out.exec_size) \in I128
  BY <1>1, <1>3, WidthAssumption DEF Clamp, Accounts, I128, I128_MIN
<1>9. m \in Accounts
  BY <1>1, <1>2, <1>4, <1>5, <1>7, <1>8 DEF Accounts
<1>10. /\ m.magic = "ballast" /\ m.owner = "ballast" /\ m.terms = a.terms
       /\ m.lp_pda = a.lp_pda /\ m.ret = ret
       /\ m.inventory = IF out.exec_size = 0 THEN a.inventory
                        ELSE Clamp(a.inventory - out.exec_size)
       /\ m.last_exec = IF out.exec_size = 0 THEN a.last_exec ELSE out.exec_price
  BY <1>1, <1>7 DEF Accounts
<1> HIDE DEF m
<1>11. StampedTermsOK(m)
  BY <1>1, <1>10 DEF StampedTermsOK
<1>12. UnstampedZero(m) /\ SystemUnstamped(m)
  BY <1>10 DEF UnstampedZero, SystemUnstamped
<1>13. CapKept(m)
  BY <1>10 DEF CapKept, AccountOK, FillOK
<1>14. DoorKept(m)
  <2>1. SUFFICES ASSUME a.terms.allow_fills = ALLOW_FILLS_NEVER
        PROVE  m.inventory = 0 /\ m.last_exec = 0 /\ m.ret.kind \in {"none", "rejected"}
    BY <1>10 DEF DoorKept
  <2>2. out.exec_size = 0 /\ out.kind = "rejected"
    BY <2>1 DEF Rejected, Outcome
  <2>3. a.inventory = 0 /\ a.last_exec = 0
    BY <2>1 DEF AccountOK, DoorKept
  <2> QED BY <1>6, <1>10, <2>2, <2>3
<1>15. BandKept(m)
  BY <1>6, <1>10 DEF BandKept, FillOK
<1> QED BY <1>9, <1>11, <1>12, <1>13, <1>14, <1>15 DEF AccountOK, m

NarrowCap(a) == a.terms.max_inventory_abs \in 1 .. I128_MAX - 1

MovedExactly(a, b) == b.inventory = a.inventory - b.ret.exec_size

(* A fill that keeps a narrow cap is not clamped: the book moves by what   *)
(* the answer says.                                                        *)
LEMMA MatchedExactly ==
  ASSUME NEW a \in Accounts, NarrowCap(a), NEW call \in Calls, NEW out,
         FillOK(out, a.terms, a.inventory, call.oracle, call.size)
  PROVE  MovedExactly(a, Matched(a, out, call))
<1> DEFINE m == Matched(a, out, call)
           x == a.inventory - out.exec_size
<1>1. /\ a.inventory \in Int /\ out.exec_size \in Int /\ I128_MAX \in Nat
      /\ a.terms.max_inventory_abs \in 1 .. I128_MAX - 1
  BY WidthAssumption DEF Accounts, FillOK, Calls, I128, I128_MIN, NarrowCap
<1>2. m.ret.exec_size = out.exec_size
      /\ m.inventory = IF out.exec_size = 0 THEN a.inventory ELSE Clamp(x)
  BY DEF Matched, Returned, Accounts
<1>3. Abs(Clamp(x)) <= I128_MAX - 1
  <2>1. Abs(Clamp(x)) <= a.terms.max_inventory_abs
    BY <1>1 DEF FillOK
  <2>2. Abs(Clamp(x)) \in Int
    BY <1>1 DEF Abs, Clamp, I128_MIN
  <2> QED BY <1>1, <2>1, <2>2
<1>4. Clamp(x) = x
  <2>1. x \in Int
    BY <1>1
  <2> HIDE DEF x
  <2> QED BY <1>1, <1>3, <2>1 DEF Abs, Clamp, I128_MIN
<1> QED BY <1>1, <1>2, <1>4 DEF MovedExactly

-----------------------------------------------------------------------------
(***************************************************************************)
(* The matcher program, and what is quoted of it.                          *)
(***************************************************************************)
(***************************************************************************)
(* The inductive invariant: every account is a good one ,   *)
(* and the scratch answers the latest instruction.                         *)
(***************************************************************************)
LastOK ==
  last \in [op : {"none", "create", "init", "match", "unknown"}, ctx : Ctxs,
            lp : Keys, signer : BOOLEAN, call : Calls, err : Errors \ {"Panic"}]

IInv ==
  /\ acct \in [Ctxs -> Accounts]
  /\ \A c \in Ctxs : AccountOK(acct[c])
  /\ LastOK
  /\ ReturnAnswersRequest

(* Replacing one account by a good one keeps every account good.           *)
LEMMA ReplaceOK ==
  ASSUME acct \in [Ctxs -> Accounts], \A o \in Ctxs : AccountOK(acct[o]),
         NEW c \in Ctxs, NEW a, AccountOK(a), acct' = [acct EXCEPT ![c] = a]
  PROVE  acct' \in [Ctxs -> Accounts] /\ \A o \in Ctxs : AccountOK(acct'[o])
<1>1. a \in Accounts
  BY DEF AccountOK
<1>2. acct' \in [Ctxs -> Accounts]
  BY <1>1
<1>3. ASSUME NEW o \in Ctxs PROVE AccountOK(acct'[o])
  <2>1. acct'[o] = IF o = c THEN a ELSE acct[o]
    OBVIOUS
  <2> QED BY <2>1
<1> QED BY <1>2, <1>3

(* The initial state satisfies the invariant.                              *)
LEMMA InitInv == Init => IInv
<1> SUFFICES ASSUME Init PROVE IInv
  OBVIOUS
<1>1. \A o \in Ctxs : acct[o] = Blank("system", FALSE)
  BY DEF Init
<1>2. \A o \in Ctxs : AccountOK(acct[o])
  BY <1>1, BlankOK
<1>3. acct \in [Ctxs -> Accounts]
  BY <1>2 DEF Init, AccountOK
<1>4. PICK c \in Ctxs : last = Instruction("none", c, ZERO_KEY, FALSE, NoCall, "Ok")
  BY DEF Init
<1>5. NoCall \in Calls
  BY WidthAssumption DEF NoCall, Calls, U64, I128, I128_MIN
<1>6. LastOK
  BY <1>4, <1>5, KeyAssumption DEF LastOK, Instruction, Errors
<1>7. ReturnAnswersRequest
  BY <1>4 DEF ReturnAnswersRequest, Instruction
<1> QED BY <1>2, <1>3, <1>6, <1>7 DEF IInv

(***************************************************************************)
(* What a step does to the accounts, the properties of steps included.     *)
(***************************************************************************)
SignedBy(c, lp) == last'.op = "match" /\ last'.ctx = c /\ last'.signer /\ last'.lp = lp

SameBinding(a, b) ==
  /\ b.magic = "ballast" /\ b.lp_pda = a.lp_pda /\ b.terms = a.terms
  /\ b.allowlist_count = a.allowlist_count /\ b.allowlist = a.allowlist

(* One instruction names one context, c: the others stay as they are; c,   *)
(* once stamped, changes in a signed Match only, keeps its binding and, if *)
(* its cap is narrow, moves by what was answered; until then its inventory *)
(* is zero, the step that stamps it included.                              *)
StepOn(c) ==
  /\ \A o \in Ctxs \ {c} : acct'[o] = acct[o]
  /\ Initialized(c) => /\ SameBinding(acct[c], acct'[c])
                       /\ acct'[c] # acct[c] => SignedBy(c, acct[c].lp_pda)
                       /\ acct'[c] # acct[c] /\ NarrowCap(acct[c])
                            => MovedExactly(acct[c], acct'[c])
  /\ ~Initialized(c) => acct'[c].inventory = 0

(* A refused instruction is a step on any context.                         *)
LEMMA UnchangedStep ==
  ASSUME IInv, NEW c \in Ctxs, acct' = acct
  PROVE  StepOn(c)
<1>1. acct[c].magic = "zero" => acct[c].inventory = 0
  BY DEF IInv, AccountOK, UnstampedZero
<1>2. acct[c].magic \in {"zero", "ballast"}
  BY DEF IInv, Accounts
<1> QED BY <1>1, <1>2 DEF StepOn, SameBinding, Initialized

(* CreateAccount.                                                          *)
LEMMA CreateStep ==
  ASSUME IInv, NEW c \in Ctxs, NEW full \in BOOLEAN, CreateAccount(c, full)
  PROVE  IInv' /\ StepOn(c)
<1>1. AccountOK(Blank("ballast", full))
  BY BlankOK
<1>2. acct' \in [Ctxs -> Accounts] /\ \A o \in Ctxs : AccountOK(acct'[o])
  <2>1. acct' = [acct EXCEPT ![c] = Blank("ballast", full)]
    BY DEF CreateAccount
  <2> QED BY <1>1, <2>1, ReplaceOK DEF IInv
<1>3. NoCall \in Calls
  BY WidthAssumption DEF NoCall, Calls, U64, I128, I128_MIN
<1>4. last' = [op |-> "create", ctx |-> c, lp |-> ZERO_KEY, signer |-> FALSE,
               call |-> NoCall, err |-> "Ok"]
  BY DEF CreateAccount, Instruction
<1>5. LastOK' /\ ReturnAnswersRequest'
  BY <1>3, <1>4, KeyAssumption DEF LastOK, ReturnAnswersRequest, Errors
<1>6. StepOn(c)
  <2>1. acct[c].magic = "zero"
    BY DEF CreateAccount, IInv, AccountOK, SystemUnstamped
  <2> QED BY <2>1 DEF StepOn, Initialized, CreateAccount, IInv, Blank
<1> QED BY <1>2, <1>5, <1>6 DEF IInv

(* process_init, the refusals included.                                    *)
LEMMA InitStep ==
  ASSUME IInv, NEW c \in Ctxs, NEW lp \in Keys, NEW writable \in BOOLEAN,
         NEW p \in InitPayloads, process_init(c, lp, writable, p)
  PROVE  IInv' /\ StepOn(c)
<1> DEFINE err == InitError(acct[c], lp, writable, p)
<1>1. p \in Payloads /\ NoCall \in Calls
  BY InputAssumption, WidthAssumption DEF NoCall, Calls, U64, I128, I128_MIN
<1>2. err \in Errors \ {"Panic"}
  BY DEF InitError, Errors
<1>3. last' = [op |-> "init", ctx |-> c, lp |-> lp, signer |-> FALSE,
               call |-> NoCall, err |-> err]
  BY DEF process_init, Instruction
<1> HIDE DEF err
<1>4. LastOK' /\ ReturnAnswersRequest'
  BY <1>1, <1>2, <1>3 DEF LastOK, ReturnAnswersRequest
<1>5. CASE err # "Ok"
  <2>1. acct' = acct
    BY <1>5 DEF process_init, err
  <2> QED BY <1>4, <2>1, UnchangedStep DEF IInv
<1>6. CASE err = "Ok"
  <2>1. acct' = [acct EXCEPT ![c] = Stamped(acct[c], lp, p)]
    BY <1>6 DEF process_init, err
  <2>2. /\ acct[c].owner = "ballast" /\ acct[c].magic = "zero"
        /\ ParsesInit(p) /\ Validates(p.terms, lp)
    BY <1>6 DEF err, InitError
  <2>3. AccountOK(acct[c])
    BY DEF IInv
  <2>4. AccountOK(Stamped(acct[c], lp, p))
    BY <1>1, <2>2, <2>3, StampedOK
  <2>5. acct' \in [Ctxs -> Accounts] /\ \A o \in Ctxs : AccountOK(acct'[o])
    BY <2>1, <2>4, ReplaceOK DEF IInv
  <2>6. StepOn(c)
    <3>1. Stamped(acct[c], lp, p).inventory = 0
      BY <2>3 DEF Stamped, AccountOK, Accounts
    <3> QED BY <2>1, <2>2, <3>1 DEF StepOn, Initialized, IInv
  <2> QED BY <1>4, <2>5, <2>6 DEF IInv
<1> QED BY <1>5, <1>6

(* process_match, the refusals included.                                   *)
LEMMA MatchStep ==
  ASSUME IInv, NEW c \in Ctxs, NEW lp \in Keys, NEW signer \in BOOLEAN,
         NEW writable \in BOOLEAN, NEW call \in MatchCalls,
         process_match(c, lp, signer, writable, call)
  PROVE  IInv' /\ StepOn(c)
<1> DEFINE a   == acct[c]
           out == MatchOutcome(a, lp, signer, call)
           err == MatchError(a, out, writable, call)
           m   == Matched(a, out, call)
<1>1. call \in Calls /\ AccountOK(a) /\ a \in Accounts
  BY InputAssumption DEF IInv
<1>2. /\ out.err \in Errors \ {"Panic"}
      /\ out.err = "Ok" => /\ a.magic = "ballast" /\ a.owner = "ballast"
                           /\ signer /\ a.lp_pda = lp
                           /\ FillOK(out, a.terms, a.inventory, call.oracle, call.size)
                           /\ a.terms.allow_fills = ALLOW_FILLS_NEVER => out = Rejected
  BY <1>1, MatchOutcomeSound
<1>3. last' = [op |-> "match", ctx |-> c, lp |-> lp, signer |-> signer,
               call |-> call, err |-> err]
  BY DEF process_match, Instruction
<1>4. acct' = IF err = "Ok" THEN [acct EXCEPT ![c] = m] ELSE acct
  BY DEF process_match
<1> HIDE DEF out
<1>5. err \in Errors \ {"Panic"} /\ (err = "Ok" => out.err = "Ok")
  BY <1>2 DEF MatchError, Errors
<1> HIDE DEF a, err, m
<1>6. LastOK'
  BY <1>1, <1>3, <1>5 DEF LastOK
<1>7. CASE err # "Ok"
  <2>1. acct' = acct
    BY <1>4, <1>7
  <2>2. ReturnAnswersRequest'
    BY <1>3, <1>7 DEF ReturnAnswersRequest
  <2> QED BY <1>6, <2>1, <2>2, UnchangedStep DEF IInv
<1>8. CASE err = "Ok"
  <2>1. acct' = [acct EXCEPT ![c] = m]
    BY <1>4, <1>8
  <2>2. AccountOK(m)
    BY <1>1, <1>2, <1>5, <1>8, MatchedOK DEF m
  <2>3. acct' \in [Ctxs -> Accounts] /\ \A o \in Ctxs : AccountOK(acct'[o])
    BY <2>1, <2>2, ReplaceOK DEF IInv
  <2>4. acct'[c] = m
    BY <2>1 DEF IInv
  <2>5. /\ m.magic = a.magic /\ m.lp_pda = a.lp_pda /\ m.terms = a.terms
        /\ m.allowlist_count = a.allowlist_count /\ m.allowlist = a.allowlist
        /\ m.ret = Returned(out, call)
    BY <1>1 DEF m, Matched, Accounts
  <2>6. StepOn(c)
    <3>1. \A o \in Ctxs \ {c} : acct'[o] = acct[o]
      BY <2>1 DEF IInv
    <3>2. SameBinding(acct[c], acct'[c])
      BY <1>2, <1>5, <1>8, <2>4, <2>5 DEF SameBinding, a
    <3>3. SignedBy(c, acct[c].lp_pda)
      BY <1>2, <1>3, <1>5, <1>8 DEF SignedBy, a
    <3>4. Initialized(c)
      BY <1>2, <1>5, <1>8 DEF Initialized, a
    <3>5. NarrowCap(acct[c]) => MovedExactly(acct[c], acct'[c])
      BY <1>1, <1>2, <1>5, <1>8, <2>4, MatchedExactly DEF a, m
    <3> QED BY <3>1, <3>2, <3>3, <3>4, <3>5 DEF StepOn
  <2>7. ReturnAnswersRequest'
    <3>1. FillOK(out, a.terms, a.inventory, call.oracle, call.size)
      BY <1>2, <1>5, <1>8
    <3>2. /\ acct'[c].ret = [kind |-> out.kind, exec_price |-> out.exec_price,
                             exec_size |-> out.exec_size, id |-> call.id,
                             oracle |-> call.oracle]
          /\ acct'[c].terms = a.terms
      BY <2>4, <2>5 DEF Returned
    <3> QED BY <1>3, <3>1, <3>2 DEF ReturnAnswersRequest, FillOK
  <2> QED BY <1>6, <2>3, <2>6, <2>7 DEF IInv
<1> QED BY <1>7, <1>8

(* An instruction with no tag or another one.                              *)
LEMMA UnknownStep ==
  ASSUME IInv, NEW c \in Ctxs, NEW lp \in Keys, process_unknown(c, lp)
  PROVE  IInv' /\ StepOn(c)
<1>1. NoCall \in Calls
  BY WidthAssumption DEF NoCall, Calls, U64, I128, I128_MIN
<1>2. last' = [op |-> "unknown", ctx |-> c, lp |-> lp, signer |-> FALSE,
               call |-> NoCall, err |-> "InvalidInstructionData"]
  BY DEF process_unknown, Instruction
<1>3. LastOK' /\ ReturnAnswersRequest'
  BY <1>1, <1>2 DEF LastOK, ReturnAnswersRequest, Errors
<1>4. acct' = acct
  BY DEF process_unknown
<1> QED BY <1>3, <1>4, UnchangedStep DEF IInv

(* Every step keeps the invariant and is a step on one context.            *)
LEMMA NextStep ==
  ASSUME IInv, Next
  PROVE  IInv' /\ \E c \in Ctxs : StepOn(c)
<1>1. PICK c \in Ctxs :
        \/ \E full \in BOOLEAN : CreateAccount(c, full)
        \/ \E lp \in Keys, writable \in BOOLEAN, p \in InitPayloads :
             process_init(c, lp, writable, p)
        \/ \E lp \in Keys, signer, writable \in BOOLEAN, call \in MatchCalls :
             process_match(c, lp, signer, writable, call)
        \/ \E lp \in Keys : process_unknown(c, lp)
  BY DEF Next
<1>2. CASE \E full \in BOOLEAN : CreateAccount(c, full)
  BY <1>2, CreateStep
<1>3. CASE \E lp \in Keys, writable \in BOOLEAN, p \in InitPayloads :
             process_init(c, lp, writable, p)
  BY <1>3, InitStep
<1>4. CASE \E lp \in Keys, signer, writable \in BOOLEAN, call \in MatchCalls :
             process_match(c, lp, signer, writable, call)
  BY <1>4, MatchStep
<1>5. CASE \E lp \in Keys : process_unknown(c, lp)
  BY <1>5, UnknownStep
<1> QED BY <1>1, <1>2, <1>3, <1>4, <1>5

(***************************************************************************)
(* The theorems.                                                           *)
(***************************************************************************)

(* IInv is inductive, so it holds in every reachable state.                *)
THEOREM Invariance == Spec => []IInv
<1>1. IInv /\ [Next]_vars => IInv'
  <2>1. SUFFICES ASSUME IInv, [Next]_vars PROVE IInv'
    OBVIOUS
  <2>2. CASE Next
    BY <2>1, <2>2, NextStep
  <2>3. CASE UNCHANGED vars
    BY <2>1, <2>3 DEF vars, IInv, LastOK, ReturnAnswersRequest
  <2> QED BY <2>1, <2>2, <2>3
<1> QED BY InitInv, <1>1, PTL DEF Spec

(* Every field keeps its width: no inventory, price or return ever leaves  *)
(* the type the code gives it.                                             *)
THEOREM TypeCorrect == Spec => []TypeOK
<1>1. IInv => TypeOK
  BY DEF IInv, LastOK, TypeOK
<1> QED BY <1>1, Invariance, PTL

(* The LP's inventory cap holds for every cap and every sequence of fills. *)
THEOREM CapHolds == Spec => []InventoryWithinCap
<1>1. IInv => InventoryWithinCap
  BY DEF IInv, AccountOK, CapKept, InventoryWithinCap
<1> QED BY <1>1, Invariance, PTL

(* A closed trade-cpi door never fills.                                    *)
THEOREM DoorHolds == Spec => []ClosedDoorNeverFills
<1>1. IInv => ClosedDoorNeverFills
  BY DEF IInv, AccountOK, DoorKept, ClosedDoorNeverFills
<1> QED BY <1>1, Invariance, PTL

(* No Match ever aborts on an arithmetic overflow, at any width.           *)
THEOREM NoPanic == Spec => []NeverPanics
<1>1. IInv => NeverPanics
  BY DEF IInv, LastOK, NeverPanics
<1> QED BY <1>1, Invariance, PTL

(* The scratch answers the request that was just matched.                  *)
THEOREM AnswerHolds == Spec => []ReturnAnswersRequest
<1>1. IInv => ReturnAnswersRequest
  BY DEF IInv
<1> QED BY <1>1, Invariance, PTL

(* Every fill is priced on the LP's side of the oracle, within its band.   *)
THEOREM BandHolds == Spec => []FillsWithinBand
<1>1. IInv => FillsWithinBand
  BY DEF IInv, AccountOK, BandKept, FillsWithinBand
<1> QED BY <1>1, Invariance, PTL

(* FM-2 and FM-3: a stamped context moves only for the LP PDA it is bound  *)
(* to, and only under its signature.                                       *)
THEOREM BoundSigner == Spec => OnlyBoundSignerMoves
<1> DEFINE A == \A c \in Ctxs : Initialized(c) /\ acct'[c] # acct[c] =>
                  /\ last'.op = "match" /\ last'.ctx = c
                  /\ last'.signer /\ last'.lp = acct[c].lp_pda
<1>1. IInv /\ [Next]_vars => [A]_vars
  <2>1. SUFFICES ASSUME IInv, Next PROVE A
    OBVIOUS
  <2>2. PICK c \in Ctxs : StepOn(c)
    BY <2>1, NextStep
  <2> QED BY <2>2 DEF StepOn, SignedBy
<1> QED BY <1>1, Invariance, PTL DEF Spec, OnlyBoundSignerMoves

(* A context is bound once: LP, terms and allowlist outlive every later    *)
(* instruction.                                                            *)
THEOREM PermanentBinding == Spec => BindingIsPermanent
<1> DEFINE A == \A c \in Ctxs : Initialized(c) =>
                  /\ acct'[c].magic = "ballast"
                  /\ acct'[c].lp_pda = acct[c].lp_pda
                  /\ acct'[c].terms = acct[c].terms
                  /\ acct'[c].allowlist_count = acct[c].allowlist_count
                  /\ acct'[c].allowlist = acct[c].allowlist
<1>1. IInv /\ [Next]_vars => [A]_vars
  <2>1. SUFFICES ASSUME IInv, Next PROVE A
    OBVIOUS
  <2>2. PICK c \in Ctxs : StepOn(c)
    BY <2>1, NextStep
  <2> QED BY <2>2 DEF StepOn, SameBinding, Initialized
<1> QED BY <1>1, Invariance, PTL DEF Spec, BindingIsPermanent

(* No fill of a capped book is lost to the saturating subtraction.         *)
THEOREM ExactFills == Spec => FillsAreExact
<1> DEFINE A == \A c \in Ctxs : acct'[c] # acct[c] /\ last'.op = "match"
                  /\ acct[c].terms.max_inventory_abs \in 1 .. I128_MAX - 1
                  => acct'[c].inventory = acct[c].inventory - acct'[c].ret.exec_size
<1>1. IInv /\ [Next]_vars => [A]_vars
  <2>1. SUFFICES ASSUME IInv, Next, NEW c \in Ctxs, acct'[c] # acct[c], NarrowCap(acct[c])
                 PROVE  MovedExactly(acct[c], acct'[c])
    BY DEF NarrowCap, MovedExactly
  <2>2. PICK o \in Ctxs : StepOn(o)
    BY <2>1, NextStep
  <2>3. o = c
    BY <2>1, <2>2 DEF StepOn
  <2>4. Initialized(c)
    <3>1. acct[c].magic = "zero" => acct[c].terms.max_inventory_abs = 0
      BY <2>1 DEF IInv, AccountOK, UnstampedZero, ZeroTerms
    <3>2. acct[c].terms.max_inventory_abs # 0
      BY <2>1 DEF NarrowCap
    <3> QED BY <2>1, <3>1, <3>2 DEF IInv, Accounts, Initialized
  <2> QED BY <2>1, <2>2, <2>3, <2>4 DEF StepOn
<1>2. [][A]_vars => FillsAreExact
  BY DEF FillsAreExact
<1> QED BY <1>1, <1>2, Invariance, PTL DEF Spec

(* The program implements the abstract book of LpBook: initial states map  *)
(* to the unbound book, and every instruction maps to a binding, a trade   *)
(* or nothing.                                                             *)
THEOREM Refinement == Spec => ImplementsLpBook
<1> DEFINE book == [c \in Ctxs |-> BookOf(acct[c])]
<1>1. Init => Promise!LBInit
  <2>1. BookOf(Blank("system", FALSE)) = Promise!Unbound
    BY DEF BookOf, Blank, ZeroTerms, Promise!Unbound, ALLOW_FILLS_FILL
  <2> QED BY <2>1 DEF Init, Promise!LBInit
<1>2. IInv /\ IInv' /\ [Next]_vars => [Promise!LBNext]_book
  <2>1. SUFFICES ASSUME IInv, IInv', [Next]_vars
                 PROVE  Promise!LBNext \/ book' = book
    OBVIOUS
  <2>2. CASE UNCHANGED vars
    BY <2>2 DEF vars
  <2>3. CASE Next
    <3>1. PICK c \in Ctxs : StepOn(c)
      BY <2>1, <2>3, NextStep
    <3>2. book' = [book EXCEPT ![c] = book'[c]]
      BY <3>1 DEF StepOn
    <3>3. /\ acct[c] \in Accounts /\ acct'[c] \in Accounts
          /\ AccountOK(acct[c]) /\ AccountOK(acct'[c])
      BY <2>1 DEF IInv
    <3>4. CASE Initialized(c)
      <4>1. SameBinding(acct[c], acct'[c])
        BY <3>1, <3>4 DEF StepOn
      <4>2. CASE acct[c].terms.allow_fills = ALLOW_FILLS_FILL
        <5>1. book[c].door = "open" /\ book'[c] = [book[c] EXCEPT !.position = book'[c].position]
          BY <4>1, <4>2 DEF SameBinding, BookOf
        <5>2. /\ book'[c].position = acct'[c].inventory /\ book'[c].position \in I128
              /\ book[c].cap = acct'[c].terms.max_inventory_abs /\ book[c].cap \in Nat
          BY <3>3, <4>1 DEF SameBinding, BookOf, Accounts, Terms, U128
        <5>3. book[c].cap # 0 => book'[c].position \in -book[c].cap .. book[c].cap
          BY <3>3, <5>2 DEF AccountOK, CapKept, Abs, I128
        <5>4. Promise!Trade(c)
          BY <3>2, <5>1, <5>2, <5>3 DEF Promise!Trade, Promise!Replace
        <5> QED BY <5>4 DEF Promise!LBNext
      <4>3. CASE acct[c].terms.allow_fills # ALLOW_FILLS_FILL
        <5>1. acct[c].terms.allow_fills = ALLOW_FILLS_NEVER
          BY <3>3, <3>4, <4>3 DEF AccountOK, StampedTermsOK, Validates, TermsOK, Initialized
        <5>2. acct'[c].inventory = 0 /\ acct[c].inventory = 0
          BY <3>3, <4>1, <5>1 DEF AccountOK, DoorKept, SameBinding
        <5>3. book'[c] = book[c]
          BY <4>1, <5>2 DEF BookOf, SameBinding
        <5> QED BY <3>2, <5>3
      <4> QED BY <4>2, <4>3
    <3>5. CASE ~Initialized(c)
      <4>1. acct[c].magic = "zero"
        BY <3>3, <3>5 DEF Initialized, Accounts
      <4>2. BookOf(acct[c]) = Promise!Unbound
        BY <3>3, <4>1 DEF AccountOK, UnstampedZero, BookOf, ZeroTerms, Promise!Unbound,
              ALLOW_FILLS_FILL
      <4>3. CASE acct'[c].magic = "zero"
        <5>1. BookOf(acct'[c]) = Promise!Unbound
          BY <3>3, <4>3 DEF AccountOK, UnstampedZero, BookOf, ZeroTerms, Promise!Unbound,
                ALLOW_FILLS_FILL
        <5> QED BY <3>2, <4>2, <5>1
      <4>4. CASE acct'[c].magic = "ballast"
        <5>1. /\ acct'[c].lp_pda \in Keys \ {ZERO_KEY}
              /\ acct'[c].terms.max_inventory_abs \in U128
          BY <3>3, <4>4 DEF AccountOK, StampedTermsOK, Validates, Accounts, Terms
        <5>2. acct'[c].inventory = 0
          BY <3>1, <3>5 DEF StepOn
        <5>3. Promise!Bind(c)
          BY <3>2, <4>2, <5>1, <5>2 DEF Promise!Bind, Promise!Replace, BookOf
        <5> QED BY <5>3 DEF Promise!LBNext
      <4> QED BY <3>3, <4>3, <4>4 DEF Accounts
    <3> QED BY <3>4, <3>5
  <2> QED BY <2>1, <2>2, <2>3
<1> QED BY <1>1, <1>2, Invariance, PTL DEF Spec, ImplementsLpBook, Promise!LBSpec

-----------------------------------------------------------------------------
(***************************************************************************)
(* The routers' default against the matcher's fills, for every width,      *)
(* every default, every term of an LP and every sequence of instructions.  *)
(* A fill is priced at a spread between the LP's fee and spread and its    *)
(* maximum, whatever its caps leave of the request, and a wider spread is  *)
(* a worse price.                                                          *)
(***************************************************************************)

(* Integer division keeps the order.                                       *)
LEMMA QuotientMonotone ==
  ASSUME NEW x \in Nat, NEW y \in Nat, x <= y, NEW d \in Nat \ {0}
  PROVE  x \div d <= y \div d
<1> DEFINE p == x \div d
           q == y \div d
<1>1. /\ p \in Nat /\ d * p <= x
      /\ q \in Nat /\ y < d * q + d
  BY FloorDivision
<1> HIDE DEF p, q
<1>2. SUFFICES ASSUME q + 1 <= p PROVE FALSE
  BY <1>1 DEF p, q
<1>3. d * (q + 1) <= d * p
  BY <1>1, <1>2
<1>4. d * q + d <= d * p
  BY <1>1, <1>3
<1> QED BY <1>1, <1>4

(* So does a product.                                                      *)
LEMMA ProductMonotone ==
  ASSUME NEW x \in Nat, NEW y \in Nat, x <= y, NEW k \in Nat
  PROVE  x * k <= y * k /\ x * k \in Nat /\ y * k \in Nat
OBVIOUS

(* A wider spread is a worse price.                                        *)
LEMMA PriceMonotone ==
  ASSUME NEW oracle \in Nat, NEW b \in 0 .. BPS_DENOM, NEW q \in 0 .. BPS_DENOM, b <= q,
         NEW is_buy \in BOOLEAN
  PROVE  Better(is_buy, ExecPrice(oracle, b, is_buy), ExecPrice(oracle, q, is_buy))
<1>1. BPS_DENOM \in Nat \ {0} /\ b \in Nat /\ q \in Nat
  BY WidthAssumption
<1>2. CASE is_buy
  <2>1. /\ (BPS_DENOM + b) * oracle <= (BPS_DENOM + q) * oracle
        /\ (BPS_DENOM + b) * oracle \in Nat /\ (BPS_DENOM + q) * oracle \in Nat
    <3>1. BPS_DENOM + b \in Nat /\ BPS_DENOM + q \in Nat /\ BPS_DENOM + b <= BPS_DENOM + q
      BY <1>1
    <3> QED BY <3>1, ProductMonotone
  <2>2. /\ ExecPrice(oracle, b, is_buy) = ((BPS_DENOM + b) * oracle) \div BPS_DENOM
        /\ ExecPrice(oracle, q, is_buy) = ((BPS_DENOM + q) * oracle) \div BPS_DENOM
    BY <1>1, <1>2 DEF ExecPrice, Multiplier
  <2>3. ((BPS_DENOM + b) * oracle) \div BPS_DENOM <= ((BPS_DENOM + q) * oracle) \div BPS_DENOM
    BY <1>1, <2>1, QuotientMonotone
  <2> QED BY <1>2, <2>2, <2>3 DEF Better
<1>3. CASE ~is_buy
  <2>1. /\ (BPS_DENOM - q) * oracle <= (BPS_DENOM - b) * oracle
        /\ (BPS_DENOM - q) * oracle \in Nat /\ (BPS_DENOM - b) * oracle \in Nat
    <3>1. BPS_DENOM - b \in Nat /\ BPS_DENOM - q \in Nat /\ BPS_DENOM - q <= BPS_DENOM - b
      BY <1>1
    <3> QED BY <3>1, ProductMonotone
  <2>2. /\ ExecPrice(oracle, b, is_buy) = ((BPS_DENOM - b) * oracle) \div BPS_DENOM
        /\ ExecPrice(oracle, q, is_buy) = ((BPS_DENOM - q) * oracle) \div BPS_DENOM
    BY <1>1, <1>3 DEF ExecPrice, Multiplier
  <2>3. /\ ((BPS_DENOM - q) * oracle) \div BPS_DENOM <= ((BPS_DENOM - b) * oracle) \div BPS_DENOM
        /\ ((BPS_DENOM - q) * oracle) \div BPS_DENOM \in Nat
        /\ ((BPS_DENOM - b) * oracle) \div BPS_DENOM \in Nat
    BY <1>1, <2>1, QuotientMonotone, FloorDivision
  <2> QED BY <1>3, <2>2, <2>3 DEF Better
<1> QED BY <1>2, <1>3

-----------------------------------------------------------------------------
(* A Match that answers "filled" went through the pricing code: it is      *)
(* priced at the spread of what the caps left of the request.              *)
LEMMA FilledPrice ==
  ASSUME NEW a, AccountOK(a), NEW lp \in Keys, NEW signer \in BOOLEAN, NEW call \in Calls,
         MatchOutcome(a, lp, signer, call).err = "Ok",
         MatchOutcome(a, lp, signer, call).kind = "filled"
  PROVE  LET out    == MatchOutcome(a, lp, signer, call)
             isLong == call.size > 0
             fill   == FillAbs(a.terms, a.inventory, call.size)
         IN  /\ a.terms \in Terms /\ TermsOK(a.terms)
             /\ fill \in 0 .. Abs(call.size)
             /\ out.exec_size = IF isLong THEN fill ELSE -fill
             /\ out.exec_price = ExecPrice(call.oracle, TotalBps(a.terms, fill, call.oracle), isLong)
<1> DEFINE out    == MatchOutcome(a, lp, signer, call)
           isLong == call.size > 0
           t      == a.terms
           asked  == CappedRequest(t, call.size)
           fill   == FillAbs(t, a.inventory, call.size)
<1>1. MatchGuard(a, lp, signer, call) = "Ok" /\ t.allow_fills # ALLOW_FILLS_NEVER
  BY DEF MatchOutcome, Failed, Rejected, Outcome
<1>2. out = ComputeFill(t, a.inventory, call.oracle, call.size)
  BY <1>1 DEF MatchOutcome
<1>3. a.magic = "ballast"
  BY <1>1 DEF MatchGuard
<1>4. /\ t \in Terms /\ TermsOK(t) /\ BookOK(a.inventory, t.max_inventory_abs)
      /\ call.oracle \in U64 /\ call.size \in I128
  BY <1>3 DEF AccountOK, StampedTermsOK, Accounts, Validates, CapKept, BookOK, Terms, Calls
<1> HIDE DEF out, t
<1>5. call.size # I128_MIN
  BY <1>2 DEF ComputeFill, Failed, Outcome, out
<1>6. out.exec_size = (IF isLong THEN fill ELSE -fill)
      /\ out.exec_price = ExecPrice(call.oracle, TotalBps(t, fill, call.oracle), isLong)
  <2> HIDE DEF fill
  <2>1. out = Filled(ExecPrice(call.oracle, TotalBps(t, fill, call.oracle), isLong),
                     IF isLong THEN fill ELSE -fill)
    BY <1>2 DEF ComputeFill, Failed, Outcome, ZeroFill, out, fill
  <2> QED BY <2>1 DEF Filled, Outcome
<1>7. fill \in 0 .. Abs(call.size)
  <2>1. asked \in 0 .. I128_MAX /\ asked <= Abs(call.size)
    BY <1>4, <1>5, CappedRequestBound
  <2>2. fill = check_inventory_limit(a.inventory, t.max_inventory_abs, asked, isLong)
    BY DEF FillAbs
  <2>3. t.max_inventory_abs \in U128 /\ isLong \in BOOLEAN /\ call.size \in Int
    BY <1>4, WidthAssumption DEF Terms, I128, I128_MIN
  <2>4. Abs(call.size) \in Nat
    BY <2>3 DEF Abs
  <2> HIDE DEF asked, isLong, fill
  <2>5. fill \in 0 .. asked
    BY <1>4, <2>1, <2>2, <2>3, LimitKeepsCap
  <2> QED BY <2>1, <2>4, <2>5
<1> QED BY <1>4, <1>6, <1>7 DEF out, t

(* What the routers say of a context of the program: the default, for any  *)
(* size, and best-price a unit more for an ask at most.                    *)
LEMMA DefaultIsSaid ==
  ASSUME NEW a \in Accounts, a.full, NEW oracle \in Nat, NEW size, NEW isLong \in BOOLEAN
  PROVE  LET quote  == computeQuote(fetchMatcherParams(AsRead(a), a.lp_pda), oracle, size, isLong)
             params == BestPriceParams(AsRead(a))
             said   == IF isLong THEN Ask(params, oracle) ELSE Bid(params, oracle)
         IN  /\ quote = ExecPrice(oracle, DEFAULT_PASSIVE_SPREAD_BPS, isLong)
             /\ said \in Int /\ Better(isLong, quote, said)
<1> DEFINE bps   == DEFAULT_PASSIVE_SPREAD_BPS
           quote == computeQuote(fetchMatcherParams(AsRead(a), a.lp_pda), oracle, size, isLong)
           x     == oracle * Multiplier(bps, isLong)
<1>1. bps \in 0 .. BPS_DENOM /\ BPS_DENOM \in Nat \ {0}
  BY RouterAssumption, WidthAssumption
<1>2. a.magic # "percmatc"
  BY DEF Accounts
<1>3. fetchMatcherParams(AsRead(a), a.lp_pda) = DefaultPassive
  BY <1>2 DEF fetchMatcherParams, AsRead
<1>4. BestPriceParams(AsRead(a)) = Fallback
  BY <1>2 DEF BestPriceParams, AsRead
<1>5. QuoteBps(DefaultPassive, oracle, size) = bps
  <2>1. QuoteImpact(DefaultPassive, oracle, size) = 0
    BY DEF QuoteImpact, DefaultPassive, MatcherParams, KIND_VAMM
  <2> QED BY <1>1, <2>1 DEF QuoteBps, DefaultPassive, MatcherParams, Lesser, SaturatingSub
<1>6. quote = ExecPrice(oracle, bps, isLong)
  BY <1>3, <1>5 DEF computeQuote, ExecPrice
<1>7. TotalEdgeBps(Fallback) = bps
  BY <1>1 DEF TotalEdgeBps, Fallback, MatcherParams
<1>8. x \in Nat /\ quote = x \div BPS_DENOM
  <2>1. Multiplier(bps, isLong) \in Nat
    BY <1>1 DEF Multiplier
  <2> QED BY <1>6, <2>1, NatProduct DEF ExecPrice
<1>9. /\ isLong => Ask(Fallback, oracle) = (x + BPS_DENOM - 1) \div BPS_DENOM
      /\ ~isLong => Bid(Fallback, oracle) = x \div BPS_DENOM
  BY <1>7 DEF Ask, Bid, Multiplier
<1> HIDE DEF x, quote
<1>10. /\ x \div BPS_DENOM <= (x + BPS_DENOM - 1) \div BPS_DENOM
       /\ x \div BPS_DENOM \in Nat /\ (x + BPS_DENOM - 1) \div BPS_DENOM \in Nat
  <2>1. x + BPS_DENOM - 1 \in Nat /\ x <= x + BPS_DENOM - 1
    BY <1>1, <1>8
  <2> QED BY <1>1, <1>8, <2>1, QuotientMonotone, FloorDivision
<1> DEFINE said == IF isLong THEN Ask(Fallback, oracle) ELSE Bid(Fallback, oracle)
<1>11. said \in Int /\ Better(isLong, quote, said)
  BY <1>8, <1>9, <1>10 DEF Better
<1> QED BY <1>4, <1>6, <1>11 DEF quote

(* A level of a fill beside a quote at the default.                        *)
Bounded(t, isLong, level, quote) ==
  /\ level \in Nat /\ quote \in Nat
  /\ t.max_total_bps <= DEFAULT_PASSIVE_SPREAD_BPS => Better(isLong, level, quote)
  /\ t.fee_bps + t.spread_bps >= DEFAULT_PASSIVE_SPREAD_BPS => Better(isLong, quote, level)

(* An LP that never charges over the default never fills worse than        *)
(* quoted; one that always charges it never fills better.                  *)
LEMMA PriceOfFill ==
  ASSUME NEW t \in Terms, TermsOK(t), NEW oracle \in Nat, NEW fill \in Nat, NEW isLong \in BOOLEAN
  PROVE  Bounded(t, isLong, ExecPrice(oracle, TotalBps(t, fill, oracle), isLong),
                 ExecPrice(oracle, DEFAULT_PASSIVE_SPREAD_BPS, isLong))
<1> DEFINE bps     == TotalBps(t, fill, oracle)
           default == DEFAULT_PASSIVE_SPREAD_BPS
<1>1. bps \in 0 .. t.max_total_bps /\ t.fee_bps + t.spread_bps <= bps
  BY TotalWithinMax
<1> HIDE DEF bps
<1>2. /\ bps \in 0 .. BPS_DENOM /\ default \in 0 .. BPS_DENOM
      /\ t.fee_bps \in Nat /\ t.spread_bps \in Nat /\ t.max_total_bps \in Nat
      /\ BPS_DENOM \in Nat
  BY <1>1, WidthAssumption, RouterAssumption DEF Terms, TermsOK
<1>3. ExecPrice(oracle, bps, isLong) \in Nat /\ ExecPrice(oracle, default, isLong) \in Nat
  BY <1>2, PriceBand
<1>4. bps <= default => Better(isLong, ExecPrice(oracle, bps, isLong), ExecPrice(oracle, default, isLong))
  BY <1>2, PriceMonotone
<1>5. default <= bps => Better(isLong, ExecPrice(oracle, default, isLong), ExecPrice(oracle, bps, isLong))
  BY <1>2, PriceMonotone
<1>6. /\ t.max_total_bps <= default => bps <= default
      /\ t.fee_bps + t.spread_bps >= default => default <= bps
  BY <1>1, <1>2
<1> QED BY <1>3, <1>4, <1>5, <1>6 DEF bps, Bounded

-----------------------------------------------------------------------------
(* Every step: only a Match that answers has something to show.            *)
LEMMA QuotedStep ==
  ASSUME IInv, Next
  PROVE  DefaultQuoteBounds'
<1>1. SUFFICES ASSUME last'.op = "match", last'.err = "Ok" PROVE DefaultQuoteBounds'
  BY DEF DefaultQuoteBounds
<1>2. PICK c \in Ctxs, lp \in Keys, signer \in BOOLEAN, writable \in BOOLEAN, call \in MatchCalls :
        process_match(c, lp, signer, writable, call)
  BY <1>1 DEF Next, CreateAccount, process_init, process_unknown, Instruction
<1> DEFINE a   == acct[c]
           out == MatchOutcome(a, lp, signer, call)
<1>3. call \in Calls /\ AccountOK(a) /\ a \in Accounts
  BY InputAssumption DEF IInv
<1>4. /\ last'.ctx = c /\ last'.call = call
      /\ MatchError(a, out, writable, call) = "Ok"
      /\ acct' = [acct EXCEPT ![c] = Matched(a, out, call)]
  BY <1>1, <1>2 DEF process_match, Instruction
<1> HIDE DEF out
<1>5. out.err = "Ok"
  BY <1>4 DEF MatchError
<1> DEFINE b == acct'[c]
<1>6. /\ b.terms = a.terms /\ b.full = a.full /\ b.magic = a.magic /\ b.lp_pda = a.lp_pda
      /\ b.ret = Returned(out, call)
  BY <1>3, <1>4 DEF IInv, Matched, Accounts
<1>7. SUFFICES ASSUME out.kind = "filled" PROVE DefaultQuoteBounds'
  BY <1>4, <1>6 DEF DefaultQuoteBounds, Returned
<1> DEFINE fill   == FillAbs(a.terms, a.inventory, call.size)
           isLong == call.size > 0
<1>8. /\ a.terms \in Terms /\ TermsOK(a.terms)
      /\ fill \in 0 .. Abs(call.size)
      /\ out.exec_price = ExecPrice(call.oracle, TotalBps(a.terms, fill, call.oracle), isLong)
  BY <1>3, <1>5, <1>7, FilledPrice DEF out
<1>9. call.oracle \in Nat /\ call.size \in Int /\ fill \in Nat /\ isLong \in BOOLEAN
  BY <1>3, <1>8, WidthAssumption DEF Calls, U64, I128, I128_MIN, Abs
<1>10. a.full
  BY <1>5, <1>7 DEF out, MatchOutcome, MatchGuard, Failed, Outcome
<1> DEFINE quote   == computeQuote(fetchMatcherParams(AsRead(a), a.lp_pda), call.oracle, call.size, isLong)
           params  == BestPriceParams(AsRead(a))
           printed == IF isLong THEN Ask(params, call.oracle) ELSE Bid(params, call.oracle)
<1>11. AsRead(b) = AsRead(a)
  BY <1>6 DEF AsRead
<1> HIDE DEF fill, isLong
<1>12. /\ quote = ExecPrice(call.oracle, DEFAULT_PASSIVE_SPREAD_BPS, isLong)
       /\ printed \in Int /\ Better(isLong, quote, printed)
  BY <1>3, <1>9, <1>10, DefaultIsSaid
<1> DEFINE t == a.terms
           level == ExecPrice(call.oracle, TotalBps(t, fill, call.oracle), isLong)
<1>13. /\ t \in Terms /\ TermsOK(t) /\ out.exec_price = level
  BY <1>8
<1> HIDE DEF a, b, quote, printed, params, t
<1>14. Bounded(t, isLong, level, quote)
  BY <1>9, <1>12, <1>13, PriceOfFill
<1> HIDE DEF level
<1>15. Better(isLong, level, quote) => Better(isLong, level, printed)
  BY <1>12, <1>14 DEF Better, Bounded
<1>16. b.ret.exec_price = out.exec_price
  BY <1>6 DEF Returned
<1> QED
  BY <1>4, <1>6, <1>11, <1>13, <1>14, <1>15, <1>16
     DEF DefaultQuoteBounds, Bounded, b, t, quote, printed, params, isLong

(* What the routers' default says of an LP's fills, for every width, LP,   *)
(* request and history.                                                    *)
THEOREM DefaultQuotes == Spec => []DefaultQuoteBounds
<1>1. Init => DefaultQuoteBounds
  BY DEF Init, DefaultQuoteBounds, Instruction
<1>2. IInv /\ DefaultQuoteBounds /\ [Next]_vars => DefaultQuoteBounds'
  <2>1. SUFFICES ASSUME IInv, DefaultQuoteBounds, [Next]_vars PROVE DefaultQuoteBounds'
    OBVIOUS
  <2>2. CASE Next
    BY <2>1, <2>2, QuotedStep
  <2>3. CASE UNCHANGED vars
    BY <2>1, <2>3 DEF vars, DefaultQuoteBounds
  <2> QED BY <2>1, <2>2, <2>3
<1> QED BY <1>1, <1>2, Invariance, PTL DEF Spec

-----------------------------------------------------------------------------
(***************************************************************************)
(* Trades.                                                                 *)
(***************************************************************************)
(***************************************************************************)
(* The inductive invariant.                                                *)
(***************************************************************************)
Statuses == {"aborted", "built", "simulated", "sent", "ok", "err"}
Exits    == {"running", "success", "failure"}
Trades ==
  [line : CommandLines, ix : CommandLines, seen : U64,
   status : Statuses, fill : U64, size : Int, exit : Exits]

(* What a trade's status and exit code have behind them: the gate of its   *)
(* command, the flag it was typed with and, once it executed, its limit.   *)
TradeOK(t) ==
  /\ t.ix = Encoded(t.line)
  /\ t.status # "aborted" => GatePasses(t.line, t.seen)
  /\ t.status = "simulated" => t.line.simulate
  /\ t.exit = "success" => t.status \in {"simulated", "ok"}
  /\ t.status = "ok" /\ t.line.kind = "cpi" /\ t.size # 0 => LimitAllows(t.line, t.fill)

TradesOK ==
  /\ trade \in Seq(Trades) /\ Len(trade) <= MaxTrades
  /\ \A n \in 1 .. Len(trade) : TradeOK(trade[n])

(* A context keeps the LP and the terms it was deployed with.              *)
ContextsOK ==
  /\ acct \in [Ctxs -> Accounts]
  /\ \A c \in Ctxs : /\ AccountOK(acct[c])
                     /\ acct[c].lp_pda = Deployed[c].lp
                     /\ acct[c].terms = Deployed[c].payload.terms

BooksTyped ==
  /\ pos \in [Users \cup Lps -> Int] /\ direct \in [Lps -> Int]
  /\ price \in Prices /\ hyperp \in BOOLEAN

(* Every LP deployed a cap, and one under i128::MAX: an inventory without  *)
(* one may saturate, and then parts from the position.                     *)
NarrowCaps == \A c \in Ctxs : Deployed[c].payload.terms.max_inventory_abs \in 1 .. I128_MAX - 1

TradeIInv ==
  /\ TradesOK /\ ContextsOK /\ BooksTyped
  /\ NarrowCaps => BookMirrorsEngine

LEMMA PricesFit == Prices \subseteq U64 /\ \A p \in Prices : p # 0
  BY TradeAssumption DEF U64

LEMMA EncodedLine ==
  ASSUME NEW req \in CommandLines
  PROVE  /\ Encoded(req) \in CommandLines /\ Encoded(req).kind = req.kind
         /\ Encoded(req).limit = req.limit /\ Encoded(req).size = req.size
  BY DEF Encoded, CommandLines

(* Replacing one trade by a good one keeps every trade good.               *)
LEMMA Replaced ==
  ASSUME TradesOK, NEW n \in 1 .. Len(trade), NEW t \in Trades, TradeOK(t),
         trade' = [trade EXCEPT ![n] = t]
  PROVE  TradesOK'
<1>1. Len(trade) \in Nat /\ DOMAIN trade = 1 .. Len(trade) /\ trade \in [1 .. Len(trade) -> Trades]
  BY DEF TradesOK
<1>2. trade' \in [1 .. Len(trade) -> Trades]
  BY <1>1
<1>3. trade' \in Seq(Trades) /\ Len(trade') = Len(trade)
  BY <1>1, <1>2
<1>4. ASSUME NEW k \in 1 .. Len(trade) PROVE TradeOK(trade'[k])
  <2>1. trade'[k] = IF k = n THEN t ELSE trade[k]
    BY <1>1
  <2> QED BY <2>1 DEF TradesOK
<1> QED BY <1>3, <1>4 DEF TradesOK

LEMMA TradesBeginWell == TradeInit => TradeIInv
<1> SUFFICES ASSUME TradeInit PROVE TradeIInv
  OBVIOUS
<1>1. TradesOK
  BY TradeAssumption DEF TradeInit, TradesOK
<1>2. ASSUME NEW c \in Ctxs
      PROVE  /\ AccountOK(acct[c]) /\ acct[c].lp_pda = Deployed[c].lp
             /\ acct[c].terms = Deployed[c].payload.terms /\ acct[c].inventory = 0
  <2> DEFINE b == Blank("ballast", TRUE)
  <2>1. /\ Deployed[c].lp \in Keys /\ Deployed[c].payload \in Payloads
        /\ ParsesInit(Deployed[c].payload)
        /\ Validates(Deployed[c].payload.terms, Deployed[c].lp)
    BY TradeAssumption
  <2>2. AccountOK(b) /\ b.magic = "zero" /\ b.owner = "ballast"
    BY BlankOK DEF Blank
  <2>3. acct[c] = Stamped(b, Deployed[c].lp, Deployed[c].payload)
    BY DEF TradeInit
  <2> HIDE DEF b
  <2>4. AccountOK(acct[c])
    BY <2>1, <2>2, <2>3, StampedOK
  <2>5. b \in Accounts
    BY <2>2 DEF AccountOK
  <2> QED BY <2>3, <2>4, <2>5 DEF Stamped, Accounts
<1>3. ContextsOK
  BY <1>2 DEF ContextsOK, AccountOK, TradeInit
<1>4. BooksTyped
  BY DEF TradeInit, BooksTyped
<1>5. BookMirrorsEngine
  <2>1. ASSUME NEW lp \in Lps
        PROVE  pos[lp] = 0 /\ direct[lp] = 0 /\ acct[Registered[lp]].inventory = 0
    BY <1>2, TradeAssumption DEF TradeInit
  <2> QED BY <2>1 DEF BookMirrorsEngine
<1> QED BY <1>1, <1>3, <1>4, <1>5 DEF TradeIInv

(***************************************************************************)
(* The client: a step changes one trade, and no book.                      *)
(***************************************************************************)
LEMMA BooksStand ==
  ASSUME TradeIInv, UNCHANGED books, price' \in Prices, hyperp' \in BOOLEAN, TradesOK'
  PROVE  TradeIInv'
  BY DEF TradeIInv, books, ContextsOK, BooksTyped, BookMirrorsEngine, Bound, NarrowCaps

LEMMA CommandKeeps ==
  ASSUME TradeIInv, NEW req \in Requests, Command(req)
  PROVE  TradeIInv'
<1> DEFINE ok == OracleResolves(req) /\ GatePasses(req, price)
           t  == [line |-> req, ix |-> Encoded(req), seen |-> price, fill |-> 0, size |-> 0,
                  status |-> IF ok THEN "built" ELSE "aborted",
                  exit |-> IF ok THEN "running" ELSE "failure"]
<1>1. req \in CommandLines /\ price \in U64 /\ 0 \in U64
  BY TradeAssumption, PricesFit, WidthAssumption DEF TradeIInv, BooksTyped, U64
<1>2. t \in Trades
  BY <1>1, EncodedLine DEF Trades, Statuses, Exits
<1>3. TradeOK(t)
  BY DEF TradeOK
<1>4. trade' = Append(trade, t) /\ Len(trade) < MaxTrades /\ UNCHANGED <<books, price, hyperp>>
  BY DEF Command
<1> HIDE DEF t
<1>5. TradesOK'
  <2>1. /\ trade \in Seq(Trades) /\ Len(trade) \in Nat
        /\ \A k \in 1 .. Len(trade) : TradeOK(trade[k])
    BY DEF TradeIInv, TradesOK
  <2>2. /\ trade' \in Seq(Trades) /\ Len(trade') = Len(trade) + 1
        /\ \A k \in 1 .. Len(trade) + 1 : trade'[k] = IF k = Len(trade) + 1 THEN t ELSE trade[k]
    BY <1>2, <1>4, <2>1
  <2>3. ASSUME NEW k \in 1 .. Len(trade) + 1 PROVE TradeOK(trade'[k])
    BY <1>3, <2>1, <2>2
  <2>4. Len(trade') <= MaxTrades
    BY <1>4, <2>1, <2>2, TradeAssumption
  <2> QED BY <2>2, <2>3, <2>4 DEF TradesOK
<1> QED BY <1>4, <1>5, BooksStand DEF TradeIInv, BooksTyped

(* The status of one trade moves on, or its exit code does: what it needs  *)
(* to have behind it is there.                                             *)
Advances(n, status, exit) ==
  /\ trade' = [trade EXCEPT ![n] = [trade[n] EXCEPT !.status = status, !.exit = exit]]
  /\ status # "aborted" => trade[n].status # "aborted"
  /\ status = "simulated" => trade[n].line.simulate
  /\ exit = "success" => status \in {"simulated", "ok"}
  /\ status = "ok" => trade[n].status = "ok"

LEMMA ClientKeeps ==
  ASSUME TradeIInv, NEW n \in 1 .. Len(trade),
         Simulate(n) \/ Send(n) \/ Report(n) \/ LoseAnswer(n) \/ Refuse(n)
  PROVE  TradeIInv'
<1>1. UNCHANGED <<books, price, hyperp>>
  BY DEF Simulate, Send, Report, LoseAnswer, Refuse
<1>2. trade[n] \in Trades /\ TradeOK(trade[n])
  BY DEF TradeIInv, TradesOK
<1>3. trade \in Seq(Trades) /\ n \in DOMAIN trade
  BY DEF TradeIInv, TradesOK
<1>4. \E status \in Statuses, exit \in Exits : Advances(n, status, exit)
  <2>1. /\ trade[n].exit \in Exits /\ trade[n].status \in Statuses
        /\ trade[n].exit = "success" => trade[n].status \in {"simulated", "ok"}
    BY <1>2 DEF Trades, TradeOK
  <2>2. CASE Simulate(n)
    <3>1. PICK exit \in {"success", "failure"} :
            trade' = [trade EXCEPT ![n].status = "simulated", ![n].exit = exit]
      BY <2>2 DEF Simulate
    <3>2. Advances(n, "simulated", exit)
      BY <2>2, <3>1, <1>3 DEF Advances, Simulate
    <3> QED BY <3>2 DEF Statuses, Exits
  <2>3. CASE Send(n)
    <3>1. Advances(n, "sent", trade[n].exit)
      BY <2>1, <2>3, <1>2, <1>3 DEF Advances, Send, Trades
    <3> QED BY <2>1, <3>1 DEF Statuses
  <2>4. CASE Report(n)
    <3>1. Advances(n, trade[n].status, IF trade[n].status = "ok" THEN "success" ELSE "failure")
      BY <2>4, <1>2, <1>3 DEF Advances, Report, Trades
    <3> QED BY <2>1, <3>1 DEF Exits
  <2>5. CASE LoseAnswer(n)
    <3>1. Advances(n, IF trade[n].status = "built" THEN "aborted" ELSE trade[n].status, "failure")
      BY <2>5, <1>2, <1>3 DEF Advances, LoseAnswer, Trades
    <3> QED BY <2>1, <3>1 DEF Statuses, Exits
  <2>6. CASE Refuse(n)
    <3>1. Advances(n, "err", trade[n].exit)
      BY <2>1, <2>6, <1>2, <1>3 DEF Advances, Refuse, Trades
    <3> QED BY <2>1, <3>1 DEF Statuses
  <2> QED BY <2>2, <2>3, <2>4, <2>5, <2>6
<1>5. PICK status \in Statuses, exit \in Exits : Advances(n, status, exit)
  BY <1>4
<1> DEFINE t == [trade[n] EXCEPT !.status = status, !.exit = exit]
<1>6. t \in Trades
  BY <1>2 DEF Trades, Statuses, Exits
<1>7. /\ t.line = trade[n].line /\ t.ix = trade[n].ix /\ t.seen = trade[n].seen
      /\ t.size = trade[n].size /\ t.fill = trade[n].fill /\ t.status = status /\ t.exit = exit
  BY <1>2 DEF Trades
<1> HIDE DEF t
<1>8. TradeOK(t)
  BY <1>2, <1>5, <1>7 DEF TradeOK, Advances
<1>9. TradesOK'
  BY <1>5, <1>6, <1>8, Replaced DEF TradeIInv, Advances, t
<1> QED BY <1>1, <1>9, BooksStand DEF TradeIInv, BooksTyped

(***************************************************************************)
(* Percolator: what a fill does to the positions, and the matcher to the   *)
(* context it was asked for.                                               *)
(***************************************************************************)
LEMMA MoveShifts ==
  ASSUME TradeIInv, NEW n \in 1 .. Len(trade), trade[n].status = "sent",
         NEW size \in Int, NEW exec \in U64, Move(n, size, exec),
         trade[n].ix.kind = "cpi" /\ size # 0 => LimitAllows(trade[n].ix, exec)
  PROVE  /\ TradesOK' /\ pos' \in [Users \cup Lps -> Int]
         /\ \A lp \in Lps : pos'[lp] = IF lp = trade[n].ix.lp THEN pos[lp] - size ELSE pos[lp]
<1>1. trade[n] \in Trades /\ TradeOK(trade[n]) /\ trade \in Seq(Trades) /\ n \in DOMAIN trade
  BY DEF TradeIInv, TradesOK
<1>2. /\ trade[n].ix \in CommandLines /\ trade[n].line \in CommandLines
      /\ trade[n].ix = Encoded(trade[n].line)
  BY <1>1 DEF Trades, TradeOK
<1>3. trade[n].ix.user \in Users /\ trade[n].ix.lp \in Lps
  BY <1>2 DEF CommandLines
<1> DEFINE t == [trade[n] EXCEPT !.status = "ok", !.size = size, !.fill = exec]
<1>4. trade' = [trade EXCEPT ![n] = t]
  BY <1>1 DEF Move, Trades
<1>5. t \in Trades
  BY <1>1 DEF Trades, Statuses
<1>6. /\ t.line = trade[n].line /\ t.ix = trade[n].ix /\ t.seen = trade[n].seen
      /\ t.size = size /\ t.fill = exec /\ t.status = "ok" /\ t.exit = trade[n].exit
  BY <1>1 DEF Trades
<1> HIDE DEF t
<1>7. TradeOK(t)
  <2>1. t.line.kind = "cpi" /\ t.size # 0 => LimitAllows(t.line, t.fill)
    BY <1>2, <1>6, EncodedLine DEF LimitAllows
  <2> QED BY <2>1, <1>1, <1>6 DEF TradeOK
<1>8. TradesOK'
  BY <1>4, <1>5, <1>7, Replaced DEF TradeIInv
<1>9. pos \in [Users \cup Lps -> Int] /\ Users \cap Lps = {}
  BY TradeAssumption DEF TradeIInv, BooksTyped
<1>10. pos' = [pos EXCEPT ![trade[n].ix.user] = @ + size, ![trade[n].ix.lp] = @ - size]
  BY DEF Move
<1> QED BY <1>3, <1>8, <1>9, <1>10

(* TradeCpi: the context asked is the one of the LP Percolator signs for,  *)
(* the matcher answers only if it is bound to it, and takes out of its     *)
(* inventory what the position gets.                                       *)
LEMMA TradeCpiKeeps ==
  ASSUME TradeIInv, NEW n \in 1 .. Len(trade), TradeCpi(n)
  PROVE  TradeIInv'
<1> DEFINE ix == trade[n].ix
           call == MatchCall(n)
           a  == acct[ix.ctx]
           q  == Quoted(n)
           m  == Matched(a, q, call)
<1>1. ix \in CommandLines /\ n \in Nat
  <2>1. trade[n] \in Trades
    BY DEF TradeIInv, TradesOK
  <2> QED BY <2>1 DEF Trades
<1>2. ix.lp \in Lps /\ ix.lp \in Keys /\ ix.ctx \in Ctxs /\ ix.size \in I128
  BY <1>1, TradeAssumption DEF CommandLines
<1>3. call \in Calls
  BY <1>1, <1>2, PricesFit DEF MatchCall, Calls, TradeIInv, BooksTyped
<1>4. /\ trade[n].status = "sent" /\ ix.kind = "cpi" /\ ix.ctx = Registered[ix.lp]
      /\ q.err = "Ok" /\ (q.exec_size = 0 \/ LimitAllows(ix, q.exec_price))
      /\ acct' = [acct EXCEPT ![ix.ctx] = m] /\ Move(n, q.exec_size, q.exec_price)
      /\ UNCHANGED <<direct, price, hyperp>>
  BY DEF TradeCpi
<1>5. AccountOK(a) /\ a \in Accounts
  BY <1>2 DEF TradeIInv, ContextsOK, AccountOK
<1>6. /\ a.magic = "ballast" /\ a.owner = "ballast" /\ a.lp_pda = ix.lp
      /\ FillOK(q, a.terms, a.inventory, call.oracle, call.size)
      /\ a.terms.allow_fills = ALLOW_FILLS_NEVER => q = Rejected
  <2>1. q = MatchOutcome(a, ix.lp, TRUE, call)
    BY DEF Quoted
  <2>2. q.err = "Ok"
    BY <1>4
  <2>3. \A signer \in BOOLEAN :
          LET out == MatchOutcome(a, ix.lp, signer, call)
          IN  out.err = "Ok" =>
                /\ a.magic = "ballast" /\ a.owner = "ballast" /\ a.lp_pda = ix.lp
                /\ FillOK(out, a.terms, a.inventory, call.oracle, call.size)
                /\ a.terms.allow_fills = ALLOW_FILLS_NEVER => out = Rejected
    <3> HIDE DEF q, call, a, ix
    <3> QED BY <1>2, <1>3, <1>5, MatchOutcomeSound
  <2> HIDE DEF q, call, a, ix
  <2> QED BY <2>1, <2>2, <2>3
<1> HIDE DEF q, call
<1>7. AccountOK(m) /\ m \in Accounts
  BY <1>3, <1>5, <1>6, MatchedOK DEF AccountOK
<1>8. m.lp_pda = a.lp_pda /\ m.terms = a.terms /\ m.ret.exec_size = q.exec_size
  BY <1>5 DEF Matched, Accounts, Returned
<1>9. NarrowCaps => m.inventory = a.inventory - q.exec_size
  <2>1. ASSUME NarrowCaps PROVE NarrowCap(a)
    BY <2>1, <1>2 DEF NarrowCaps, NarrowCap, TradeIInv, ContextsOK
  <2> QED BY <2>1, <1>3, <1>5, <1>6, <1>8, MatchedExactly DEF MovedExactly
<1>10. q.exec_size \in Int /\ q.exec_price \in U64
  BY <1>3, <1>6 DEF FillOK, Calls, I128
<1> HIDE DEF a, m
<1>11. \A c \in Ctxs : acct'[c] = IF c = ix.ctx THEN m ELSE acct[c]
  BY <1>4 DEF TradeIInv, ContextsOK
<1>12. ContextsOK'
  <2>1. acct' \in [Ctxs -> Accounts]
    BY <1>4, <1>7 DEF TradeIInv, ContextsOK
  <2> QED BY <2>1, <1>7, <1>8, <1>11 DEF TradeIInv, ContextsOK, a
<1>13. /\ TradesOK' /\ pos' \in [Users \cup Lps -> Int]
       /\ \A lp \in Lps : pos'[lp] = IF lp = ix.lp THEN pos[lp] - q.exec_size ELSE pos[lp]
  BY <1>4, <1>10, MoveShifts
<1>14. BooksTyped'
  BY <1>4, <1>13 DEF TradeIInv, BooksTyped
<1>15. ASSUME NarrowCaps, NEW lp \in Lps
       PROVE  pos'[lp] - direct'[lp]
                = IF Bound(lp)' THEN acct'[Registered[lp]].inventory ELSE 0
  <2>1. /\ pos[lp] \in Int /\ direct[lp] \in Int /\ Registered[lp] \in Ctxs
        /\ direct'[lp] = direct[lp] /\ a.inventory \in Int
    BY <1>4, <1>5, TradeAssumption DEF TradeIInv, BooksTyped, Accounts, I128
  <2>2. pos[lp] - direct[lp] = IF Bound(lp) THEN acct[Registered[lp]].inventory ELSE 0
    BY <1>15 DEF TradeIInv, BookMirrorsEngine
  <2>3. CASE lp = ix.lp
    <3>1. /\ Registered[lp] = ix.ctx /\ acct[ix.ctx] = a /\ acct'[ix.ctx] = m
          /\ a.lp_pda = lp /\ m.lp_pda = lp
      BY <2>3, <1>2, <1>4, <1>6, <1>8, <1>11 DEF a
    <3>2. Bound(lp) /\ Bound(lp)'
      BY <3>1 DEF Bound
    <3>3. m.inventory = a.inventory - q.exec_size /\ pos'[lp] = pos[lp] - q.exec_size
      BY <2>3, <1>9, <1>13, <1>15
    <3>4. pos[lp] - direct[lp] = a.inventory
      BY <3>1, <3>2, <2>2
    <3>5. pos'[lp] - direct'[lp] = m.inventory
      BY <3>3, <3>4, <2>1, <1>10
    <3> QED BY <3>1, <3>2, <3>5
  <2>4. CASE lp # ix.lp
    <3>1. Registered[lp] = ix.ctx => ~Bound(lp) /\ ~Bound(lp)'
      BY <2>4, <1>2, <1>6, <1>8, <1>11 DEF Bound, a
    <3> QED BY <2>1, <2>2, <2>4, <3>1, <1>11, <1>13 DEF Bound
  <2> QED BY <2>3, <2>4
<1> QED BY <1>12, <1>13, <1>14, <1>15 DEF TradeIInv, BookMirrorsEngine, NarrowCaps

(* TradeNoCpi does not ask the matcher: what the position gets is recorded *)
(* as having come that way.                                                *)
LEMMA TradeNoCpiKeeps ==
  ASSUME TradeIInv, NEW n \in 1 .. Len(trade), TradeNoCpi(n)
  PROVE  TradeIInv'
<1> DEFINE ix == trade[n].ix
<1>1. ix \in CommandLines
  <2>1. trade[n] \in Trades
    BY DEF TradeIInv, TradesOK
  <2> QED BY <2>1 DEF Trades
<1>2. ix.lp \in Lps /\ ix.size \in Int
  BY <1>1 DEF CommandLines, I128
<1>3. /\ trade[n].status = "sent" /\ ix.kind = "nocpi"
      /\ direct' = [direct EXCEPT ![ix.lp] = @ - ix.size]
      /\ Move(n, ix.size, price) /\ UNCHANGED <<acct, price, hyperp>>
  BY DEF TradeNoCpi
<1>4. price \in U64 /\ direct \in [Lps -> Int]
  BY PricesFit DEF TradeIInv, BooksTyped
<1> HIDE DEF ix
<1>5. /\ TradesOK' /\ pos' \in [Users \cup Lps -> Int]
      /\ \A lp \in Lps : pos'[lp] = IF lp = ix.lp THEN pos[lp] - ix.size ELSE pos[lp]
  BY <1>2, <1>3, <1>4, MoveShifts DEF ix
<1>6. BooksTyped' /\ ContextsOK'
  BY <1>2, <1>3, <1>4, <1>5 DEF TradeIInv, BooksTyped, ContextsOK
<1>7. ASSUME NEW lp \in Lps
      PROVE  pos'[lp] - direct'[lp] = pos[lp] - direct[lp]
  <2>1. pos[lp] \in Int /\ direct[lp] \in Int
    BY DEF TradeIInv, BooksTyped
  <2>2. direct'[lp] = IF lp = ix.lp THEN direct[lp] - ix.size ELSE direct[lp]
    BY <1>3, <1>4
  <2> QED BY <2>1, <2>2, <1>2, <1>5
<1>8. NarrowCaps' => BookMirrorsEngine'
  BY <1>3, <1>7 DEF TradeIInv, BookMirrorsEngine, NarrowCaps, Bound
<1> QED BY <1>5, <1>6, <1>8 DEF TradeIInv

LEMMA TradeStep == TradeIInv /\ [TradeNext]_tradeVars => TradeIInv'
<1> SUFFICES ASSUME TradeIInv, [TradeNext]_tradeVars PROVE TradeIInv'
  OBVIOUS
<1>1. CASE UNCHANGED tradeVars
  BY <1>1 DEF tradeVars, TradeIInv, TradesOK, ContextsOK, BooksTyped, BookMirrorsEngine, Bound, NarrowCaps
<1>2. ASSUME NEW req \in Requests, Command(req) PROVE TradeIInv'
  BY <1>2, CommandKeeps
<1>3. ASSUME NEW n \in 1 .. Len(trade),
             \/ Simulate(n) \/ Send(n) \/ Report(n) \/ LoseAnswer(n)
             \/ TradeCpi(n) \/ TradeNoCpi(n) \/ Refuse(n)
      PROVE  TradeIInv'
  BY <1>3, ClientKeeps, TradeCpiKeeps, TradeNoCpiKeeps
<1>4. ASSUME NEW p \in Prices, MovePrice(p) PROVE TradeIInv'
  BY <1>4, BooksStand DEF MovePrice, TradeIInv, TradesOK, BooksTyped
<1> QED BY <1>1, <1>2, <1>3, <1>4 DEF TradeNext

LEMMA TradeInvariance == TradeSpec => []TradeIInv
<1> QED BY TradesBeginWell, TradeStep, PTL DEF TradeSpec

-----------------------------------------------------------------------------
(* Accounts, positions and the records of the trades keep their types: a   *)
(* fill that is executed has a price and a size of the widths Percolator   *)
(* reads.                                                                  *)
THEOREM TradeTypeCorrect == TradeSpec => []TradeTypeOK
<1>1. TradeIInv => TradeTypeOK
  <2>1. SUFFICES ASSUME TradeIInv PROVE TradeTypeOK
    OBVIOUS
  <2>2. \A n \in DOMAIN trade : trade[n] \in Trades
    BY <2>1 DEF TradeIInv, TradesOK
  <2>3. Len(trade) <= MaxTrades
    BY <2>1 DEF TradeIInv, TradesOK
  <2> QED BY <2>1, <2>2, <2>3
       DEF TradeIInv, ContextsOK, BooksTyped, Trades, Statuses, Exits, TradeTypeOK, U64
<1> QED BY <1>1, TradeInvariance, PTL

(* Whatever is typed, lost, repeated or registered wrongly, an LP's        *)
(* inventory and its position never part, as long as the caps that were    *)
(* deployed are under i128::MAX.                                           *)
THEOREM BooksTogether == NarrowCaps => (TradeSpec => []BookMirrorsEngine)
<1> SUFFICES ASSUME NarrowCaps PROVE TradeSpec => []BookMirrorsEngine
  OBVIOUS
<1>1. TradeIInv => BookMirrorsEngine
  BY DEF TradeIInv
<1> QED BY <1>1, TradeInvariance, PTL

(* No fill of trade-cpi is worse than its limit, and none of trade-nocpi   *)
(* is outside its bounds at the price that was read.                       *)
THEOREM PriceAsked == TradeSpec => []AskedPriceHolds
<1>1. TradeIInv => AskedPriceHolds
  <2>1. SUFFICES ASSUME TradeIInv, NEW n \in DOMAIN trade, Executed(n)
                 PROVE  LET t == trade[n]
                        IN  /\ t.line.kind = "cpi" /\ t.size # 0 => LimitAllows(t.line, t.fill)
                            /\ t.line.kind = "nocpi" /\ t.fill = t.seen =>
                                 /\ t.line.max = 0 \/ t.fill <= t.line.max
                                 /\ t.fill >= t.line.min
    BY DEF AskedPriceHolds
  <2>2. trade[n] \in Trades /\ TradeOK(trade[n]) /\ trade[n].status = "ok"
    BY <2>1 DEF TradeIInv, TradesOK, Executed
  <2>3. trade[n].seen >= 0
    BY <2>2 DEF Trades, U64
  <2> QED BY <2>2, <2>3 DEF TradeOK, GatePasses
<1> QED BY <1>1, TradeInvariance, PTL

(* A command that exits with success and was no simulation was executed,   *)
(* whatever answer got lost.                                               *)
THEOREM SuccessIsExecuted == TradeSpec => []SuccessMeansExecuted
<1>1. TradeIInv => SuccessMeansExecuted
  BY DEF TradeIInv, TradesOK, TradeOK, SuccessMeansExecuted, Executed
<1> QED BY <1>1, TradeInvariance, PTL
==============================================================================
