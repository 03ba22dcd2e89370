--------------------------- MODULE MatcherContext ---------------------------
(***************************************************************************)
(* A context account of the Ballast matcher and what Init and Match do to  *)
(* one: every guard in the order of the code, every error, and the account *)
(* afterwards.  BallastMatcher makes instructions of them, TradeFlow the   *)
(* call Percolator makes in the middle of a trade.                         *)
(***************************************************************************)
EXTENDS MatcherPricing

CONSTANTS
  Keys,          (* public keys an instruction may name as its LP PDA      *)
  ZERO_KEY,      (* the all-zero public key                                *)
  ALLOWLIST_MAX, (* slots of the allowlist; the code's is 4                *)
  Ctxs           (* addresses of context accounts                          *)

ASSUME KeyAssumption == ZERO_KEY \in Keys /\ ALLOWLIST_MAX \in Nat

VARIABLE acct    (* context -> its account                                 *)

Slots == [1 .. ALLOWLIST_MAX -> Keys]

(* framed: the length, the tag and the strict-zero padding are as the      *)
(* parser wants them.  An id stands for (req_id, lp_account_id).           *)
Payloads == [framed : BOOLEAN, terms : Terms, allowlist_count : Nat, allowlist : Slots]
Calls    == [framed : BOOLEAN, id : Nat, oracle : U64, size : I128]

(***************************************************************************)
(* A context account: zeroed memory until Init stamps its magic.           *)
(***************************************************************************)
ZeroTerms  == [kind |-> 0, allow_fills |-> 0, fee_bps |-> 0, spread_bps |-> 0,
               max_total_bps |-> 0, impact_k_bps |-> 0, liquidity |-> 0,
               max_fill_abs |-> 0, max_inventory_abs |-> 0]
ZeroReturn == [kind |-> "none", exec_price |-> 0, exec_size |-> 0, id |-> 0, oracle |-> 0]

Blank(owner, full) ==
  [owner |-> owner, full |-> full, magic |-> "zero", lp_pda |-> ZERO_KEY,
   terms |-> ZeroTerms, allowlist_count |-> 0,
   allowlist |-> [i \in 1 .. ALLOWLIST_MAX |-> ZERO_KEY],
   inventory |-> 0, last_oracle |-> 0, last_exec |-> 0, ret |-> ZeroReturn]

Errors == {"Ok", "IncorrectProgramId", "InvalidAccountData", "AccountDataTooSmall",
           "AccountAlreadyInitialized", "UninitializedAccount", "InvalidInstructionData",
           "MissingRequiredSignature", "ArithmeticOverflow", "ReadonlyDataModified", "Panic"}

Accounts ==
  [owner : {"system", "ballast"}, full : BOOLEAN, magic : {"zero", "ballast"},
   lp_pda : Keys, terms : Terms, allowlist_count : Nat, allowlist : Slots,
   inventory : I128, last_oracle : U64, last_exec : U64,
   ret : [kind : {"none", "rejected", "zero_fill", "filled"}, exec_price : U64,
          exec_size : I128, id : Nat, oracle : U64]]

(***************************************************************************)
(* Init.                                                                   *)
(***************************************************************************)
ParsesInit(p) ==
  /\ p.framed
  /\ p.terms.kind \in {KIND_PASSIVE, KIND_VAMM}
  /\ p.terms.allow_fills \in {ALLOW_FILLS_NEVER, ALLOW_FILLS_FILL}
  /\ p.terms.max_total_bps <= MAX_TOTAL_BPS_CEILING
  /\ p.terms.fee_bps + p.terms.spread_bps <= p.terms.max_total_bps
  /\ p.terms.kind = KIND_PASSIVE => p.terms.impact_k_bps = 0 /\ p.terms.liquidity = 0
  /\ p.terms.kind = KIND_VAMM => p.terms.liquidity # 0
  /\ p.allowlist_count <= ALLOWLIST_MAX
  /\ \A i \in p.allowlist_count + 1 .. ALLOWLIST_MAX : p.allowlist[i] = ZERO_KEY

(* MatcherState::validate: the terms, and an LP that is not the zero key.  *)
Validates(terms, lp_pda) == TermsOK(terms) /\ lp_pda # ZERO_KEY

InitError(a, lp, writable, p) ==
  IF a.owner # "ballast" THEN "IncorrectProgramId"
  ELSE IF ~writable THEN "InvalidAccountData"
  ELSE IF ~a.full THEN "AccountDataTooSmall"
  ELSE IF a.magic # "zero" THEN "AccountAlreadyInitialized"
  ELSE IF ~ParsesInit(p) THEN "InvalidInstructionData"
  ELSE IF ~Validates(p.terms, lp) THEN "InvalidAccountData"
  ELSE "Ok"

Stamped(a, lp, p) ==
  [a EXCEPT !.magic = "ballast", !.lp_pda = lp, !.terms = p.terms,
            !.allowlist_count = p.allowlist_count, !.allowlist = p.allowlist,
            !.inventory = 0, !.last_oracle = 0, !.last_exec = 0]

(***************************************************************************)
(* Match.                                                                  *)
(***************************************************************************)
(* Mutant: FM-3 is missing, any LP PDA that signs may move any context.    *)
MatchGuardAnyLp(a, lp, signer, call) ==
  IF a.owner # "ballast" THEN "IncorrectProgramId"
  ELSE IF ~a.full THEN "AccountDataTooSmall"
  ELSE IF a.magic # "ballast" THEN "UninitializedAccount"
  ELSE IF ~Validates(a.terms, a.lp_pda) THEN "InvalidAccountData"
  ELSE IF ~signer THEN "MissingRequiredSignature"
  ELSE IF ~call.framed \/ call.oracle = 0 \/ call.size = I128_MIN
       THEN "InvalidInstructionData"
  ELSE "Ok"

MatchGuard(a, lp, signer, call) ==
  IF a.owner # "ballast" THEN "IncorrectProgramId"
  ELSE IF ~a.full THEN "AccountDataTooSmall"
  ELSE IF a.magic # "ballast" THEN "UninitializedAccount"
  ELSE IF ~Validates(a.terms, a.lp_pda) THEN "InvalidAccountData"
  ELSE IF ~signer THEN "MissingRequiredSignature"
  ELSE IF a.lp_pda # lp THEN "InvalidAccountData"
  ELSE IF ~call.framed THEN "InvalidInstructionData"
  ELSE IF call.oracle = 0 \/ call.size = I128_MIN THEN "InvalidInstructionData"
  ELSE "Ok"

(* Mutant: the LP's allow_trade_cpi_fills is stored and not consulted.     *)
OutcomeOfAnyDoor(a, lp, signer, call) ==
  LET err == MatchGuard(a, lp, signer, call)
  IN  IF err # "Ok" THEN Failed(err)
      ELSE ComputeFill(a.terms, a.inventory, call.oracle, call.size)

MatchOutcome(a, lp, signer, call) ==
  LET err == MatchGuard(a, lp, signer, call)
  IN  IF err # "Ok" THEN Failed(err)
      ELSE IF a.terms.allow_fills = ALLOW_FILLS_NEVER THEN Rejected
      ELSE ComputeFill(a.terms, a.inventory, call.oracle, call.size)

Returned(out, call) ==
  [kind |-> out.kind, exec_price |-> out.exec_price, exec_size |-> out.exec_size,
   id |-> call.id, oracle |-> call.oracle]

(* Mutants: the return is written with the state, when there is a fill;    *)
(* the LP's book moves to the taker's side.                                *)
MatchedStaleReturn(a, out, call) ==
  IF out.exec_size = 0 THEN a
  ELSE [a EXCEPT !.ret = Returned(out, call), !.inventory = Clamp(@ - out.exec_size),
                 !.last_oracle = call.oracle, !.last_exec = out.exec_price]

MatchedTakerSide(a, out, call) ==
  IF out.exec_size = 0 THEN [a EXCEPT !.ret = Returned(out, call)]
  ELSE [a EXCEPT !.ret = Returned(out, call), !.inventory = Clamp(@ + out.exec_size),
                 !.last_oracle = call.oracle, !.last_exec = out.exec_price]

(* The return scratch is written by every call that succeeds, the          *)
(* inventory and the audit prices by a call that fills.                    *)
Matched(a, out, call) ==
  IF out.exec_size = 0 THEN [a EXCEPT !.ret = Returned(out, call)]
  ELSE [a EXCEPT !.ret = Returned(out, call),
                 !.inventory = Clamp(@ - out.exec_size),
                 !.last_oracle = call.oracle,
                 !.last_exec = out.exec_price]

(* The handler does not look at is_writable: it is the runtime that fails  *)
(* an instruction which changed the data of a read-only account.           *)
MatchError(a, out, writable, call) ==
  IF out.err = "Ok" /\ ~writable /\ Matched(a, out, call) # a
  THEN "ReadonlyDataModified" ELSE out.err
=============================================================================
