--------------------------- MODULE BallastMatcher ---------------------------
(***************************************************************************)
(* The Ballast matcher program: context accounts that LPs are bound to,    *)
(* Init (tag 2) and Match (tag 0), in any order and by anybody.  A Solana  *)
(* instruction is atomic, and one that returns an error leaves every       *)
(* account as it was: a failed call changes `last` only, the record of the *)
(* latest instruction and of what it answered.                             *)
(***************************************************************************)
EXTENDS MatcherContext

CONSTANTS
  InitPayloads,  (* Init payloads that arrive                              *)
  MatchCalls     (* Match payloads that arrive                             *)

ASSUME InputAssumption ==
  /\ InitPayloads \subseteq Payloads
  /\ MatchCalls \subseteq Calls

VARIABLE last    (* the latest instruction and its answer                  *)

vars == <<acct, last>>

NoCall == [framed |-> FALSE, id |-> 0, oracle |-> 0, size |-> 0]

Instruction(op, c, lp, signer, call, err) ==
  [op |-> op, ctx |-> c, lp |-> lp, signer |-> signer, call |-> call, err |-> err]

Initialized(c) == acct[c].magic = "ballast"

(***************************************************************************)
(* The instructions.                                                       *)
(***************************************************************************)
process_init(c, lp, writable, p) ==
  LET err == InitError(acct[c], lp, writable, p)
  IN  /\ acct' = IF err = "Ok" THEN [acct EXCEPT ![c] = Stamped(@, lp, p)] ELSE acct
      /\ last' = Instruction("init", c, lp, FALSE, NoCall, err)

process_match(c, lp, signer, writable, call) ==
  LET out == MatchOutcome(acct[c], lp, signer, call)
      err == MatchError(acct[c], out, writable, call)
  IN  /\ acct' = IF err = "Ok" THEN [acct EXCEPT ![c] = Matched(@, out, call)] ELSE acct
      /\ last' = Instruction("match", c, lp, signer, call, err)

(* An empty instruction or one with another tag.                           *)
process_unknown(c, lp) ==
  /\ UNCHANGED acct
  /\ last' = Instruction("unknown", c, lp, FALSE, NoCall, "InvalidInstructionData")

(* The system program creates the account and gives it to the matcher,     *)
(* zeroed; setup asks for MATCHER_CTX_SIZE bytes, others may ask for less. *)
CreateAccount(c, full) ==
  /\ acct[c].owner = "system"
  /\ acct' = [acct EXCEPT ![c] = Blank("ballast", full)]
  /\ last' = Instruction("create", c, ZERO_KEY, FALSE, NoCall, "Ok")

Init ==
  /\ acct = [c \in Ctxs |-> Blank("system", FALSE)]
  /\ \E c \in Ctxs : last = Instruction("none", c, ZERO_KEY, FALSE, NoCall, "Ok")

Next ==
  \E c \in Ctxs :
    \/ \E full \in BOOLEAN : CreateAccount(c, full)
    \/ \E lp \in Keys, writable \in BOOLEAN, p \in InitPayloads :
         process_init(c, lp, writable, p)
    \/ \E lp \in Keys, signer, writable \in BOOLEAN, call \in MatchCalls :
         process_match(c, lp, signer, writable, call)
    \/ \E lp \in Keys : process_unknown(c, lp)

Spec == Init /\ [][Next]_vars

-----------------------------------------------------------------------------
(* Every field of an account and of the latest instruction has its width.  *)
TypeOK ==
  /\ acct \in [Ctxs -> Accounts]
  /\ last \in [op : {"none", "create", "init", "match", "unknown"}, ctx : Ctxs,
               lp : Keys, signer : BOOLEAN, call : Calls, err : Errors]

(* The cap of an LP's inventory holds after any sequence of fills, partial *)
(* fills at the boundary included (check_inventory_limit).                 *)
InventoryWithinCap ==
  \A c \in Ctxs : acct[c].terms.max_inventory_abs # 0 =>
                    Abs(acct[c].inventory) <= acct[c].terms.max_inventory_abs

(* An LP that closed the trade-cpi door (allow_trade_cpi_fills = 0) keeps  *)
(* an untouched book, and every answer it gives is a refusal.              *)
ClosedDoorNeverFills ==
  \A c \in Ctxs : acct[c].terms.allow_fills = ALLOW_FILLS_NEVER =>
                    /\ acct[c].inventory = 0 /\ acct[c].last_exec = 0
                    /\ acct[c].ret.kind \in {"none", "rejected"}

(* No sequence of instructions reaches the arithmetic trap that            *)
(* overflow-checks = true arms in the sums of check_inventory_limit and in *)
(* BPS_DENOM - total_bps, at any inventory, cap and request.               *)
NeverPanics == last.err # "Panic"

(* What Percolator reads from the scratch after a successful Match answers *)
(* that very request: same id and oracle, a size of the request's sign,    *)
(* never larger, never larger than max_fill_abs.                           *)
ReturnAnswersRequest ==
  last.op = "match" /\ last.err = "Ok" =>
    LET r == acct[last.ctx].ret
    IN  /\ r.kind # "none" /\ r.id = last.call.id /\ r.oracle = last.call.oracle
        /\ IF last.call.size > 0 THEN r.exec_size \in 0 .. last.call.size
           ELSE r.exec_size \in last.call.size .. 0
        /\ Abs(r.exec_size) <= acct[last.ctx].terms.max_fill_abs

(* The LP is never filled on the wrong side of the oracle, nor further     *)
(* from it than its own max_total_bps (a floor may bring the price of a    *)
(* sell down by less than one unit).                                       *)
FillsWithinBand ==
  \A c \in Ctxs : LET r == acct[c].ret
                      band == r.oracle * acct[c].terms.max_total_bps
                  IN  /\ r.exec_size > 0 => /\ r.exec_price >= r.oracle
                                            /\ BPS_DENOM * (r.exec_price - r.oracle) <= band
                      /\ r.exec_size < 0 => /\ r.exec_price <= r.oracle
                                            /\ BPS_DENOM * (r.oracle - r.exec_price) < band + BPS_DENOM

(* FM-2 and FM-3: once a context is initialised, a byte of it changes only *)
(* in a Match that the LP PDA it is bound to signed.                       *)
OnlyBoundSignerMoves ==
  [][\A c \in Ctxs : Initialized(c) /\ acct'[c] # acct[c] =>
       /\ last'.op = "match" /\ last'.ctx = c
       /\ last'.signer /\ last'.lp = acct[c].lp_pda]_vars

(* As long as its cap is under i128::MAX, the book of an LP moves by       *)
(* exactly what the answer says: the saturating subtraction never          *)
(* saturates, so no fill is lost from the inventory the LP caps.           *)
FillsAreExact ==
  [][\A c \in Ctxs : acct'[c] # acct[c] /\ last'.op = "match"
                       /\ acct[c].terms.max_inventory_abs \in 1 .. I128_MAX - 1
       => acct'[c].inventory = acct[c].inventory - acct'[c].ret.exec_size]_vars

(* A context is bound once: its LP, its terms and its allowlist survive    *)
(* every later Init and every Match.                                       *)
BindingIsPermanent ==
  [][\A c \in Ctxs : Initialized(c) =>
       /\ acct'[c].magic = "ballast"
       /\ acct'[c].lp_pda = acct[c].lp_pda
       /\ acct'[c].terms = acct[c].terms
       /\ acct'[c].allowlist_count = acct[c].allowlist_count
       /\ acct'[c].allowlist = acct[c].allowlist]_vars

(***************************************************************************)
(* The abstract book each context account stands for.                      *)
(***************************************************************************)
BookOf(a) ==
  [owner |-> a.lp_pda,
   door |-> IF a.terms.allow_fills = ALLOW_FILLS_FILL THEN "open" ELSE "closed",
   cap |-> a.terms.max_inventory_abs, position |-> a.inventory]

Promise == INSTANCE LpBook WITH Books <- Ctxs, Owners <- Keys, NOBODY <- ZERO_KEY,
             Positions <- I128, Caps <- U128, book <- [c \in Ctxs |-> BookOf(acct[c])]

(* The program implements LpBook: whatever it is sent, a context is bound  *)
(* once, trades only if it was opened for it, and stays inside its cap.    *)
ImplementsLpBook == Promise!LBSpec
=============================================================================
