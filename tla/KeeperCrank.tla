---------------------------- MODULE KeeperCrank ----------------------------
(***************************************************************************)
(* The keepers of a market: crank-bot.ts, which loops for ever (and        *)
(* keeper-crank.ts, one turn of it) and mainnet-liquidator.ts, which cron  *)
(* starts.  A keeper reads the slab, picks candidates, sends a             *)
(* permissionless KeeperCrank and waits for it; the market moves on        *)
(* between any two of these steps, an RPC call may throw at each, and what *)
(* was sent may still land after its sender gave up.  mainnet-crank.ts     *)
(* reads nothing and is one step.  Percolator and the network are          *)
(* external.                                                               *)
(***************************************************************************)
EXTENDS Integers, Sequences, FiniteSets, SequencesExt

CONSTANTS
  Accounts,   (* account slots of the slab                                 *)
  Size,       (* account -> |position_basis_q| when it has a position      *)
  Capital,    (* account -> its capital                                    *)
  Bots, Liquidators,   (* the processes, by the script they run            *)
  TxRoom,     (* candidates that fit into one transaction                  *)
  Budget      (* LIQ_BUDGET_PER_CRANK: candidates one crank handles        *)

ASSUME KeeperAssumption ==
  /\ Accounts \subseteq Nat /\ IsFiniteSet(Accounts)
  /\ Size \in [Accounts -> Nat \ {0}] /\ Capital \in [Accounts -> Nat]
  /\ Bots \cap Liquidators = {}
  /\ TxRoom \in Nat /\ TxRoom >= 2 /\ Budget \in Nat /\ Budget >= 2

Keepers == Bots \cup Liquidators

VARIABLES
  basis,   (* account -> "none", an "open" position, or one of a side that *)
           (* was "reset": a basis left over with no effective position    *)
  under,   (* accounts under their maintenance margin at the oracle price  *)
  phase,   (* "fresh", "stale" (no crank in the window) or "resolved"      *)
  step,    (* keeper -> "idle", "built" a transaction, "sent" it           *)
  cands,   (* keeper -> the candidates of its transaction                  *)
  wire     (* keepers whose last transaction is still on the wire          *)

keeperVars == <<basis, under, phase, step, cands, wire>>
slab == <<basis, under, phase>>

Live == phase # "resolved"

(***************************************************************************)
(* Picking the candidates.                                                 *)
(***************************************************************************)
(* Both sorts are stable and start from parseUsedIndices, ascending.       *)
Before(score, a, b) == score[a] > score[b] \/ (score[a] = score[b] /\ a < b)

Ranked(S, score) ==
  CHOOSE q \in [1 .. Cardinality(S) -> S] :
    \A m, n \in 1 .. Cardinality(S) : m < n => Before(score, q[m], q[n])

(* crank-bot.ts and keeper-crank.ts: every effective position, the highest *)
(* leverage first.  The oracle price is a factor of every score.           *)
Leverage ==
  [a \in Accounts |-> (Size[a] * 10000) \div (IF Capital[a] > 0 THEN Capital[a] ELSE 1)]
computeCandidates == Ranked({a \in Accounts : basis[a] = "open"}, Leverage)

Positions == {a \in Accounts : basis[a] # "none"}

(* Mutant: the smallest positions come first.                              *)
TopTwoAscending ==
  LET open == Reverse(Ranked(Positions, Size))
  IN  SubSeq(open, 1, IF Len(open) < 2 THEN Len(open) ELSE 2)

(* Mutant: the shortlist is not cut.                                       *)
TopTwoUncut == Ranked(Positions, Size)

(* mainnet-liquidator.ts: the two largest |position_basis_q|, no margin    *)
(* filter.                                                                 *)
TopTwo ==
  LET open == Ranked(Positions, Size)
  IN  SubSeq(open, 1, IF Len(open) < 2 THEN Len(open) ELSE 2)

(* encodeKeeperCrank: a candidate given as a number goes out as 0xFF,      *)
(* touch only; the liquidator names policy 0, FullClose.                   *)
FullClose(k) == k \in Liquidators

(***************************************************************************)
(* A keeper's turn.                                                        *)
(***************************************************************************)
(* One transaction per keeper is on the wire at most: the one of an        *)
(* earlier turn is taken to have expired.                                  *)
Build(k, list) ==
  /\ step[k] = "idle"
  /\ step' = [step EXCEPT ![k] = "built"] /\ cands' = [cands EXCEPT ![k] = list]
  /\ wire' = wire \ {k}
  /\ UNCHANGED slab

(* Mutant: the bot only cranks when there is a candidate.                  *)
ReadByBotIfNeeded(k) ==
  /\ k \in Bots /\ computeCandidates # <<>>
  /\ Build(k, computeCandidates)

ReadByBot(k) ==
  /\ k \in Bots
  /\ Build(k, computeCandidates)

(* LIQ_HALT on a resolved market, LIQ_IDLE without a position.             *)
ReadByLiquidator(k) ==
  /\ k \in Liquidators /\ Live /\ Positions # {}
  /\ Build(k, TopTwo)

(* A transaction over the size limit is refused before it is sent.         *)
TooLarge(k) ==
  /\ step[k] = "built" /\ Len(cands[k]) > TxRoom
  /\ step' = [step EXCEPT ![k] = "idle"] /\ cands' = [cands EXCEPT ![k] = <<>>]
  /\ UNCHANGED <<slab, wire>>

Send(k) ==
  /\ step[k] = "built" /\ Len(cands[k]) <= TxRoom
  /\ step' = [step EXCEPT ![k] = "sent"] /\ wire' = wire \cup {k}
  /\ UNCHANGED <<slab, cands>>

(* The turn ends: the crank was confirmed and reported, the confirmation   *)
(* or an RPC read threw, or `timeout` killed the process.                  *)
EndTurn(k) ==
  /\ step[k] \in {"built", "sent"}
  /\ step' = [step EXCEPT ![k] = "idle"]
  /\ cands' = IF k \in wire THEN cands ELSE [cands EXCEPT ![k] = <<>>]
  /\ UNCHANGED <<slab, wire>>

(* mainnet-crank.ts: a crank without candidates.                           *)
BareCrank ==
  /\ Live /\ phase' = "fresh"
  /\ UNCHANGED <<basis, under, step, cands, wire>>

(***************************************************************************)
(* The network and Percolator (external).                                  *)
(***************************************************************************)
Handled(k) ==
  {cands[k][i] : i \in {j \in 1 .. Len(cands[k]) : j <= Budget}}

(* A live market accrues; FullClose closes what is under its margin and    *)
(* settles the rest, which drops a leftover basis.                         *)
Crank(k) ==
  LET gone == IF FullClose(k)
              THEN {a \in Handled(k) : a \in under \/ basis[a] = "reset"} ELSE {}
  IN  /\ k \in wire /\ wire' = wire \ {k} /\ cands' = [cands EXCEPT ![k] = <<>>]
      /\ IF Live
         THEN /\ phase' = "fresh" /\ under' = under \ gone
              /\ basis' = [a \in Accounts |-> IF a \in gone THEN "none" ELSE basis[a]]
         ELSE UNCHANGED slab
      /\ UNCHANGED step

Expire(k) ==
  /\ k \in wire /\ wire' = wire \ {k} /\ cands' = [cands EXCEPT ![k] = <<>>]
  /\ UNCHANGED <<slab, step>>

Open(a) ==
  /\ Live /\ basis[a] = "none" /\ basis' = [basis EXCEPT ![a] = "open"]
  /\ UNCHANGED <<under, phase, step, cands, wire>>

(* The owner closes, or an ADL epoch of its side ends.                     *)
Close(a) ==
  /\ Live /\ basis[a] = "open"
  /\ \E left \in {"none", "reset"} : basis' = [basis EXCEPT ![a] = left]
  /\ under' = under \ {a}
  /\ UNCHANGED <<phase, step, cands, wire>>

PriceMove(a) ==
  /\ Live /\ basis[a] = "open"
  /\ under' = (under \ {a}) \cup ({a} \ under)
  /\ UNCHANGED <<basis, phase, step, cands, wire>>

(* No crank in the window; then anybody may call ResolvePermissionless.    *)
GoStale ==
  /\ phase = "fresh" /\ phase' = "stale"
  /\ UNCHANGED <<basis, under, step, cands, wire>>

Resolve ==
  /\ phase = "stale" /\ phase' = "resolved"
  /\ UNCHANGED <<basis, under, step, cands, wire>>

KeeperInit ==
  /\ basis = [a \in Accounts |-> "none"] /\ under = {} /\ phase = "fresh"
  /\ step = [k \in Keepers |-> "idle"] /\ cands = [k \in Keepers |-> <<>>] /\ wire = {}

Read(k) == ReadByBot(k) \/ ReadByLiquidator(k)

KeeperNext ==
  \/ \E k \in Keepers : Read(k) \/ TooLarge(k) \/ Send(k) \/ EndTurn(k) \/ Crank(k) \/ Expire(k)
  \/ \E a \in Accounts : Open(a) \/ Close(a) \/ PriceMove(a)
  \/ BareCrank \/ GoStale \/ Resolve

(* The loop and cron start every turn, every turn ends by itself, and      *)
(* neither the RPC nor the network fails a keeper for ever.                *)
KeeperFairness ==
  \A k \in Keepers : /\ WF_keeperVars(Read(k)) /\ WF_keeperVars(EndTurn(k))
                     /\ SF_keeperVars(Send(k)) /\ SF_keeperVars(Crank(k))

KeeperSpec == KeeperInit /\ [][KeeperNext]_keeperVars /\ KeeperFairness

-----------------------------------------------------------------------------
(* Types; the liquidator's transaction never holds more than two           *)
(* candidates, nor any keeper's an account twice.                          *)
KeeperTypeOK ==
  /\ basis \in [Accounts -> {"none", "open", "reset"}]
  /\ under \subseteq {a \in Accounts : basis[a] = "open"}
  /\ phase \in {"fresh", "stale", "resolved"} /\ wire \subseteq Keepers
  /\ step \in [Keepers -> {"idle", "built", "sent"}]
  /\ cands \in [Keepers -> Seq(Accounts)]
  /\ \A k \in Keepers : IsInjective(cands[k]) /\ (k \in Liquidators => Len(cands[k]) <= 2)

Larger(a) == {b \in Positions : Size[b] > Size[a] \/ (Size[b] = Size[a] /\ b < a)}

(* mainnet-liquidator.ts: "over-submission is safe", so no margin filter   *)
(* is needed: a position that stays among the two largest of a live market *)
(* does not stay under its margin.                                         *)
LargestAreLiquidated ==
  \A a \in Accounts : ~<>[](Live /\ a \in under /\ Cardinality(Larger(a)) < 2)

(* A live market is not left stale while the bot's candidates, all open    *)
(* positions, fit into its transaction: an empty market is cranked too.    *)
StaleIsCranked ==
  ~<>[](phase = "stale" /\ Cardinality({a \in Accounts : basis[a] = "open"}) <= TxRoom)
=============================================================================
