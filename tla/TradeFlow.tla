----------------------------- MODULE TradeFlow -----------------------------
(***************************************************************************)
(* A trade from the command line to the books: the commands trade-cpi and  *)
(* trade-nocpi, simulateOrSend, Percolator (external) and, called by it,   *)
(* the Ballast matcher.  A command reads the slab, checks what it read,    *)
(* sends one transaction and reports; between its read, its send, the      *)
(* execution and its report the price moves, other wallets trade and       *)
(* confirmations get lost.  A transaction is atomic: one that fails leaves *)
(* the matcher's context and Percolator's positions as they were.          *)
(***************************************************************************)
EXTENDS MatcherContext, Sequences

CONSTANTS
  Users,       (* wallets of users                                         *)
  Lps,         (* LP PDAs, one for each LP account of the slab             *)
  Registered,  (* LP -> matcher context given to InitLP                    *)
  Deployed,    (* context -> the LP and the payload of its Init            *)
  Prices,      (* effective prices the slab goes through                   *)
  Requests,    (* command lines that are typed                             *)
  MaxTrades    (* bound: commands typed                                    *)

(* A command line: which command, for whom, against which LP; limit, max   *)
(* and min are 0 when not given; ctx and oracle as passed; signs says      *)
(* whether the LP owner's keypair is at hand (--lp-wallet).                *)
CommandLines ==
  [kind : {"cpi", "nocpi"}, user : Users, lp : Lps, size : I128, limit : Nat,
   max : Nat, min : Nat, ctx : Ctxs, oracle : {"none", "given"},
   signs : BOOLEAN, simulate : BOOLEAN]

(* An LP's PDA is off the curve, so it is nobody's wallet; the contexts    *)
(* that are deployed went through a process_init that answered Ok.         *)
ASSUME TradeAssumption ==
  /\ MaxTrades \in Nat
  /\ Users \cup Lps \subseteq Keys \ {ZERO_KEY} /\ Users \cap Lps = {}
  /\ Registered \in [Lps -> Ctxs]
  /\ Deployed \in [Ctxs -> [lp : Keys, payload : Payloads]]
  /\ \A c \in Ctxs : /\ ParsesInit(Deployed[c].payload)
                      /\ Validates(Deployed[c].payload.terms, Deployed[c].lp)
  /\ Prices \subseteq 1 .. U64_MAX /\ Prices # {}
  /\ Requests \subseteq CommandLines

VARIABLES
  pos,         (* account -> position                                      *)
  direct,      (* history: LP -> the part of it that came by trade-nocpi   *)
  price,       (* lastEffectivePriceE6 of the slab                         *)
  hyperp,      (* indexFeedId is zero: the slab is its own oracle          *)
  trade        (* the commands typed: line, price read, transaction, price *)
               (* and size of the fill, exit code                          *)

tradeVars == <<acct, pos, direct, price, hyperp, trade>>
books     == <<acct, pos, direct>>

-----------------------------------------------------------------------------
(***************************************************************************)
(* The commands.                                                           *)
(***************************************************************************)
(* trade-cpi: a market with an index feed needs --oracle.                  *)
OracleResolves(req) == req.kind = "cpi" /\ ~hyperp => req.oracle = "given"

(* trade-nocpi: --max-price-e6 and --min-price-e6 against the price read.  *)
GatePasses(req, seen) ==
  req.kind = "nocpi" => /\ req.max = 0 \/ seen <= req.max
                        /\ req.min = 0 \/ seen >= req.min

(* Mutant: the limit is not encoded in the instruction.                    *)
EncodedNoLimit(req) == [req EXCEPT !.limit = 0]

(* What the instruction carries: the bounds of trade-nocpi stay behind.    *)
Encoded(req) == [req EXCEPT !.max = 0, !.min = 0]

Command(req) ==
  LET ok == OracleResolves(req) /\ GatePasses(req, price)
  IN  /\ Len(trade) < MaxTrades
      /\ trade' = Append(trade,
           [line |-> req, ix |-> Encoded(req), seen |-> price, fill |-> 0, size |-> 0,
            status |-> IF ok THEN "built" ELSE "aborted",
            exit |-> IF ok THEN "running" ELSE "failure"])
      /\ UNCHANGED <<books, price, hyperp>>

(***************************************************************************)
(* simulateOrSend and formatResult.                                        *)
(***************************************************************************)
Simulate(n) ==
  /\ trade[n].status = "built" /\ trade[n].line.simulate
  /\ \E exit \in {"success", "failure"} :
       trade' = [trade EXCEPT ![n].status = "simulated", ![n].exit = exit]
  /\ UNCHANGED <<books, price, hyperp>>

Send(n) ==
  /\ trade[n].status = "built" /\ ~trade[n].line.simulate
  /\ trade' = [trade EXCEPT ![n].status = "sent"]
  /\ UNCHANGED <<books, price, hyperp>>

(* Mutant: the error of the confirmation is not looked at.                 *)
ReportWithoutError(n) ==
  /\ trade[n].exit = "running" /\ trade[n].status \in {"ok", "err"}
  /\ trade' = [trade EXCEPT ![n].exit = "success"]
  /\ UNCHANGED <<books, price, hyperp>>

(* confirmTransaction answers and the logs are fetched.                    *)
Report(n) ==
  /\ trade[n].exit = "running" /\ trade[n].status \in {"ok", "err"}
  /\ trade' = [trade EXCEPT ![n].exit = IF trade[n].status = "ok" THEN "success" ELSE "failure"]
  /\ UNCHANGED <<books, price, hyperp>>

(* A call inside simulateOrSend throws: the command reports a failure and    *)
(* does not know whether the transaction was, or will be, executed.        *)
LoseAnswer(n) ==
  /\ trade[n].exit = "running" /\ trade[n].status \in {"built", "sent", "ok", "err"}
  /\ trade' = [trade EXCEPT ![n].exit = "failure",
                            ![n].status = IF @ = "built" THEN "aborted" ELSE @]
  /\ UNCHANGED <<books, price, hyperp>>

-----------------------------------------------------------------------------
(***************************************************************************)
(* Percolator (external).                                                  *)
(***************************************************************************)
MatchCall(n) == [framed |-> TRUE, id |-> n, oracle |-> price, size |-> trade[n].ix.size]

(* The fill the matcher answers when Percolator signs for the LP's PDA.    *)
Quoted(n) == MatchOutcome(acct[trade[n].ix.ctx], trade[n].ix.lp, TRUE, MatchCall(n))

LimitAllows(ix, exec) ==
  ix.limit = 0 \/ IF ix.size > 0 THEN exec <= ix.limit ELSE exec >= ix.limit

Move(n, size, exec) ==
  LET ix == trade[n].ix
  IN  /\ pos' = [pos EXCEPT ![ix.user] = @ + size, ![ix.lp] = @ - size]
      /\ trade' = [trade EXCEPT ![n].status = "ok", ![n].size = size, ![n].fill = exec]

(* TradeCpi: only the user signs.                                          *)
TradeCpi(n) ==
  LET ix == trade[n].ix
      q  == Quoted(n)
  IN  /\ trade[n].status = "sent" /\ ix.kind = "cpi"
      /\ ix.ctx = Registered[ix.lp]
      /\ q.err = "Ok"
      /\ q.exec_size = 0 \/ LimitAllows(ix, q.exec_price)
      /\ acct' = [acct EXCEPT ![ix.ctx] = Matched(@, q, MatchCall(n))]
      /\ Move(n, q.exec_size, q.exec_price)
      /\ UNCHANGED <<direct, price, hyperp>>

(* TradeNoCpi: the user and the LP's owner sign, the price is the slab's,  *)
(* the matcher is not asked; a Hyperp market has it disabled.              *)
TradeNoCpi(n) ==
  LET ix == trade[n].ix
  IN  /\ trade[n].status = "sent" /\ ix.kind = "nocpi"
      /\ ix.signs /\ ~hyperp
      /\ direct' = [direct EXCEPT ![ix.lp] = @ - ix.size]
      /\ Move(n, ix.size, price)
      /\ UNCHANGED <<acct, price, hyperp>>

(* Refused by a program (margin, a limit, a matcher's error), or never     *)
(* executed: nothing but the transaction's status changes.                 *)
Refuse(n) ==
  /\ trade[n].status = "sent"
  /\ trade' = [trade EXCEPT ![n].status = "err"]
  /\ UNCHANGED <<books, price, hyperp>>

MovePrice(p) ==
  /\ p # price
  /\ price' = p
  /\ UNCHANGED <<books, hyperp, trade>>

TradeInit ==
  /\ acct = [c \in Ctxs |-> Stamped(Blank("ballast", TRUE), Deployed[c].lp, Deployed[c].payload)]
  /\ pos = [a \in Users \cup Lps |-> 0] /\ direct = [lp \in Lps |-> 0]
  /\ price \in Prices /\ hyperp \in BOOLEAN /\ trade = <<>>

TradeNext ==
  \/ \E req \in Requests : Command(req)
  \/ \E n \in 1 .. Len(trade) :
       \/ Simulate(n) \/ Send(n) \/ Report(n) \/ LoseAnswer(n)
       \/ TradeCpi(n) \/ TradeNoCpi(n) \/ Refuse(n)
  \/ \E p \in Prices : MovePrice(p)

TradeSpec == TradeInit /\ [][TradeNext]_tradeVars

-----------------------------------------------------------------------------
Executed(n) == trade[n].status = "ok"
Bound(lp)   == acct[Registered[lp]].lp_pda = lp

TradeTypeOK ==
  /\ acct \in [Ctxs -> Accounts]
  /\ pos \in [Users \cup Lps -> Int] /\ direct \in [Lps -> Int]
  /\ price \in Prices /\ hyperp \in BOOLEAN /\ Len(trade) <= MaxTrades
  /\ \A n \in DOMAIN trade :
       trade[n] \in [line : CommandLines, ix : CommandLines, seen : 0 .. U64_MAX,
         status : {"aborted", "built", "simulated", "sent", "ok", "err"},
         fill : 0 .. U64_MAX, size : Int, exit : {"running", "success", "failure"}]

(* The inventory a matcher context keeps is the position Percolator keeps  *)
(* for the LP it is bound to, trades that bypass the matcher apart; an LP  *)
(* registered with somebody else's context never gets a position from it.  *)
BookMirrorsEngine ==
  \A lp \in Lps :
    pos[lp] - direct[lp] = IF Bound(lp) THEN acct[Registered[lp]].inventory ELSE 0

(* What the trader asked for holds when the trade executes: whatever the   *)
(* price does after the command, no fill of trade-cpi is worse than its    *)
(* --limit-price-e6, and one of trade-nocpi outside --min-price-e6 and     *)
(* --max-price-e6 is one whose price moved after the read.                 *)
AskedPriceHolds ==
  \A n \in DOMAIN trade :
    LET t == trade[n]
    IN  Executed(n) =>
          /\ t.line.kind = "cpi" /\ t.size # 0 => LimitAllows(t.line, t.fill)
          /\ t.line.kind = "nocpi" /\ t.fill = t.seen =>
               (t.line.max = 0 \/ t.fill <= t.line.max) /\ t.fill >= t.line.min

(* "Keeper bots and CI scripts rely on a non-zero exit on failure": a      *)
(* command that exits with success and was not a simulation was executed.  *)
SuccessMeansExecuted ==
  \A n \in DOMAIN trade : trade[n].exit = "success" /\ ~trade[n].line.simulate => Executed(n)

(* "Only wallets in the allowlist can execute trades through the LP".      *)
OnlyAllowlistedTrade ==
  \A n \in DOMAIN trade : Executed(n) /\ trade[n].line.kind = "cpi" /\ trade[n].size # 0
    => LET a == acct[trade[n].line.ctx]
       IN  \E i \in 1 .. a.allowlist_count : a.allowlist[i] = trade[n].line.user
=============================================================================
