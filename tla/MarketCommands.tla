---------------------------- MODULE MarketCommands ----------------------------
(***************************************************************************)
(* The commands of src/commands that send one instruction of Percolator:   *)
(* each checks its options, reads the slab when it needs an address from   *)
(* it, picks an oracle, builds the instruction and lets the payer sign.    *)
(* Nothing but update-config uses what it read in what it sends, so the    *)
(* others are one step, at the moment the instruction is executed; an      *)
(* update-config that was sent stays on the wire until it lands, or never  *)
(* does.  A refused instruction changes nothing and is left out.  What     *)
(* Percolator accepts and does is external.  Amounts count units of one    *)
(* deposit or top-up; MarketLaunch adds the scripts that deploy a market.  *)
(***************************************************************************)
EXTENDS Naturals, SequencesExt

CONSTANTS
  Slabs,        (* accounts a deployment may create                        *)
  PAYER,        (* the operator's wallet                                   *)
  STRANGER,     (* any other wallet                                        *)
  ZERO,         (* PublicKey.default                                       *)
  MaxAccounts,  (* slots of a slab                                         *)
  MaxFund,      (* bound: units of insurance                               *)
  CAP_MULT,     (* tvlInsuranceCapMult of the deployments                  *)
  FUNDING,      (* fundingKBps of the deployments, and its default         *)
  MaxCommands,  (* bound: commands that have an effect                     *)
  CLI           (* the commands each wallet uses: pairs of the two         *)

Wallets   == {PAYER, STRANGER}
Keys      == Wallets \cup {ZERO}
(* AUTHORITY_KIND.                                                         *)
Authority == {"ADMIN", "HYPERP_MARK", "INSURANCE", "INSURANCE_OPERATOR"}
Slots     == 1 .. MaxAccounts
CommandNames == {"init-market", "init-user", "init-lp", "deposit", "withdraw", "close-account",
                 "topup-insurance", "close-slab", "withdraw-insurance", "push-oracle-price",
                 "resolve-market", "update-admin", "set-oracle-authority", "update-config"}
NoAccount == [owner |-> ZERO, kind |-> "none", capital |-> 0]

ASSUME CommandsAssumption ==
  /\ CLI \subseteq Wallets \X CommandNames
  /\ PAYER # STRANGER /\ ZERO \notin {PAYER, STRANGER}
  /\ MaxAccounts \in Nat \ {0} /\ {MaxFund, CAP_MULT, FUNDING, MaxCommands} \subseteq Nat

VARIABLES
  market,   (* slab -> the market in it                                    *)
  wire,     (* instructions that were sent and may yet be executed         *)
  commands, (* commands that had an effect so far                          *)
  by_hand   (* history: slabs the operator changed by a command            *)

commandVars == <<market, wire, commands, by_hand>>

NoMarket == [stage    |-> "none",
             hyperp   |-> FALSE,                        (* indexFeedId is zero    *)
             holder   |-> [a \in Authority |-> ZERO],
             config   |-> [cap |-> 0, funding |-> FUNDING],
             fund     |-> 0,                            (* insurance              *)
             account  |-> [i \in Slots |-> NoAccount],
             free     |-> [i \in Slots |-> i],          (* freelist, head first   *)
             priced   |-> FALSE,                        (* a price was pushed     *)
             fresh    |-> FALSE]                        (* cranked within the     *)
                                                        (* stale window           *)

Used(m)    == {i \in Slots : m.account[i] # NoAccount}
Capital(m) == FoldFunctionOnSet(LAMBDA a, sum : a.capital + sum, 0, m.account, Slots)

(* An instruction with its signer; the fields a kind does not use keep the *)
(* values given here.  prefixed: a KeeperCrank precedes it in the same     *)
(* transaction.                                                            *)
Ix(kind, s, w) ==
  [kind |-> kind, slab |-> s, signer |-> w, signers |-> {w}, sender |-> "cli", idx |-> 1,
   authority |-> "ADMIN", key |-> ZERO, oracle |-> "feed", hyperp |-> FALSE, config |-> NoMarket.config, prefixed |-> FALSE]

-----------------------------------------------------------------------------
(***************************************************************************)
(* Percolator (external).                                                  *)
(***************************************************************************)
FRESH_ONLY == {"DepositCollateral", "TopUpInsurance", "UpdateConfig"}

Holds(m, x, a) == m.holder[a] = x.signer

Accepted(x) ==
  LET m    == market[x.slab]
      feed == x.oracle = "feed" \/ m.hyperp
      live == m.stage = "live" /\ (x.kind \in FRESH_ONLY => m.fresh \/ x.prefixed) /\ feed
  IN  CASE x.kind = "CreateAccount"      -> m.stage = "none"
        [] x.kind = "InitMarket"         -> m.stage = "blank"
        [] x.kind = "KeeperCrank"        -> live
        [] x.kind \in {"InitUser", "InitLP"} -> live /\ m.free # <<>>
        [] x.kind = "DepositCollateral"  ->
             /\ live /\ m.account[x.idx].owner = x.signer
             /\ m.config.cap # 0 => Capital(m) + 1 <= m.config.cap * m.fund
        [] x.kind = "WithdrawCollateral" ->
             /\ live /\ m.account[x.idx].owner = x.signer
             /\ m.account[x.idx].capital > 0
        [] x.kind = "CloseAccount"       ->
             m.stage \in {"live", "resolved"} /\ m.account[x.idx].owner = x.signer /\ feed
        [] x.kind = "TopUpInsurance"     -> live
        [] x.kind = "UpdateConfig"       -> live /\ Holds(m, x, "ADMIN")
        [] x.kind = "UpdateAuthority"    ->
             /\ m.stage \in {"live", "resolved"} /\ Holds(m, x, x.authority)
             /\ x.key \in {ZERO} \cup x.signers   (* a new holder has to sign *)
        [] x.kind = "PushOraclePrice"    -> live /\ Holds(m, x, "HYPERP_MARK")
        [] x.kind = "ResolveMarket"      ->
             live /\ Holds(m, x, "ADMIN") /\ (m.hyperp => m.priced)
        [] x.kind = "WithdrawInsurance"  ->
             m.stage = "resolved" /\ Holds(m, x, "INSURANCE") /\ Used(m) = {}
        [] x.kind = "CloseSlab"          ->
             /\ m.stage \in {"live", "resolved"} /\ Holds(m, x, "ADMIN")
             /\ Used(m) = {} /\ m.fund = 0

Opened(m, x) ==
  [m EXCEPT !.account[Head(m.free)] =
              [owner |-> x.signer, kind |-> IF x.kind = "InitLP" THEN "lp" ELSE "user",
               capital |-> 0],
            !.free = Tail(@)]

Applied(m, x) ==
  CASE x.kind = "CreateAccount"      -> [m EXCEPT !.stage = "blank"]
    [] x.kind = "InitMarket"         ->
         [m EXCEPT !.stage = "live", !.hyperp = x.hyperp, !.fresh = TRUE,
                   !.holder = [a \in Authority |->
                                 IF a = "HYPERP_MARK" /\ ~x.hyperp THEN ZERO ELSE x.signer]]
    [] x.kind = "KeeperCrank"        -> [m EXCEPT !.fresh = TRUE]
    [] x.kind \in {"InitUser", "InitLP"} -> Opened(m, x)
    [] x.kind = "DepositCollateral"  -> [m EXCEPT !.account[x.idx].capital = @ + 1]
    [] x.kind = "WithdrawCollateral" -> [m EXCEPT !.account[x.idx].capital = @ - 1]
    [] x.kind = "CloseAccount"       -> [m EXCEPT !.account[x.idx] = NoAccount,
                                                  !.free = <<x.idx>> \o @]
    [] x.kind = "TopUpInsurance"     -> [m EXCEPT !.fund = @ + 1]
    [] x.kind = "UpdateConfig"       -> [m EXCEPT !.config = x.config]
    [] x.kind = "UpdateAuthority"    -> [m EXCEPT !.holder[x.authority] = x.key]
    [] x.kind = "PushOraclePrice"    -> [m EXCEPT !.priced = TRUE]
    [] x.kind = "ResolveMarket"      -> [m EXCEPT !.stage = "resolved"]
    [] x.kind = "WithdrawInsurance"  -> [m EXCEPT !.fund = 0]
    [] x.kind = "CloseSlab"          -> [NoMarket EXCEPT !.stage = "closed"]

Bounded(m) == m.fund <= MaxFund /\ \A i \in Slots : m.account[i].capital <= MaxFund

Executes(x) ==
  LET m == IF x.prefixed THEN [market[x.slab] EXCEPT !.fresh = TRUE] ELSE market[x.slab]
  IN  /\ Accepted(x)
      /\ market' = [market EXCEPT ![x.slab] = Applied(m, x)]
      /\ Bounded(market'[x.slab])

(* The stale window passes without a crank, and anybody may then resolve.  *)
Age(s) ==
  /\ market[s].stage = "live" /\ market[s].fresh
  /\ market' = [market EXCEPT ![s].fresh = FALSE]
  /\ UNCHANGED <<wire, commands, by_hand>>

ResolvePermissionless(s) ==
  /\ market[s].stage = "live" /\ ~market[s].fresh
  /\ market' = [market EXCEPT ![s].stage = "resolved"]
  /\ UNCHANGED <<wire, commands, by_hand>>

-----------------------------------------------------------------------------
(***************************************************************************)
(* The commands: the instructions each can send for a wallet and a slab.   *)
(***************************************************************************)
(* fetchSlab throws when there is no account; parseConfig does not look at *)
(* the magic, so an account without a market is read as one of zeros.      *)
Fetched(s) == market[s].stage \in {"blank", "live", "resolved"}

(* Without --oracle the slab stands in for the oracle of a Hyperp market,  *)
(* and the command throws on any other.                                    *)
Oracles(s) == {"feed"} \cup {o \in {"slab"} : market[s].stage = "blank" \/ market[s].hyperp}

init_market(w, s)     == {[Ix("InitMarket", s, w) EXCEPT !.hyperp = h] : h \in BOOLEAN}
init_user(w, s)       == {x \in {Ix("InitUser", s, w)} : Fetched(s)}
init_lp(w, s)         == {x \in {Ix("InitLP", s, w)} : Fetched(s)}
deposit(w, s)         ==
  {x \in {[Ix("DepositCollateral", s, w) EXCEPT !.idx = i] : i \in Slots} : Fetched(s)}
withdraw(w, s)        ==
  {x \in {[Ix("WithdrawCollateral", s, w) EXCEPT !.idx = i, !.oracle = o] :
            i \in Slots, o \in Oracles(s)} : Fetched(s)}
close_account(w, s)   ==
  {x \in {[Ix("CloseAccount", s, w) EXCEPT !.idx = i, !.oracle = o] :
            i \in Slots, o \in Oracles(s)} : Fetched(s)}
topup_insurance(w, s) == {x \in {Ix("TopUpInsurance", s, w)} : Fetched(s)}
close_slab(w, s)      == {x \in {Ix("CloseSlab", s, w)} : Fetched(s)}
withdraw_insurance(w, s) == {x \in {Ix("WithdrawInsurance", s, w)} : Fetched(s)}
push_oracle_price(w, s)  == {Ix("PushOraclePrice", s, w)}
resolve_market(w, s)     == {Ix("ResolveMarket", s, w)}

(* The new key is written into the instruction, but only the payer signs.  *)
update_admin(w, s) ==
  {[Ix("UpdateAuthority", s, w) EXCEPT !.key = k] : k \in Keys}
set_oracle_authority(w, s) ==
  {[Ix("UpdateAuthority", s, w) EXCEPT !.authority = "HYPERP_MARK", !.key = k] : k \in Keys}

Sends(command, w, s) ==
  CASE command = "init-market"          -> init_market(w, s)
    [] command = "init-user"            -> init_user(w, s)
    [] command = "init-lp"              -> init_lp(w, s)
    [] command = "deposit"              -> deposit(w, s)
    [] command = "withdraw"             -> withdraw(w, s)
    [] command = "close-account"        -> close_account(w, s)
    [] command = "topup-insurance"      -> topup_insurance(w, s)
    [] command = "close-slab"           -> close_slab(w, s)
    [] command = "withdraw-insurance"   -> withdraw_insurance(w, s)
    [] command = "push-oracle-price"    -> push_oracle_price(w, s)
    [] command = "resolve-market"       -> resolve_market(w, s)
    [] command = "update-admin"         -> update_admin(w, s)
    [] command = "set-oracle-authority" -> set_oracle_authority(w, s)

Touched(w, s) == IF w = PAYER THEN by_hand \cup {s} ELSE by_hand

Command(w, s) ==
  /\ commands < MaxCommands
  /\ \E c \in {u[2] : u \in {v \in CLI : v[1] = w}} \ {"update-config"} :
       \E x \in Sends(c, w, s) : Executes(x)
  /\ commands' = commands + 1
  /\ by_hand' = Touched(w, s)
  /\ UNCHANGED wire

(* What the operator asks for: no deposit cap, another funding rate.       *)
Edited == [cap |-> 0, funding |-> FUNDING + 1]

(* Mutant: a flag that is left out takes a default.                        *)
MergedOverDefaults(flags, onChain) ==
  [f \in DOMAIN onChain |-> IF f \in flags THEN Edited[f] ELSE 0]

(* update-config reads the whole configuration, puts the flags over it and *)
(* writes all of it back.                                                  *)
Merged(flags, onChain) ==
  [f \in DOMAIN onChain |-> IF f \in flags THEN Edited[f] ELSE onChain[f]]

update_config(w, s) ==
  /\ <<w, "update-config">> \in CLI /\ commands < MaxCommands /\ Fetched(s)
  /\ \E flags \in SUBSET DOMAIN Edited, o \in Oracles(s) :
       wire' = wire \cup {[Ix("UpdateConfig", s, w) EXCEPT
                             !.oracle = o, !.config = Merged(flags, market[s].config)]}
  /\ commands' = commands + 1
  /\ UNCHANGED <<market, by_hand>>

(* What was sent earlier is executed.                                      *)
Land(x) ==
  /\ x \in wire /\ Executes(x)
  /\ wire' = wire \ {x}
  /\ by_hand' = IF x.sender = "cli" THEN Touched(x.signer, x.slab) ELSE by_hand
  /\ UNCHANGED commands

CommandInit ==
  /\ market = [s \in Slabs |-> NoMarket]
  /\ wire = {} /\ commands = 0 /\ by_hand = {}

CommandNext ==
  \/ \E s \in Slabs : Age(s) \/ ResolvePermissionless(s)
  \/ \E w \in Wallets, s \in Slabs : Command(w, s) \/ update_config(w, s)
  \/ \E x \in wire : Land(x)

(***************************************************************************)
(* Properties.                                                             *)
(***************************************************************************)
(* The freelist and the used slots partition each slab; the rest has its   *)
(* type.                                                                   *)
CommandTypeOK ==
  /\ \A s \in Slabs :
       LET m == market[s]
       IN  /\ m.stage \in {"none", "blank", "live", "resolved", "closed"}
           /\ {m.hyperp, m.priced, m.fresh} \subseteq BOOLEAN
           /\ m.holder \in [Authority -> Keys]
           /\ m.config \in [cap : {0, CAP_MULT}, funding : FUNDING .. FUNDING + 1]
           /\ m.fund \in 0 .. MaxFund
           /\ m.account \in [Slots -> [owner : Keys, kind : {"none", "user", "lp"},
                                       capital : 0 .. MaxFund]]
           /\ ToSet(m.free) = Slots \ Used(m) /\ IsInjective(m.free)
  /\ commands \in 0 .. MaxCommands /\ by_hand \subseteq Slabs
=============================================================================
