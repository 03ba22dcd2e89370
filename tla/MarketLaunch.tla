----------------------------- MODULE MarketLaunch -----------------------------
(***************************************************************************)
(* The scripts that deploy a market outside scripts/ballast, and the one   *)
(* that burns its authorities later, each a row of transactions sent one   *)
(* after the other with sendAndConfirmTransaction:                         *)
(*   devnet, max_risk   a fresh slab, an LP at index 0, insurance, a       *)
(*                      deposit cap, three burns, a manifest               *)
(*   mainnet            the same without an LP; takes a blank SLAB_PUBKEY  *)
(*   bounty2            no burn; takes any SLAB_PUBKEY of the program      *)
(*   burn               burns what bounty2 left, as its manifest names it  *)
(* A run keeps no journal.  It ends at the first refusal or thrown read,   *)
(* or is killed, and what it sent last may still be executed later.  The   *)
(* operator starts another, perhaps while the first still runs, and works  *)
(* on the market with commands meanwhile, as do strangers.  A transaction  *)
(* is executed and confirmed in one step; one that is executed but never   *)
(* confirmed is one that lands after its run has died.                     *)
(***************************************************************************)
EXTENDS MarketCommands

CONSTANTS
  Terminals,  (* where scripts are started                                 *)
  Scripts,    (* the scripts that are started                              *)
  MaxRuns     (* bound: scripts started                                    *)

Files == {"devnet", "max_risk", "mainnet", "bounty2"}
NONE  == "none"

ASSUME LaunchAssumption ==
  /\ Scripts \subseteq Files \cup {"burn"} /\ MaxRuns \in Nat
  /\ NONE \notin Slabs

VARIABLES
  proc,     (* terminal -> its script, the step it is at, its slab, the    *)
            (* authorities its slab still had and the manifest it read     *)
  manifest, (* file -> what it says                                        *)
  runs,     (* scripts started so far                                      *)
  seeds,    (* history: slab -> times a script topped its insurance up     *)
  launcher  (* history: slab -> script that initialised it                 *)

launchVars == <<proc, manifest, runs, seeds, launcher>>
vars == <<commandVars, launchVars>>

Burnable   == {"INSURANCE_OPERATOR", "INSURANCE", "ADMIN"}
NoManifest == [slab |-> NONE, lp |-> FALSE, burned |-> {}]
Ended      == [script |-> NONE, pc |-> 0, slab |-> NONE, live |-> {}, copy |-> NoManifest]

-----------------------------------------------------------------------------
(***************************************************************************)
(* The rows of steps, script by script.                                    *)
(***************************************************************************)
(* Mutant: ADMIN is burned first.                                          *)
BurnsAdminFirst == <<"ADMIN", "INSURANCE_OPERATOR", "INSURANCE">>

(* "ADMIN last".                                                           *)
Burns == <<"INSURANCE_OPERATOR", "INSURANCE", "ADMIN">>

DevnetOpens   == <<"CreateAccount", "Vault", "InitMarket", "KeeperCrank">>
DevnetFunds   == <<"Wrap", "InitLP", "DepositCollateral", "TopUpInsurance">>
DevnetSeals   == <<"UpdateConfig", "CheckCap">> \o Burns \o <<"Manifest">>

MaxRiskOpens  == <<"CreateAccount", "Vault", "InitMarket", "KeeperCrank">>
MaxRiskFunds  == <<"Wrap", "InitLP", "DepositCollateral", "TopUpInsurance">>
MaxRiskSeals  == <<"UpdateConfig", "CheckCap">> \o Burns \o <<"Manifest">>

MainnetOpens  == <<"CreateAccount", "Vault", "InitMarket", "KeeperCrank">>
MainnetFunds  == <<"Wrap", "TopUpInsurance", "UpdateConfig", "CheckCap">>
(* Mutant: the manifest, which says BURNED, is written before the burns.   *)
MainnetManifestFirst == <<"Manifest">> \o Burns
MainnetSeals  == Burns \o <<"Manifest">>

Bounty2Opens  == <<"CreateAccount", "Vault", "InitMarket", "KeeperCrank">>
Bounty2Funds  == <<"Wrap", "TopUpInsurance", "UpdateConfig", "CheckCap">>
Bounty2Seals  == <<"Manifest">>

BurnRow == <<"Authorities">> \o Burns \o <<"Manifest">>

Row(script) ==
  CASE script = "devnet"   -> DevnetOpens \o DevnetFunds \o DevnetSeals
    [] script = "max_risk" -> MaxRiskOpens \o MaxRiskFunds \o MaxRiskSeals
    [] script = "mainnet"  -> MainnetOpens \o MainnetFunds \o MainnetSeals
    [] script = "bounty2"  -> Bounty2Opens \o Bounty2Funds \o Bounty2Seals
    [] script = "burn"     -> BurnRow

(* max_risk and bounty2 prepend a crank to what reads the oracle.          *)
Prefixed(script, step) ==
  \/ script = "max_risk" /\ step \in {"DepositCollateral", "TopUpInsurance", "UpdateConfig"}
  \/ script = "bounty2" /\ step \in {"TopUpInsurance", "UpdateConfig"}

Sent(script, step, s) ==
  IF step \in Burnable
  THEN [Ix("UpdateAuthority", s, PAYER) EXCEPT !.sender = script, !.authority = step]
  ELSE [Ix(step, s, PAYER) EXCEPT
          !.sender   = script,
          !.prefixed = Prefixed(script, step),
          !.config   = [cap |-> CAP_MULT, funding |-> FUNDING]]

Step(t)  == Row(proc[t].script)[proc[t].pc]
Runs(t)  == proc[t] # Ended
Tx(t)    == Sent(proc[t].script, Step(t), proc[t].slab)

Advance(t) == [proc EXCEPT ![t].pc = @ + 1]
End(t)     == [proc EXCEPT ![t] = Ended]

-----------------------------------------------------------------------------
(***************************************************************************)
(* One run.                                                                *)
(***************************************************************************)
CanStart(t) == proc[t] = Ended /\ runs < MaxRuns /\ runs' = runs + 1

(* A new keypair.                                                          *)
StartFresh(t, script, s) ==
  /\ CanStart(t) /\ script # "burn"
  /\ market[s].stage = "none" /\ \A u \in Terminals : proc[u].slab # s
  /\ \A x \in wire : x.slab # s
  /\ proc' = [proc EXCEPT ![t] = [Ended EXCEPT !.script = script, !.pc = 1, !.slab = s]]
  /\ UNCHANGED <<commandVars, manifest, seeds, launcher>>

(* $SLAB_PUBKEY: the account must exist with the program as its owner;     *)
(* mainnet also refuses one with a market in it, bounty2 does not look.    *)
Reusable(script, s) ==
  \/ script = "mainnet" /\ market[s].stage = "blank"
  \/ script = "bounty2" /\ market[s].stage \in {"blank", "live", "resolved"}

(* Mutant: a retry takes up where there is already a market.               *)
StartResuming(t, script, s) ==
  /\ CanStart(t) /\ Reusable(script, s)
  /\ proc' = [proc EXCEPT ![t] = [Ended EXCEPT !.script = script, !.slab = s,
                                   !.pc = IF market[s].stage = "live" THEN 4 ELSE 2]]
  /\ UNCHANGED <<commandVars, manifest, seeds, launcher>>

StartReusing(t, script, s) ==
  /\ CanStart(t) /\ Reusable(script, s)
  /\ proc' = [proc EXCEPT ![t] = [Ended EXCEPT !.script = script, !.pc = 2, !.slab = s]]
  /\ UNCHANGED <<commandVars, manifest, seeds, launcher>>

StartBurn(t) ==
  /\ CanStart(t) /\ "burn" \in Scripts /\ manifest["bounty2"].slab # NONE
  /\ proc' = [proc EXCEPT ![t] = [Ended EXCEPT !.script = "burn", !.pc = 1,
                                    !.slab = manifest["bounty2"].slab,
                                    !.copy = manifest["bounty2"]]]
  /\ UNCHANGED <<commandVars, manifest, seeds, launcher>>

-----------------------------------------------------------------------------
Transactions == {"CreateAccount", "InitMarket", "KeeperCrank", "InitLP", "DepositCollateral",
                 "TopUpInsurance", "UpdateConfig"} \cup Burnable

(* burn skips what its first read showed burned.                           *)
Skips(t)    == proc[t].script = "burn" /\ Step(t) \in Burnable \ proc[t].live
Pending(t)  == Runs(t) /\ Step(t) \in Transactions /\ ~Skips(t)

Logged(x) ==
  /\ seeds' = IF x.kind = "TopUpInsurance" /\ x.sender \in Files
              THEN [seeds EXCEPT ![x.slab] = @ + 1] ELSE seeds
  /\ launcher' = IF x.kind = "InitMarket" THEN [launcher EXCEPT ![x.slab] = x.sender]
                 ELSE launcher

(* sendAndConfirmTransaction returns.                                      *)
Confirmed(t) ==
  /\ Pending(t)
  /\ Executes(Tx(t)) /\ Logged(Tx(t))
  /\ proc' = Advance(t)
  /\ UNCHANGED <<wire, commands, by_hand, manifest, runs>>

(* Mutant: a refusal is reported and the run goes on.                      *)
RefusedGoesOn(t) ==
  /\ Pending(t) /\ ~Accepted(Tx(t))
  /\ proc' = Advance(t)
  /\ UNCHANGED <<commandVars, manifest, runs, seeds, launcher>>

(* It throws, and main rejects.                                            *)
Refused(t) ==
  /\ Pending(t) /\ ~Accepted(Tx(t))
  /\ proc' = End(t)
  /\ UNCHANGED <<commandVars, manifest, runs, seeds, launcher>>

(* The process is killed, an RPC read throws, or a confirmation is not     *)
(* seen in time: what was sent may land later.                             *)
Dies(t) ==
  /\ Runs(t)
  /\ proc' = End(t)
  /\ wire' \in {wire} \cup {wire \cup {x} : x \in {y \in {Tx(t)} : Pending(t)}}
  /\ UNCHANGED <<market, commands, by_hand, manifest, runs, seeds, launcher>>

(* Steps without an instruction of Percolator: getOrCreateAssociatedToken- *)
(* Account, the wrapping of SOL, a burn that is skipped.                   *)
Passes(t) ==
  /\ Runs(t) /\ (Step(t) \in {"Vault", "Wrap"} \/ Skips(t))
  /\ proc' = Advance(t)
  /\ UNCHANGED <<commandVars, manifest, runs, seeds, launcher>>

(* The configuration is read again and has to hold the cap.                *)
CheckCap(t) ==
  /\ Runs(t) /\ Step(t) = "CheckCap"
  /\ proc' = IF market[proc[t].slab].config.cap = CAP_MULT THEN Advance(t) ELSE End(t)
  /\ UNCHANGED <<commandVars, manifest, runs, seeds, launcher>>

(* burn reads who holds what, and aborts when it is a third party.         *)
ReadAuthorities(t) ==
  LET m == market[proc[t].slab]
  IN  /\ Runs(t) /\ Step(t) = "Authorities"
      /\ proc' = IF /\ m.stage \in {"live", "resolved"}
                    /\ \A a \in Burnable : m.holder[a] \in {ZERO, PAYER}
                 THEN [Advance(t) EXCEPT ![t].live = {a \in Burnable : m.holder[a] # ZERO}]
                 ELSE End(t)
      /\ UNCHANGED <<commandVars, manifest, runs, seeds, launcher>>

(* bounty2 writes what it reads back; the scripts that burn write BURNED;  *)
(* burn writes the manifest it read at its start, with BURNED in it.       *)
Written(t) ==
  LET p == proc[t]
  IN  CASE p.script = "bounty2" ->
             [slab |-> p.slab, lp |-> FALSE,
              burned |-> {a \in Burnable : market[p.slab].holder[a] = ZERO}]
        [] p.script = "burn"    -> [p.copy EXCEPT !.burned = Burnable]
        [] p.script \in {"devnet", "max_risk", "mainnet"} ->
             [slab |-> p.slab, lp |-> p.script # "mainnet", burned |-> Burnable]

File(t) == IF proc[t].script = "burn" THEN "bounty2" ELSE proc[t].script

(* The slab is read once more before that, which throws when it is gone.   *)
WriteManifest(t) ==
  /\ Runs(t) /\ Step(t) = "Manifest"
  /\ manifest' = IF Fetched(proc[t].slab) THEN [manifest EXCEPT ![File(t)] = Written(t)]
                 ELSE manifest
  /\ proc' = End(t)
  /\ UNCHANGED <<commandVars, runs, seeds, launcher>>

Init ==
  /\ CommandInit
  /\ proc = [t \in Terminals |-> Ended] /\ runs = 0
  /\ manifest = [f \in Files |-> NoManifest]
  /\ seeds = [s \in Slabs |-> 0] /\ launcher = [s \in Slabs |-> NONE]

Run(t) ==
  \/ \E script \in Scripts, s \in Slabs :
       StartFresh(t, script, s) \/ StartReusing(t, script, s)
  \/ StartBurn(t)
  \/ Confirmed(t) \/ Refused(t) \/ Dies(t) \/ Passes(t)
  \/ CheckCap(t) \/ ReadAuthorities(t) \/ WriteManifest(t)

Next ==
  \/ \E t \in Terminals : Run(t)
  \/ \E x \in wire : Land(x) /\ Logged(x) /\ UNCHANGED <<proc, manifest, runs>>
  \/ \E s \in Slabs : (Age(s) \/ ResolvePermissionless(s)) /\ UNCHANGED launchVars
  \/ \E w \in Wallets, s \in Slabs :
       (Command(w, s) \/ update_config(w, s)) /\ UNCHANGED launchVars

Spec == Init /\ [][Next]_vars

-----------------------------------------------------------------------------
TypeOK ==
  /\ CommandTypeOK
  /\ proc \in [Terminals ->
               [script : Scripts \cup {NONE}, pc : 0 .. 16, slab : Slabs \cup {NONE},
                live : SUBSET Burnable,
                copy : [slab : Slabs \cup {NONE}, lp : BOOLEAN, burned : SUBSET Burnable]]]
  /\ manifest \in [Files -> [slab : Slabs \cup {NONE}, lp : BOOLEAN,
                             burned : SUBSET Burnable]]
  /\ runs \in 0 .. MaxRuns /\ seeds \in [Slabs -> 0 .. MaxFund]
  /\ launcher \in [Slabs -> Files \cup {NONE, "cli"}]

(* A market that a script launched, that its operator never touched with a *)
(* command, and that has no admin any more.                                *)
Ownerless(s) == /\ launcher[s] \in Files /\ s \notin by_hand
                /\ market[s].holder["ADMIN"] = ZERO

(* "ADMIN last": whoever dies when, and with two scripts burning at once,  *)
(* a market without an admin has no other authority either, so nothing is  *)
(* left that nobody could rotate.                                          *)
AdminBurnedLast ==
  \A s \in Slabs : Ownerless(s) => \A a \in Authority : market[s].holder[a] = ZERO

LpIsOurs(s) == LET lp == market[s].account[1]
               IN  lp.kind = "lp" /\ lp.owner = PAYER /\ lp.capital > 0

(* What can no longer be configured is finished: it has its deposit cap    *)
(* and its insurance, and where the script makes an LP, the account at     *)
(* index 0 is that LP, with collateral, whoever else joined meanwhile.     *)
BurnedIsWhole ==
  \A s \in Slabs : Ownerless(s) =>
    /\ market[s].config.cap = CAP_MULT /\ market[s].fund > 0
    /\ launcher[s] \in {"devnet", "max_risk"} => LpIsOurs(s)

(* A manifest never says BURNED of an authority that somebody holds, and   *)
(* never names an LP or a market that is not there.                        *)
ManifestTellsTheTruth ==
  \A f \in Files : LET said == manifest[f] IN
    said.slab # NONE /\ said.slab \notin by_hand =>
      /\ \A a \in said.burned : market[said.slab].holder[a] = ZERO
      /\ said.lp => LpIsOurs(said.slab)
      /\ market[said.slab].fund > 0

(* However often a deployment is tried again on one slab, with runs that   *)
(* overlap and transactions that land late, its insurance is paid once.    *)
SeededOnce == \A s \in Slabs : seeds[s] <= 1
=============================================================================
