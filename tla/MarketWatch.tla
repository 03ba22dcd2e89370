---------------------------- MODULE MarketWatch ----------------------------
(***************************************************************************)
(* The readers that raise alerts about a market: mainnet-watch.ts (a loop  *)
(* of 60 s), mainnet-bounty2-tick.ts (one run per minute under cron, which *)
(* cranks between two reads), mainnet-monitor.ts and check-conservation.ts *)
(* (run by hand).  Each reads the slab and then the token balance of the   *)
(* vault, and compares them; the market moves between any two reads.       *)
(* Readers change nothing, but for the tick's crank, which anyone may send *)
(* at any time: one reader at a time (up) loses nothing.  Flags that       *)
(* restate one field (magic, length, burned authorities, the oracle's age) *)
(* are left out.                                                           *)
(***************************************************************************)
EXTENDS Integers

CONSTANTS
  Funds,      (* bound on the engine's vault                               *)
  CapMult     (* tvlInsuranceCapMult                                       *)

ASSUME WatchAssumption == Funds \in Nat \ {0} /\ CapMult \in Nat \ {0}

VARIABLES
  vault, cTot, ins,   (* of the slab: engine.vault, cTot, insurance        *)
  spl,        (* token balance of the vault account                        *)
  mode,       (* "Live" or "Resolved"                                      *)
  lag,        (* slots since the market accrued: 0 few, 1 more than 600,   *)
              (* 2 close to the permissionless-resolve window              *)
  past,       (* history: "break" and "loss" once they happened            *)
  up,         (* the reader that runs                                      *)
  pc,         (* where it is: "idle"; for the tick "pre", "sent",          *)
              (* "answered"; "slab" read; "logged"                         *)
  seen,       (* the slab it read                                          *)
  preIns,     (* the tick's pre.insurance                                  *)
  between,    (* history: losses between preIns and seen, deposits and     *)
              (* withdrawals between seen and the vault's balance          *)
  flags       (* what its last line flags, until the next read             *)

vars   == <<vault, cTot, ins, spl, mode, lag, past, up, pc, seen, preIns, between, flags>>
funds  == <<vault, cTot, ins, spl>>
market == <<vault, cTot, ins, spl, mode, lag, past>>
reader == <<up, pc, seen, preIns, flags>>

Readers == {"watch", "tick", "monitor", "check"}
Blank   == [vault |-> 0, cTot |-> 0, ins |-> 0, mode |-> "Live", lag |-> 0]
Slab    == [vault |-> vault, cTot |-> cTot, ins |-> ins, mode |-> mode, lag |-> lag]

(***************************************************************************)
(* What a line says.                                                       *)
(***************************************************************************)
Raised(tests) == {f \in DOMAIN tests : tests[f]}

WatchTests(s, tokens) ==
  [MODE |-> s.mode # "Live",
   VAULT_UNDERCOLLATERALIZED |-> s.vault > tokens,
   SOLVENCY_BROKEN |-> s.vault < s.cTot + s.ins,
   TVL_CAP_BYPASSED |-> s.cTot > s.ins * CapMult,
   PERM_RESOLVE_CLOSE |-> s.lag = 2]

(* Mutant: any difference between vault and tokens is an alarm.            *)
checkAnomaliesExact(s, tokens) ==
  Raised([WatchTests(s, tokens) EXCEPT !.VAULT_UNDERCOLLATERALIZED = s.vault # tokens])

(* Mutant: insurance is not counted among the claims on the vault.         *)
checkAnomaliesNoInsurance(s, tokens) ==
  Raised([WatchTests(s, tokens) EXCEPT !.SOLVENCY_BROKEN = s.vault < s.cTot])

checkAnomalies(s, tokens) == Raised(WatchTests(s, tokens))

TickTests(before, s, tokens) ==
  [INSURANCE_DROP |-> s.ins < before,
   CONSERVATION_BROKEN |-> s.vault # tokens,
   ACCOUNTING_BROKEN |-> s.vault < s.cTot + s.ins,
   ACCRUE_LAG |-> s.lag >= 1]

(* Mutant: the lag is held against the resolve window.                     *)
diffLateLag(before, s, tokens) ==
  Raised([TickTests(before, s, tokens) EXCEPT !.ACCRUE_LAG = s.lag = 2])

diff(before, s, tokens) == Raised(TickTests(before, s, tokens))

(* mainnet-monitor.ts: the marks it prints as crosses and sirens.          *)
MonitorMarks(s, tokens) ==
  Raised([Resolved |-> s.mode # "Live", vaultEqSPL |-> s.vault # tokens,
          vaultGeClaims |-> s.vault < s.cTot + s.ins])

(* check-conservation.ts: a deficit counts when it exceeds the sum of      *)
(* |PnL|, which the claims of this model do not go into debt for.          *)
ConservationAnomalies(s, tokens) ==
  Raised([TOKEN_VAULT |-> tokens < s.vault, INSOLVENCY |-> s.vault < s.cTot + s.ins])

Line ==
  CASE up = "watch"   -> checkAnomalies(seen, spl)
    [] up = "tick"    -> diff(preIns, seen, spl)
    [] up = "monitor" -> MonitorMarks(seen, spl)
    [] up = "check"   -> ConservationAnomalies(seen, spl)

(***************************************************************************)
(* The readers.                                                            *)
(***************************************************************************)
(* The slot is read just before the slab; the lag can only come out lower. *)
ReadSlab ==
  /\ pc = IF up = "tick" THEN "answered" ELSE "idle"
  /\ pc' = "slab" /\ seen' = Slab
  /\ UNCHANGED <<market, up, preIns, between, flags>>

(* The balance, and the line that follows from the two reads.              *)
ReadVault ==
  /\ pc = "slab" /\ pc' = "logged" /\ flags' = Line /\ seen' = Blank /\ preIns' = 0
  /\ UNCHANGED <<market, up, between>>

Rest ==
  /\ pc = "logged" /\ pc' = "idle"
  /\ flags' = {} /\ between' = {}
  /\ UNCHANGED <<market, up, seen, preIns>>

(* Mutant: a failed turn leaves what it read for the next one.             *)
FailKeepsRead ==
  /\ pc \notin {"idle", "logged"} /\ pc' = "idle" /\ between' = {}
  /\ UNCHANGED <<market, up, seen, preIns, flags>>

(* A read throws: the loop logs ERROR, the tick PRE_SNAP_ERR, POST_SNAP_ERR *)
(* or FATAL, the others end; and `timeout 50` ends a tick without a line.  *)
Fail ==
  /\ pc \notin {"idle", "logged"} /\ pc' = "idle"
  /\ seen' = Blank /\ preIns' = 0 /\ between' = {}
  /\ UNCHANGED <<market, up, flags>>

(* The tick: an RPC answers the probe, the first snapshot is taken.        *)
TickPre ==
  /\ up = "tick" /\ pc = "idle"
  /\ pc' = "pre" /\ preIns' = ins /\ between' = {}
  /\ UNCHANGED <<market, up, seen, flags>>

(* sendAndConfirmTransaction throws at once, or the crank is on its way.   *)
TickCrank ==
  /\ pc = "pre" /\ \E to \in {"answered", "sent"} : pc' = to
  /\ UNCHANGED <<market, up, seen, preIns, between, flags>>

(* The crank lands: a live market accrues, a resolved one refuses it.      *)
TickConfirmed ==
  /\ pc = "sent" /\ pc' = "answered"
  /\ lag' = IF mode = "Live" THEN 0 ELSE lag
  /\ UNCHANGED <<funds, mode, past, up, seen, preIns, between, flags>>

(***************************************************************************)
(* Percolator and its users (external).                                    *)
(***************************************************************************)
Moved(kind) ==
  /\ between' = between \cup
       ({kind} \cap CASE pc \in {"pre", "sent", "answered"} -> {"loss"}
                      [] pc = "slab" -> {"deposit", "withdraw"}
                      [] OTHER -> {})
  /\ past' = past \cup ({kind} \cap {"break", "loss"})

Deposit ==
  /\ mode = "Live" /\ vault < Funds /\ cTot < Funds /\ cTot < ins * CapMult
  /\ vault' = vault + 1 /\ spl' = spl + 1 /\ cTot' = cTot + 1 /\ Moved("deposit")
  /\ UNCHANGED <<ins, mode, lag, reader>>

Withdraw ==
  /\ cTot > 0 /\ vault > 0 /\ spl > 0
  /\ vault' = vault - 1 /\ spl' = spl - 1 /\ cTot' = cTot - 1 /\ Moved("withdraw")
  /\ UNCHANGED <<ins, mode, lag, reader>>

(* A trading fee goes to insurance; a loss that its account cannot carry   *)
(* comes out of it and stays in the vault as somebody's profit.            *)
Fee ==
  /\ mode = "Live" /\ cTot > 0 /\ ins < Funds
  /\ cTot' = cTot - 1 /\ ins' = ins + 1 /\ Moved("fee")
  /\ UNCHANGED <<vault, spl, mode, lag, reader>>

Loss ==
  /\ mode = "Live" /\ ins > 0 /\ ins' = ins - 1 /\ Moved("loss")
  /\ UNCHANGED <<vault, spl, cTot, mode, lag, reader>>

Donate ==
  /\ spl <= vault /\ spl' = spl + 1 /\ Moved("donate")
  /\ UNCHANGED <<vault, cTot, ins, mode, lag, reader>>

(* What the readers watch for: tokens are gone, or claims are not covered. *)
(* Bound: by one unit.                                                     *)
Break ==
  /\ \/ spl > 0 /\ spl >= vault /\ spl' = spl - 1 /\ UNCHANGED cTot
     \/ cTot < Funds /\ cTot + ins <= vault /\ cTot' = cTot + 1 /\ UNCHANGED spl
  /\ Moved("break")
  /\ UNCHANGED <<vault, ins, mode, lag, reader>>

Age ==
  /\ mode = "Live" /\ lag < 2 /\ lag' = lag + 1
  /\ UNCHANGED <<funds, mode, past, reader, between>>

Accrue ==
  /\ mode = "Live" /\ lag' = 0
  /\ UNCHANGED <<funds, mode, past, reader, between>>

ResolvePermissionless ==
  /\ mode = "Live" /\ lag = 2 /\ mode' = "Resolved"
  /\ UNCHANGED <<funds, lag, past, reader, between>>

Init ==
  /\ vault = 1 /\ spl = 1 /\ cTot = 0 /\ ins = 1 /\ mode = "Live" /\ lag = 0 /\ past = {}
  /\ up \in Readers /\ pc = "idle" /\ seen = Blank /\ preIns = 0 /\ between = {} /\ flags = {}

Next ==
  \/ ReadSlab \/ ReadVault \/ Rest \/ Fail \/ TickPre \/ TickCrank \/ TickConfirmed
  \/ Deposit \/ Withdraw \/ Fee \/ Loss \/ Donate \/ Break
  \/ Age \/ Accrue \/ ResolvePermissionless

(* The loop and cron start every turn; reads do not fail for ever.  Nobody *)
(* promises that a crank lands: then `timeout` ends the tick.              *)
Fairness ==
  /\ WF_vars(up = "watch" /\ ReadSlab) /\ SF_vars(up = "tick" /\ ReadSlab)
  /\ SF_vars(ReadVault) /\ WF_vars(Rest)
  /\ WF_vars(TickPre) /\ SF_vars(TickCrank) /\ WF_vars(Fail)

Spec == Init /\ [][Next]_vars /\ Fairness

-----------------------------------------------------------------------------
(* Types; and a reader holds no read while it rests.                       *)
TypeOK ==
  /\ vault \in 0 .. Funds /\ cTot \in 0 .. Funds /\ ins \in 0 .. Funds /\ spl \in 0 .. Funds + 1
  /\ mode \in {"Live", "Resolved"} /\ lag \in 0 .. 2 /\ past \subseteq {"break", "loss"}
  /\ up \in Readers /\ pc \in {"idle", "pre", "sent", "answered", "slab", "logged"}
  /\ pc \in {"idle", "logged"} => seen = Blank /\ preIns = 0

(* On a market nothing was stolen from, a line never says that claims      *)
(* exceed the vault; the flags that compare two reads, or a limit of the   *)
(* deposit path, have the harmless causes named here and no other.         *)
AlarmsAreReal ==
  "break" \notin past =>
    /\ flags \cap {"SOLVENCY_BROKEN", "ACCOUNTING_BROKEN", "vaultGeClaims", "INSOLVENCY"} = {}
    /\ flags \cap {"VAULT_UNDERCOLLATERALIZED", "TOKEN_VAULT"} # {} => "withdraw" \in between
    /\ flags \cap {"CONSERVATION_BROKEN", "vaultEqSPL"} # {} =>
         spl > vault \/ between \cap {"deposit", "withdraw"} # {}
    /\ "TVL_CAP_BYPASSED" \in flags => "loss" \in past
    /\ "INSURANCE_DROP" \in flags => "loss" \in between

(* mainnet-watch.ts "flags anything that would indicate a successful       *)
(* attack": claims that stay uncovered are flagged again and again, and so *)
(* are missing tokens unless deposits and withdrawals never pause.         *)
BreakIsReported ==
  up = "watch" =>
    /\ <>[](vault < cTot + ins) => []<>("SOLVENCY_BROKEN" \in flags)
    /\ <>[](spl < vault) /\ <>[][FALSE]_funds => []<>("VAULT_UNDERCOLLATERALIZED" \in flags)

(* A market that stops accruing is flagged by the tick, unless its cranks  *)
(* are lost and `timeout` ends tick after tick before the second snapshot; *)
(* and by the watcher before anyone may resolve it.                        *)
StallIsReported ==
  /\ up = "tick" /\ <>[](lag >= 1) =>
       []<>("ACCRUE_LAG" \in flags) \/ []<><<pc = "sent" /\ Fail>>_vars
  /\ up = "watch" /\ <>[](lag = 2) => []<>("PERM_RESOLVE_CLOSE" \in flags)
=============================================================================
