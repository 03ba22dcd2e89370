---------------------------- MODULE BallastSetup ----------------------------
(***************************************************************************)
(* setup-ballast-sol-market.ts: a script that deploys a market by a row of *)
(* transactions, records it in config/ballast-config.json, funds its       *)
(* insurance and writes a manifest.  It keeps no journal: a run may die at *)
(* any point, with its last transaction still on the wire, and is started  *)
(* again by hand, by one operator or several, with or without a flag.      *)
(* Percolator and the chain are external: a transaction that was sent may  *)
(* be executed or refused, or lands after the run that sent it has died.   *)
(***************************************************************************)
EXTENDS Integers, Sequences

CONSTANTS
  Operators,   (* the terminals the script is started from                 *)
  MaxRuns,     (* bound: runs in all; run r would deploy slab r            *)
  INSURANCE,   (* INSURANCE_FUND_LAMPORTS                                  *)
  WRAP         (* WRAP_LAMPORTS                                            *)

ASSUME SetupAssumption ==
  /\ MaxRuns \in Nat \ {0}
  /\ INSURANCE \in Nat \ {0} /\ WRAP \in Nat /\ INSURANCE <= WRAP

Runs  == 1 .. MaxRuns
Slabs == Runs
NONE  == 0
Modes == {"default", "insurance_only", "force"}
Kinds == {"slab", "vault", "market", "crank", "wrap", "topup"}
PCs   == Kinds \cup {"save", "balance", "manifest", "exit"}

VARIABLES
  config,    (* slabs.solUsd.slab of ballast-config.json, NONE when empty  *)
  manifest,  (* slab named by ballast-sol-deploy.json                      *)
  run,       (* run -> its mode, the slab it read in the config, the slab  *)
             (* it works on, the lamports it has to wrap                   *)
  tx,        (* run -> kind -> what became of that transaction             *)
  op,        (* operator -> its run and the step it has reached            *)
  runs,      (* runs started so far                                        *)
  stage,     (* slab -> how far its deployment got on chain                *)
  fresh,     (* slab -> cranked within permissionlessResolveStaleSlots     *)
  insurance, (* slab -> its insurance fund                                 *)
  wsol,      (* wSOL of the payer                                          *)
  overlap    (* history: a run started before all of an earlier one's      *)
             (* steps and transactions were over                           *)

vars == <<config, manifest, run, tx, op, runs, stage, fresh, insurance, wsol,
          overlap>>
chain == <<stage, fresh, insurance, wsol>>
files == <<config, manifest>>

(* Mutant: the slab is saved before its first crank.                       *)
StepsSaveFirst == <<"slab", "vault", "market", "save", "crank", "balance", "wrap", "topup",
                    "manifest", "exit">>

Steps == <<"slab", "vault", "market", "crank", "save", "balance", "wrap", "topup",
           "manifest", "exit">>
After(step) == Steps[(CHOOSE i \in 1 .. Len(Steps) : Steps[i] = step) + 1]

Unstarted == [mode |-> "default", read |-> NONE, slab |-> NONE, need |-> 0]
Idle      == [run |-> NONE, pc |-> "exit"]
Unsent    == [k \in Kinds |-> "unsent"]

(***************************************************************************)
(* One run, step by step.                                                  *)
(***************************************************************************)
(* Mutant: the guard on the existing slab is dropped.                      *)
FirstStepUnguarded(mode, existing) ==
  IF mode = "insurance_only" THEN (IF existing = NONE THEN "exit" ELSE "balance")
  ELSE "slab"

(* What main does after loading the config and checking the oracle: an     *)
(* existing slab ends a run without a flag, its absence one that only tops *)
(* up the insurance.                                                       *)
FirstStep(mode, existing) ==
  IF mode = "insurance_only" THEN (IF existing = NONE THEN "exit" ELSE "balance")
  ELSE IF existing # NONE /\ mode # "force" THEN "exit" ELSE "slab"

Unsettled == \/ \E o \in Operators : op[o].pc # "exit"
             \/ \E r \in Runs, k \in Kinds : tx[r][k] = "sent"

Start(o, mode) ==
  LET r == runs + 1
  IN  /\ op[o].pc = "exit" /\ runs < MaxRuns
      /\ runs' = r
      /\ run' = [run EXCEPT ![r] = [mode |-> mode, read |-> config, need |-> 0,
                                    slab |-> IF mode = "insurance_only" THEN config ELSE r]]
      /\ op' = [op EXCEPT ![o] = [run |-> r, pc |-> FirstStep(mode, config)]]
      /\ overlap' = (overlap \/ Unsettled)
      /\ UNCHANGED <<files, tx, chain>>

Advance(o) == op' = [op EXCEPT ![o].pc = After(@)]

Send(o) ==
  /\ op[o].pc \in Kinds /\ tx[op[o].run][op[o].pc] = "unsent"
  /\ tx' = [tx EXCEPT ![op[o].run][op[o].pc] = "sent"]
  /\ UNCHANGED <<files, run, op, runs, chain, overlap>>

(* Mutant: a transaction that failed is reported and the run goes on.      *)
ConfirmAny(o) ==
  /\ op[o].pc \in Kinds /\ tx[op[o].run][op[o].pc] \in {"ok", "failed"}
  /\ Advance(o)
  /\ UNCHANGED <<files, run, tx, runs, chain, overlap>>

(* sendAndConfirmTransaction returns.                                      *)
Confirm(o) ==
  /\ op[o].pc \in Kinds /\ tx[op[o].run][op[o].pc] = "ok"
  /\ Advance(o)
  /\ UNCHANGED <<files, run, tx, runs, chain, overlap>>

(* sendAndConfirmTransaction throws, an RPC read throws, or the process is *)
(* killed: main rejects and nothing is undone.                             *)
Die(o) ==
  /\ op[o].pc # "exit"
  /\ op' = [op EXCEPT ![o].pc = "exit"]
  /\ UNCHANGED <<files, run, tx, runs, chain, overlap>>

SaveConfig(o) ==
  /\ op[o].pc = "save"
  /\ config' = run[op[o].run].slab
  /\ Advance(o)
  /\ UNCHANGED <<manifest, run, tx, runs, chain, overlap>>

(* Mutant: the balance is added to the target instead of taken off it.     *)
ShortfallAdded == IF wsol >= WRAP THEN 0 ELSE WRAP + wsol

(* ensureWrappedSol reads the balance and wraps what is missing.           *)
Shortfall == IF wsol >= WRAP THEN 0 ELSE WRAP - wsol

(* Mutant: the balance is not looked at.                                   *)
ReadBalanceAlways(o) ==
  /\ op[o].pc = "balance"
  /\ run' = [run EXCEPT ![op[o].run].need = WRAP]
  /\ op' = [op EXCEPT ![o].pc = "wrap"]
  /\ UNCHANGED <<files, tx, runs, chain, overlap>>

ReadBalance(o) ==
  /\ op[o].pc = "balance"
  /\ run' = [run EXCEPT ![op[o].run].need = Shortfall]
  /\ op' = [op EXCEPT ![o].pc = IF Shortfall = 0 THEN "topup" ELSE "wrap"]
  /\ UNCHANGED <<files, tx, runs, chain, overlap>>

WriteManifest(o) ==
  /\ op[o].pc = "manifest"
  /\ manifest' = run[op[o].run].slab
  /\ Advance(o)
  /\ UNCHANGED <<config, run, tx, runs, chain, overlap>>

(***************************************************************************)
(* The chain (external).                                                   *)
(***************************************************************************)
Valid(r, k) ==
  LET s == run[r].slab
  IN  CASE k = "slab"   -> stage[s] = "none"
        [] k = "vault"  -> stage[s] = "allocated"
        [] k = "market" -> stage[s] = "vault"
        [] k = "crank"  -> stage[s] \in {"market", "cranked"}
        [] k = "wrap"   -> TRUE
        [] k = "topup"  -> stage[s] \in {"market", "cranked"} /\ fresh[s] /\ wsol >= INSURANCE

Reached(k) == CASE k = "slab" -> "allocated" [] k = "vault" -> "vault"
                [] k = "market" -> "market" [] k = "crank" -> "cranked"

Execute(r, k) ==
  LET s == run[r].slab
  IN  /\ tx[r][k] = "sent" /\ Valid(r, k)
      /\ tx' = [tx EXCEPT ![r][k] = "ok"]
      /\ stage' = IF k \in {"wrap", "topup"} THEN stage ELSE [stage EXCEPT ![s] = Reached(k)]
      /\ fresh' = IF k \in {"market", "crank"} THEN [fresh EXCEPT ![s] = TRUE] ELSE fresh
      /\ insurance' = IF k = "topup" THEN [insurance EXCEPT ![s] = @ + INSURANCE]
                      ELSE insurance
      /\ wsol' = CASE k = "wrap" -> wsol + run[r].need [] k = "topup" -> wsol - INSURANCE
                   [] k \notin {"wrap", "topup"} -> wsol
      /\ UNCHANGED <<files, run, op, runs, overlap>>

(* Refused by the program.                                                 *)
Refuse(r, k) ==
  /\ tx[r][k] = "sent" /\ ~Valid(r, k)
  /\ tx' = [tx EXCEPT ![r][k] = "failed"]
  /\ UNCHANGED <<files, run, op, runs, chain, overlap>>

(* No leader took it while its blockhash was valid.                        *)
Expire(r, k) ==
  /\ tx[r][k] = "sent"
  /\ tx' = [tx EXCEPT ![r][k] = "failed"]
  /\ UNCHANGED <<files, run, op, runs, chain, overlap>>

(* The stale window passes without a crank.                                *)
Age(s) ==
  /\ fresh[s]
  /\ fresh' = [fresh EXCEPT ![s] = FALSE]
  /\ UNCHANGED <<files, run, tx, op, runs, stage, insurance, wsol, overlap>>

Init ==
  /\ config = NONE /\ manifest = NONE /\ runs = 0 /\ wsol = 0 /\ overlap = FALSE
  /\ run = [r \in Runs |-> Unstarted] /\ tx = [r \in Runs |-> Unsent]
  /\ op = [o \in Operators |-> Idle]
  /\ stage = [s \in Slabs |-> "none"] /\ fresh = [s \in Slabs |-> FALSE]
  /\ insurance = [s \in Slabs |-> 0]

Next ==
  \/ \E o \in Operators :
       \/ \E mode \in Modes : Start(o, mode)
       \/ Send(o) \/ Confirm(o) \/ Die(o) \/ SaveConfig(o) \/ ReadBalance(o)
       \/ WriteManifest(o)
  \/ \E r \in Runs, k \in Kinds : Execute(r, k) \/ Refuse(r, k) \/ Expire(r, k)
  \/ \E s \in Slabs : Age(s)

Spec == Init /\ [][Next]_vars

-----------------------------------------------------------------------------
TypeOK ==
  /\ {config, manifest} \subseteq 0 .. MaxRuns /\ runs \in 0 .. MaxRuns
  /\ run \in [Runs -> [mode : Modes, read : 0 .. MaxRuns, slab : 0 .. MaxRuns,
                       need : 0 .. WRAP]]
  /\ tx \in [Runs -> [Kinds -> {"unsent", "sent", "ok", "failed"}]]
  /\ op \in [Operators -> [run : 0 .. MaxRuns, pc : PCs]]
  /\ stage \in [Slabs -> {"none", "allocated", "vault", "market", "cranked"}]
  /\ fresh \in [Slabs -> BOOLEAN] /\ insurance \in [Slabs -> Nat] /\ wsol \in Nat
  /\ overlap \in BOOLEAN

(* Wherever the runs died, the config names no slab that is half deployed: *)
(* the one in it has its vault, its parameters and its first crank.        *)
ConfigNamesCrankedSlab == config # NONE => stage[config] = "cranked"

(* The manifest only names a slab with at least the insurance it states.   *)
ManifestIsFunded == manifest # NONE => insurance[manifest] >= INSURANCE

(* Runs that follow one another never hold more wrapped SOL than one run   *)
(* needs, however many of them died and at whatever step.                  *)
WrapsTheShortfall == ~overlap => wsol <= WRAP

(* "refuses to redeploy when the slab pubkey is already populated unless   *)
(* --force is passed": of runs that follow one another, only a forced one  *)
(* points a config that names a slab at another.                           *)
ReplacedOnlyByForce ==
  [][ ~overlap /\ config # NONE /\ config' # config
      => \E o \in Operators : op[o].pc = "save" /\ run[op[o].run].mode = "force" ]_vars
=============================================================================
