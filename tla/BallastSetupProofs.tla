------------------------- MODULE BallastSetupProofs -------------------------
(***************************************************************************)
(* The setup script keeps its promises for any number of operators and     *)
(* runs, and for any amounts with INSURANCE <= WRAP.                       *)
(***************************************************************************)
EXTENDS BallastSetup, TLAPS

Deploys == {"slab", "vault", "market", "crank", "save"}

(* What a step of the row is followed by.                                  *)
LEMMA Row ==
  /\ After("slab") = "vault" /\ After("vault") = "market" /\ After("market") = "crank"
  /\ After("crank") = "save" /\ After("save") = "balance" /\ After("wrap") = "topup"
  /\ After("topup") = "manifest" /\ After("manifest") = "exit"
<1>1. Len(Steps) = 10
  BY DEF Steps
<1>2. \A i \in 1 .. 9 : After(Steps[i]) = Steps[i + 1]
  BY <1>1 DEF After, Steps
<1> QED BY <1>2 DEF Steps

(***************************************************************************)
(* The inductive invariant.  A transaction that was confirmed has left its *)
(* mark on the slab of its run, and nothing takes the mark away; a run     *)
(* that saves or writes the manifest has had the confirmation it rests on. *)
(***************************************************************************)
(* A run that was not started has sent nothing; one that sends has a slab. *)
StartedOK ==
  /\ \A r \in Runs, k \in Kinds :
       tx[r][k] # "unsent" => r <= runs /\ run[r].slab \in Slabs
  /\ \A o \in Operators :
       op[o].pc # "exit" => op[o].run \in 1 .. runs /\ run[op[o].run].slab \in Slabs
  /\ \A o, p \in Operators :
       op[o].pc # "exit" /\ op[p].pc # "exit" /\ op[o].run = op[p].run => o = p

ConfirmedOK ==
  /\ \A r \in Runs : tx[r]["crank"] = "ok" => stage[run[r].slab] = "cranked"
  /\ \A r \in Runs : tx[r]["topup"] = "ok" => insurance[run[r].slab] >= INSURANCE
  /\ \A o \in Operators : op[o].pc = "save" => tx[op[o].run]["crank"] = "ok"
  /\ \A o \in Operators : op[o].pc = "manifest" => tx[op[o].run]["topup"] = "ok"

(* As long as no run has overlapped another: only the last one is at work, *)
(* what it wraps fits, and without --force it found the config empty.      *)
AloneOK ==
  /\ \A o \in Operators : op[o].pc # "exit" => op[o].run = runs
  /\ \A r \in Runs, k \in Kinds : tx[r][k] = "sent" => r = runs
  /\ wsol <= WRAP
  /\ \A r \in Runs : tx[r]["wrap"] = "sent" => wsol + run[r].need <= WRAP
  /\ \A o \in Operators : op[o].pc = "wrap" /\ tx[op[o].run]["wrap"] = "unsent" =>
                            wsol + run[op[o].run].need <= WRAP
  /\ \A o \in Operators : op[o].pc \in Deploys /\ config # NONE =>
                            run[op[o].run].mode = "force"

UnwrappedOK ==
  \A o \in Operators : op[o].pc \in Deploys \cup {"balance"} => tx[op[o].run]["wrap"] = "unsent"

IInv == /\ TypeOK /\ StartedOK /\ ConfirmedOK /\ UnwrappedOK
        /\ ~overlap => AloneOK
        /\ ConfigNamesCrankedSlab /\ ManifestIsFunded

LEMMA InitIInv == Init => IInv
<1>1. SUFFICES ASSUME Init PROVE IInv
  OBVIOUS
<1>2. TypeOK
  <2>1. Unstarted \in [mode : Modes, read : 0 .. MaxRuns, slab : 0 .. MaxRuns, need : 0 .. WRAP]
    BY SetupAssumption DEF Unstarted, Modes, NONE
  <2>2. Idle \in [run : 0 .. MaxRuns, pc : PCs] /\ Unsent \in [Kinds -> {"unsent", "sent", "ok", "failed"}]
    BY SetupAssumption DEF Idle, Unsent, PCs, NONE
  <2>3. {config, manifest} \subseteq 0 .. MaxRuns /\ runs \in 0 .. MaxRuns
    BY <1>1, SetupAssumption DEF Init, NONE
  <2>4. fresh \in [Slabs -> BOOLEAN] /\ overlap \in BOOLEAN
    BY <1>1, Zenon DEF Init
  <2>5. /\ stage \in [Slabs -> {"none", "allocated", "vault", "market", "cranked"}]
        /\ insurance \in [Slabs -> Nat] /\ wsol \in Nat
    BY <1>1 DEF Init
  <2> QED BY <1>1, <2>1, <2>2, <2>3, <2>4, <2>5, Zenon DEF Init, TypeOK
<1>3. StartedOK /\ ConfirmedOK /\ UnwrappedOK /\ AloneOK
  BY <1>1, SetupAssumption
     DEF Init, StartedOK, ConfirmedOK, UnwrappedOK, AloneOK, Unsent, Idle, Kinds, Deploys, NONE
<1> QED BY <1>1, <1>2, <1>3 DEF Init, IInv, ConfigNamesCrankedSlab, ManifestIsFunded

(***************************************************************************)
(* What a step does to the variables that are functions.                   *)
(***************************************************************************)
LEMMA OpStep ==
  ASSUME TypeOK, NEW o \in Operators, NEW pc \in PCs, op' = [op EXCEPT ![o].pc = pc]
  PROVE  /\ op' \in [Operators -> [run : 0 .. MaxRuns, pc : PCs]]
         /\ \A p \in Operators : /\ op'[p].run = op[p].run
                                 /\ op'[p].pc = IF p = o THEN pc ELSE op[p].pc
  BY DEF TypeOK

(* Who is at work has a run of the table.                                  *)
LEMMA AtWork ==
  ASSUME TypeOK, StartedOK, NEW o \in Operators, op[o].pc # "exit"
  PROVE  op[o].run \in Runs /\ run[op[o].run].slab \in Slabs
  BY DEF TypeOK, StartedOK, Runs

(* A step that only moves o to pc, where no new promise falls due.         *)
LEMMA MoveKeeps ==
  ASSUME IInv, NEW o \in Operators, NEW pc \in PCs, op' = [op EXCEPT ![o].pc = pc],
         UNCHANGED <<files, run, tx, runs, chain, overlap>>,
         op[o].pc # "exit",
         pc = "save" => tx[op[o].run]["crank"] = "ok",
         pc = "manifest" => tx[op[o].run]["topup"] = "ok",
         pc \in Deploys => op[o].pc \in Deploys,
         pc \in Deploys \cup {"balance"} => op[o].pc \in Deploys,
         pc # "wrap"
  PROVE  IInv'
<1>0. UNCHANGED <<config, manifest, run, tx, runs, stage, fresh, insurance, wsol, overlap>>
  BY DEF files, chain
<1>1. /\ op' \in [Operators -> [run : 0 .. MaxRuns, pc : PCs]]
      /\ \A p \in Operators : /\ op'[p].run = op[p].run
                              /\ op'[p].pc = IF p = o THEN pc ELSE op[p].pc
  BY OpStep DEF IInv
<1>2. TypeOK'
  BY <1>0, <1>1, Zenon DEF IInv, TypeOK
<1>3. StartedOK'
  BY <1>0, <1>1 DEF IInv, StartedOK
<1>4. ConfirmedOK'
  BY <1>0, <1>1 DEF IInv, ConfirmedOK
<1>5. UnwrappedOK'
  BY <1>0, <1>1 DEF IInv, UnwrappedOK
<1>6. ASSUME ~overlap PROVE AloneOK'
  <2>1. AloneOK
    BY <1>6 DEF IInv
  <2> QED BY <2>1, <1>0, <1>1 DEF AloneOK
<1> QED BY <1>0, <1>2, <1>3, <1>4, <1>5, <1>6
        DEF IInv, ConfigNamesCrankedSlab, ManifestIsFunded

LEMMA StartKeeps ==
  ASSUME IInv, NEW o \in Operators, NEW mode \in Modes, Start(o, mode)
  PROVE  IInv'
<1> DEFINE r == runs + 1
           s == IF mode = "insurance_only" THEN config ELSE r
<1>0. /\ UNCHANGED <<config, manifest, tx, stage, fresh, insurance, wsol>>
      /\ op[o].pc = "exit" /\ runs < MaxRuns /\ runs' = r
      /\ run' = [run EXCEPT ![r] = [mode |-> mode, read |-> config, need |-> 0, slab |-> s]]
      /\ op' = [op EXCEPT ![o] = [run |-> r, pc |-> FirstStep(mode, config)]]
      /\ overlap' = (overlap \/ Unsettled)
  BY DEF Start, files, chain
<1>1. r \in Runs /\ r \notin 0 .. runs /\ s \in 0 .. MaxRuns /\ runs \in Nat
  BY <1>0, SetupAssumption DEF IInv, TypeOK, Runs
<1>2. /\ FirstStep(mode, config) \in {"exit", "balance", "slab"}
      /\ FirstStep(mode, config) # "exit" => s \in Slabs
      /\ FirstStep(mode, config) = "slab" /\ config # NONE => mode = "force"
  BY <1>1, SetupAssumption DEF FirstStep, IInv, TypeOK, Slabs, Runs, NONE
<1>3. /\ run' \in [Runs -> [mode : Modes, read : 0 .. MaxRuns, slab : 0 .. MaxRuns, need : 0 .. WRAP]]
      /\ \A q \in Runs : q # r => run'[q] = run[q]
      /\ run'[r].mode = mode /\ run'[r].slab = s
  BY <1>0, <1>1, SetupAssumption DEF IInv, TypeOK
<1>4. /\ op' \in [Operators -> [run : 0 .. MaxRuns, pc : PCs]]
      /\ \A p \in Operators : p # o => op'[p] = op[p]
      /\ op'[o].run = r /\ op'[o].pc = FirstStep(mode, config)
  BY <1>0, <1>1, <1>2 DEF IInv, TypeOK, PCs, Runs, Kinds
<1>5. \A k \in Kinds : tx[r][k] = "unsent"
  BY <1>1 DEF IInv, StartedOK, TypeOK
<1>6. TypeOK'
  <2>1. overlap' \in BOOLEAN
    BY <1>0, Zenon DEF Unsettled
  <2> QED BY <1>0, <1>1, <1>3, <1>4, <2>1, Zenon DEF IInv, TypeOK, Runs
<1>7. StartedOK'
  BY <1>0, <1>1, <1>2, <1>3, <1>4, <1>5 DEF IInv, TypeOK, StartedOK, Runs
<1>8. ConfirmedOK'
  BY <1>0, <1>2, <1>3, <1>4, <1>5, AtWork DEF IInv, ConfirmedOK, StartedOK, Kinds
<1>9. UnwrappedOK'
  BY <1>0, <1>4, <1>5 DEF IInv, UnwrappedOK, Kinds
<1>10. ASSUME ~overlap' PROVE AloneOK'
  <2>1. AloneOK /\ ~Unsettled
    BY <1>10, <1>0 DEF IInv
  <2>2. /\ \A p \in Operators : p # o => op'[p].pc = "exit"
        /\ \A q \in Runs, k \in Kinds : tx'[q][k] # "sent"
    BY <2>1, <1>0, <1>4 DEF Unsettled
  <2> QED BY <2>1, <2>2, <1>0, <1>2, <1>3, <1>4 DEF AloneOK, Deploys, Kinds
<1> QED BY <1>0, <1>6, <1>7, <1>8, <1>9, <1>10
        DEF IInv, ConfigNamesCrankedSlab, ManifestIsFunded

LEMMA SendKeeps ==
  ASSUME IInv, NEW o \in Operators, Send(o)
  PROVE  IInv'
<1> DEFINE r == op[o].run
           k == op[o].pc
<1>0. /\ UNCHANGED <<config, manifest, run, op, runs, stage, fresh, insurance, wsol, overlap>>
      /\ k \in Kinds /\ tx[r][k] = "unsent" /\ tx' = [tx EXCEPT ![r][k] = "sent"]
  BY DEF Send, files, chain
<1>1. k # "exit" /\ r \in Runs /\ run[r].slab \in Slabs /\ r \in 1 .. runs
  BY <1>0, AtWork DEF IInv, Kinds, StartedOK
<1>2. /\ tx' \in [Runs -> [Kinds -> {"unsent", "sent", "ok", "failed"}]]
      /\ \A q \in Runs, j \in Kinds : tx'[q][j] = IF q = r /\ j = k THEN "sent" ELSE tx[q][j]
  BY <1>0, <1>1 DEF IInv, TypeOK
<1>3. TypeOK'
  BY <1>0, <1>2, Zenon DEF IInv, TypeOK
<1>4. StartedOK'
  BY <1>0, <1>1, <1>2 DEF IInv, StartedOK
<1>5. ConfirmedOK'
  <2>1. \A p \in Operators : op[p].pc \in {"save", "manifest"} => op[p].run \in Runs
    BY AtWork DEF IInv
  <2> QED BY <2>1, <1>0, <1>2 DEF IInv, ConfirmedOK, Kinds
<1>6. UnwrappedOK'
  <2>1. \A p \in Operators : op[p].pc \in Deploys \cup {"balance"} =>
                             op[p].run \in Runs /\ (op[p].run = r => p = o)
    BY <1>1, AtWork DEF IInv, StartedOK, Deploys
  <2>2. k \in Deploys \cup {"balance"} => k # "wrap"
    BY DEF Deploys
  <2> QED BY <2>1, <2>2, <1>0, <1>2 DEF IInv, UnwrappedOK, Kinds
<1>7. ASSUME ~overlap PROVE AloneOK'
  <2>1. AloneOK
    BY <1>7 DEF IInv
  <2>2. \A p \in Operators : op[p].pc # "exit" => op[p].run \in Runs
    BY AtWork DEF IInv
  <2> QED BY <2>1, <2>2, <1>0, <1>1, <1>2 DEF AloneOK, Kinds
<1> QED BY <1>0, <1>3, <1>4, <1>5, <1>6, <1>7
        DEF IInv, ConfigNamesCrankedSlab, ManifestIsFunded

LEMMA ConfirmKeeps ==
  ASSUME IInv, NEW o \in Operators, Confirm(o)
  PROVE  IInv'
<1>1. /\ op[o].pc \in Kinds /\ tx[op[o].run][op[o].pc] = "ok"
      /\ op' = [op EXCEPT ![o].pc = After(op[o].pc)]
      /\ UNCHANGED <<files, run, tx, runs, chain, overlap>>
  BY DEF Confirm, Advance
<1>2. /\ After(op[o].pc) \in PCs \ {"wrap", "balance"}
      /\ After(op[o].pc) = "save" => op[o].pc = "crank"
      /\ After(op[o].pc) = "manifest" => op[o].pc = "topup"
      /\ After(op[o].pc) \in Deploys => op[o].pc \in Deploys
  BY <1>1, Row DEF Kinds, PCs, Deploys
<1> QED BY <1>1, <1>2, MoveKeeps DEF Kinds, Deploys

LEMMA DieKeeps ==
  ASSUME IInv, NEW o \in Operators, Die(o)
  PROVE  IInv'
  BY MoveKeeps DEF Die, PCs, Deploys

LEMMA SaveKeeps ==
  ASSUME IInv, NEW o \in Operators, SaveConfig(o)
  PROVE  IInv'
<1> DEFINE r == op[o].run
<1>0. /\ UNCHANGED <<manifest, run, tx, runs, stage, fresh, insurance, wsol, overlap>>
      /\ op[o].pc = "save" /\ config' = run[r].slab
      /\ op' = [op EXCEPT ![o].pc = "balance"]
  BY Row DEF SaveConfig, Advance, chain
<1>1. r \in Runs /\ run[r].slab \in Slabs
  BY <1>0, AtWork DEF IInv
<1>2. /\ op' \in [Operators -> [run : 0 .. MaxRuns, pc : PCs]]
      /\ \A p \in Operators : /\ op'[p].run = op[p].run
                              /\ op'[p].pc = IF p = o THEN "balance" ELSE op[p].pc
  BY <1>0, OpStep DEF IInv, PCs
<1>3. TypeOK'
  <2>1. {config', manifest'} \subseteq 0 .. MaxRuns
    BY <1>0, <1>1, SetupAssumption DEF IInv, TypeOK, Slabs, Runs
  <2> QED BY <1>0, <1>2, <2>1, Zenon DEF IInv, TypeOK
<1>4. StartedOK'
  BY <1>0, <1>2 DEF IInv, StartedOK
<1>5. ConfirmedOK'
  BY <1>0, <1>2 DEF IInv, ConfirmedOK
<1>6. UnwrappedOK'
  BY <1>0, <1>2 DEF IInv, UnwrappedOK, Deploys
<1>7. ASSUME ~overlap PROVE AloneOK'
  <2>1. AloneOK
    BY <1>7 DEF IInv
  <2>2. \A p \in Operators : op[p].pc # "exit" => p = o
    BY <2>1, <1>0 DEF AloneOK, IInv, StartedOK
  <2> QED BY <2>1, <2>2, <1>0, <1>2 DEF AloneOK, Deploys
<1>8. ConfigNamesCrankedSlab'
  BY <1>0, <1>1 DEF IInv, ConfirmedOK, ConfigNamesCrankedSlab
<1> QED BY <1>0, <1>3, <1>4, <1>5, <1>6, <1>7, <1>8 DEF IInv, ManifestIsFunded

LEMMA ManifestKeeps ==
  ASSUME IInv, NEW o \in Operators, WriteManifest(o)
  PROVE  IInv'
<1> DEFINE r == op[o].run
<1>0. /\ UNCHANGED <<config, run, tx, runs, stage, fresh, insurance, wsol, overlap>>
      /\ op[o].pc = "manifest" /\ manifest' = run[r].slab
      /\ op' = [op EXCEPT ![o].pc = "exit"]
  BY Row DEF WriteManifest, Advance, chain
<1>1. r \in Runs /\ run[r].slab \in Slabs
  BY <1>0, AtWork DEF IInv
<1>2. /\ op' \in [Operators -> [run : 0 .. MaxRuns, pc : PCs]]
      /\ \A p \in Operators : /\ op'[p].run = op[p].run
                              /\ op'[p].pc = IF p = o THEN "exit" ELSE op[p].pc
  BY <1>0, OpStep DEF IInv, PCs
<1>3. TypeOK'
  <2>1. {config', manifest'} \subseteq 0 .. MaxRuns
    BY <1>0, <1>1, SetupAssumption DEF IInv, TypeOK, Slabs, Runs
  <2> QED BY <1>0, <1>2, <2>1, Zenon DEF IInv, TypeOK
<1>4. StartedOK'
  BY <1>0, <1>2 DEF IInv, StartedOK
<1>5. ConfirmedOK'
  BY <1>0, <1>2 DEF IInv, ConfirmedOK
<1>6. UnwrappedOK'
  BY <1>0, <1>2 DEF IInv, UnwrappedOK, Deploys
<1>7. ASSUME ~overlap PROVE AloneOK'
  BY <1>7, <1>0, <1>2 DEF IInv, AloneOK, Deploys
<1>8. ManifestIsFunded'
  BY <1>0, <1>1 DEF IInv, ConfirmedOK, ManifestIsFunded
<1> QED BY <1>0, <1>3, <1>4, <1>5, <1>6, <1>7, <1>8 DEF IInv, ConfigNamesCrankedSlab

LEMMA ReadKeeps ==
  ASSUME IInv, NEW o \in Operators, ReadBalance(o)
  PROVE  IInv'
<1> DEFINE r  == op[o].run
           pc == IF Shortfall = 0 THEN "topup" ELSE "wrap"
<1>0. /\ UNCHANGED <<config, manifest, tx, runs, stage, fresh, insurance, wsol, overlap>>
      /\ op[o].pc = "balance" /\ run' = [run EXCEPT ![r].need = Shortfall]
      /\ op' = [op EXCEPT ![o].pc = pc]
  BY DEF ReadBalance, files, chain
<1>1. r \in Runs
  BY <1>0, AtWork DEF IInv
<1>2. pc \in {"topup", "wrap"} /\ pc \in PCs
  BY DEF PCs, Kinds
<1>3. /\ op' \in [Operators -> [run : 0 .. MaxRuns, pc : PCs]]
      /\ \A p \in Operators : /\ op'[p].run = op[p].run
                              /\ op'[p].pc = IF p = o THEN pc ELSE op[p].pc
  <2> HIDE DEF pc
  <2> QED BY <1>0, <1>2, OpStep DEF IInv
<1>4. Shortfall \in 0 .. WRAP /\ (wsol <= WRAP => wsol + Shortfall <= WRAP)
  BY SetupAssumption DEF Shortfall, IInv, TypeOK
<1>5. /\ run' \in [Runs -> [mode : Modes, read : 0 .. MaxRuns, slab : 0 .. MaxRuns, need : 0 .. WRAP]]
      /\ \A q \in Runs : /\ run'[q].slab = run[q].slab /\ run'[q].mode = run[q].mode
                         /\ run'[q].need = IF q = r THEN Shortfall ELSE run[q].need
  BY <1>0, <1>1, <1>4 DEF IInv, TypeOK
<1>6. TypeOK'
  BY <1>0, <1>3, <1>5, Zenon DEF IInv, TypeOK
<1>7. StartedOK'
  BY <1>0, <1>3, <1>5, AtWork DEF IInv, StartedOK
<1>8. ConfirmedOK'
  BY <1>0, <1>2, <1>3, <1>5 DEF IInv, ConfirmedOK
<1>9. UnwrappedOK'
  BY <1>0, <1>2, <1>3 DEF IInv, UnwrappedOK, Deploys
<1>10. ASSUME ~overlap PROVE AloneOK'
  <2>1. AloneOK
    BY <1>10 DEF IInv
  <2>2. tx[r]["wrap"] = "unsent"
    BY <1>0 DEF IInv, UnwrappedOK
  <2>3. \A p \in Operators : op[p].pc # "exit" => op[p].run \in Runs
    BY AtWork DEF IInv
  <2>4. \A p \in Operators : op'[p].pc # "exit" => op'[p].run \in Runs
    BY <2>3, <1>0, <1>3
  <2> QED BY <2>1, <2>2, <2>3, <2>4, <1>0, <1>1, <1>2, <1>3, <1>4, <1>5 DEF AloneOK, Deploys
<1> QED BY <1>0, <1>6, <1>7, <1>8, <1>9, <1>10
        DEF IInv, ConfigNamesCrankedSlab, ManifestIsFunded

(* A transaction that settles without an effect on the chain.              *)
LEMMA FailKeeps ==
  ASSUME IInv, NEW r \in Runs, NEW k \in Kinds, Refuse(r, k) \/ Expire(r, k)
  PROVE  IInv'
<1>0. /\ UNCHANGED <<config, manifest, run, op, runs, stage, fresh, insurance, wsol, overlap>>
      /\ tx[r][k] = "sent" /\ tx' = [tx EXCEPT ![r][k] = "failed"]
  BY DEF Refuse, Expire, files, chain
<1>1. /\ tx' \in [Runs -> [Kinds -> {"unsent", "sent", "ok", "failed"}]]
      /\ \A q \in Runs, j \in Kinds : tx'[q][j] = IF q = r /\ j = k THEN "failed" ELSE tx[q][j]
  BY <1>0 DEF IInv, TypeOK
<1>2. \A p \in Operators : op[p].pc # "exit" => op[p].run \in Runs
  BY AtWork DEF IInv
<1>3. TypeOK'
  BY <1>0, <1>1, Zenon DEF IInv, TypeOK
<1>4. StartedOK'
  BY <1>0, <1>1 DEF IInv, StartedOK
<1>5. ConfirmedOK'
  BY <1>0, <1>1, <1>2 DEF IInv, ConfirmedOK, Kinds
<1>6. UnwrappedOK'
  BY <1>0, <1>1, <1>2 DEF IInv, UnwrappedOK, Deploys, Kinds
<1>7. ASSUME ~overlap PROVE AloneOK'
  BY <1>7, <1>0, <1>1, <1>2 DEF IInv, AloneOK, Kinds
<1> QED BY <1>0, <1>3, <1>4, <1>5, <1>6, <1>7
        DEF IInv, ConfigNamesCrankedSlab, ManifestIsFunded

(* A stage that is reached is not left, and insurance is not taken out.    *)
LEMMA ExecuteKeeps ==
  ASSUME IInv, NEW r \in Runs, NEW k \in Kinds, Execute(r, k)
  PROVE  IInv'
<1> DEFINE s == run[r].slab
<1>0. /\ UNCHANGED <<config, manifest, run, op, runs, overlap>>
      /\ tx[r][k] = "sent" /\ Valid(r, k) /\ tx' = [tx EXCEPT ![r][k] = "ok"]
      /\ stage' = IF k \in {"wrap", "topup"} THEN stage ELSE [stage EXCEPT ![s] = Reached(k)]
      /\ fresh' = IF k \in {"market", "crank"} THEN [fresh EXCEPT ![s] = TRUE] ELSE fresh
      /\ insurance' = IF k = "topup" THEN [insurance EXCEPT ![s] = @ + INSURANCE] ELSE insurance
      /\ wsol' = CASE k = "wrap" -> wsol + run[r].need [] k = "topup" -> wsol - INSURANCE
                   [] k \notin {"wrap", "topup"} -> wsol
  BY DEF Execute, files
<1>1. /\ tx' \in [Runs -> [Kinds -> {"unsent", "sent", "ok", "failed"}]]
      /\ \A q \in Runs, j \in Kinds : tx'[q][j] = IF q = r /\ j = k THEN "ok" ELSE tx[q][j]
  BY <1>0 DEF IInv, TypeOK
<1>2. s \in Slabs /\ \A q \in Runs, j \in Kinds : tx[q][j] # "unsent" => run[q].slab \in Slabs
  BY <1>0 DEF IInv, StartedOK
<1>3. \A p \in Operators : op[p].pc # "exit" => op[p].run \in Runs
  BY AtWork DEF IInv
<1>4. /\ stage' \in [Slabs -> {"none", "allocated", "vault", "market", "cranked"}]
      /\ \A t \in Slabs : stage[t] = "cranked" => stage'[t] = "cranked"
      /\ k = "crank" => stage'[s] = "cranked"
  BY <1>0, <1>2 DEF IInv, TypeOK, Valid, Reached, Kinds
<1>5. /\ insurance' \in [Slabs -> Nat]
      /\ \A t \in Slabs : insurance'[t] >= insurance[t]
      /\ k = "topup" => insurance'[s] >= INSURANCE
  BY <1>0, <1>2, SetupAssumption DEF IInv, TypeOK
<1>6. /\ wsol' \in Nat
      /\ k # "wrap" => wsol' <= wsol
      /\ k = "wrap" => wsol' = wsol + run[r].need
  <2>1. wsol \in Nat /\ run[r].need \in Nat
    BY SetupAssumption DEF IInv, TypeOK
  <2>2. CASE k = "wrap"
    BY <2>1, <2>2, <1>0
  <2>3. CASE k = "topup"
    <3>1. wsol' = wsol - INSURANCE
      BY <2>3, <1>0
    <3>2. wsol >= INSURANCE
      BY <2>3, <1>0 DEF Valid
    <3> QED BY <2>1, <2>3, <3>1, <3>2, SetupAssumption
  <2>4. CASE k \notin {"wrap", "topup"}
    BY <2>1, <2>4, <1>0
  <2> QED BY <2>2, <2>3, <2>4
<1>7. fresh' \in [Slabs -> BOOLEAN]
  BY <1>0, <1>2, Zenon DEF IInv, TypeOK
<1>8. TypeOK'
  BY <1>0, <1>1, <1>4, <1>5, <1>6, <1>7, Zenon DEF IInv, TypeOK
<1>9. StartedOK'
  BY <1>0, <1>1 DEF IInv, StartedOK
<1>10. ConfirmedOK'
  <2>1. \A q \in Runs : tx'[q]["crank"] = "ok" => stage'[run[q].slab] = "cranked"
    BY <1>1, <1>2, <1>4 DEF IInv, ConfirmedOK, Kinds
  <2>2. \A q \in Runs : tx'[q]["topup"] = "ok" => insurance'[run[q].slab] >= INSURANCE
    BY <1>1, <1>2, <1>5, SetupAssumption DEF IInv, ConfirmedOK, Kinds, TypeOK
  <2> QED BY <2>1, <2>2, <1>0, <1>1, <1>3 DEF IInv, ConfirmedOK, Kinds
<1>11. UnwrappedOK'
  BY <1>0, <1>1, <1>3 DEF IInv, UnwrappedOK, Deploys, Kinds
<1>12. ASSUME ~overlap PROVE AloneOK'
  <2>1. AloneOK /\ wsol \in Nat /\ wsol' \in Nat
        /\ \A q \in Runs : run[q].need \in 0 .. WRAP
    BY <1>12, <1>6 DEF IInv, TypeOK
  <2>2. wsol' <= WRAP
    BY <2>1, <1>0, <1>6, SetupAssumption DEF AloneOK
  <2>3. \A q \in Runs : tx'[q]["wrap"] = "sent" => wsol' + run[q].need <= WRAP
    BY <2>1, <1>0, <1>1, <1>6, SetupAssumption DEF AloneOK, Kinds
  <2>4. \A p \in Operators : op[p].pc = "wrap" /\ tx'[op[p].run]["wrap"] = "unsent" =>
                            wsol' + run[op[p].run].need <= WRAP
    BY <2>1, <1>0, <1>1, <1>3, <1>6, SetupAssumption DEF AloneOK, Kinds
  <2> QED BY <2>1, <2>2, <2>3, <2>4, <1>0, <1>1 DEF AloneOK
<1>13. ConfigNamesCrankedSlab'
  BY <1>0, <1>4 DEF IInv, TypeOK, ConfigNamesCrankedSlab, Slabs, Runs, NONE
<1>14. ManifestIsFunded'
  <2>1. ASSUME manifest # NONE PROVE manifest \in Slabs /\ insurance[manifest] >= INSURANCE
    BY <2>1, SetupAssumption DEF IInv, TypeOK, ManifestIsFunded, Slabs, Runs, NONE
  <2>2. \A t \in Slabs : insurance[t] \in Nat /\ insurance'[t] \in Nat
    BY <1>5 DEF IInv, TypeOK
  <2> QED BY <2>1, <2>2, <1>0, <1>5, SetupAssumption DEF ManifestIsFunded
<1> QED BY <1>0, <1>8, <1>9, <1>10, <1>11, <1>12, <1>13, <1>14 DEF IInv

LEMMA AgeKeeps ==
  ASSUME IInv, NEW s \in Slabs, Age(s)
  PROVE  IInv'
<1>0. /\ UNCHANGED <<config, manifest, run, tx, op, runs, stage, insurance, wsol, overlap>>
      /\ fresh' = [fresh EXCEPT ![s] = FALSE]
  BY DEF Age, files
<1>1. TypeOK'
  BY <1>0, Zenon DEF IInv, TypeOK
<1> QED BY <1>0, <1>1 DEF IInv, StartedOK, ConfirmedOK, UnwrappedOK, AloneOK,
                          ConfigNamesCrankedSlab, ManifestIsFunded

LEMMA StepIInv == IInv /\ [Next]_vars => IInv'
<1>1. SUFFICES ASSUME IInv, [Next]_vars PROVE IInv'
  OBVIOUS
<1>2. CASE UNCHANGED vars
  BY <1>1, <1>2 DEF vars, IInv, TypeOK, StartedOK, ConfirmedOK, UnwrappedOK, AloneOK,
                    ConfigNamesCrankedSlab, ManifestIsFunded
<1>3. ASSUME NEW o \in Operators,
             \/ \E mode \in Modes : Start(o, mode)
             \/ Send(o) \/ Confirm(o) \/ Die(o) \/ SaveConfig(o) \/ ReadBalance(o)
             \/ WriteManifest(o)
      PROVE  IInv'
  BY <1>1, <1>3, StartKeeps, SendKeeps, ConfirmKeeps, DieKeeps, SaveKeeps, ReadKeeps, ManifestKeeps
<1>4. ASSUME NEW r \in Runs, NEW k \in Kinds, Execute(r, k) \/ Refuse(r, k) \/ Expire(r, k)
      PROVE  IInv'
  BY <1>1, <1>4, ExecuteKeeps, FailKeeps
<1>5. ASSUME NEW s \in Slabs, Age(s) PROVE IInv'
  BY <1>1, <1>5, AgeKeeps
<1> QED BY <1>1, <1>2, <1>3, <1>4, <1>5 DEF Next

LEMMA Invariance == Spec => []IInv
<1> QED BY InitIInv, StepIInv, PTL DEF Spec

-----------------------------------------------------------------------------
(* Every variable keeps its type; no run wraps more than WRAP.             *)
THEOREM TypeCorrect == Spec => []TypeOK
<1>1. IInv => TypeOK
  BY DEF IInv
<1> QED BY <1>1, Invariance, PTL

(* saveConfig comes after the first crank was confirmed: wherever runs     *)
(* died, the config names no slab that is half deployed.                   *)
THEOREM SavedIsCranked == Spec => []ConfigNamesCrankedSlab
<1>1. IInv => ConfigNamesCrankedSlab
  BY DEF IInv
<1> QED BY <1>1, Invariance, PTL

(* The manifest comes after the confirmed top-up, which nothing takes out. *)
THEOREM ManifestFunded == Spec => []ManifestIsFunded
<1>1. IInv => ManifestIsFunded
  BY DEF IInv
<1> QED BY <1>1, Invariance, PTL

(* ensureWrappedSol of runs that follow one another never wraps twice.     *)
THEOREM WrappedOnce == Spec => []WrapsTheShortfall
<1>1. IInv => WrapsTheShortfall
  BY DEF IInv, AloneOK, WrapsTheShortfall
<1> QED BY <1>1, Invariance, PTL

(* The guard on the existing slab: of runs that follow one another, only a *)
(* forced one replaces the slab of the config.                             *)
THEOREM ReplacedByForce == Spec => ReplacedOnlyByForce
<1> DEFINE A == ~overlap /\ config # NONE /\ config' # config
                => \E o \in Operators : op[o].pc = "save" /\ run[op[o].run].mode = "force"
<1>1. IInv /\ [Next]_vars => [A]_vars
  <2>1. SUFFICES ASSUME IInv, Next, ~overlap, config # NONE, config' # config
                 PROVE  \E o \in Operators : op[o].pc = "save" /\ run[op[o].run].mode = "force"
    OBVIOUS
  <2>2. PICK o \in Operators : SaveConfig(o)
    BY <2>1 DEF Next, Start, Send, Confirm, Die, ReadBalance, WriteManifest, Execute, Refuse,
                Expire, Age, files
  <2> QED BY <2>1, <2>2 DEF SaveConfig, IInv, AloneOK, Deploys
<1> QED BY <1>1, Invariance, PTL DEF Spec, ReplacedOnlyByForce
=============================================================================
