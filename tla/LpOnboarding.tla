---------------------------- MODULE LpOnboarding ----------------------------
(***************************************************************************)
(* How a client learns the slot of the account it creates.  Percolator     *)
(* takes the slot from a LIFO freelist and does not return it, and a       *)
(* matcher context has to be bound to the LP's PDA, which depends on the   *)
(* slot, before the LP exists.  Three clients of the repository guess or   *)
(* find it in three ways:                                                  *)
(*   first_free  add-vamm-lp.ts: the first clear bit, read beforehand      *)
(*   difference  initUser of test-profitable-withdrawal.ts: the first slot *)
(*               used afterwards that was not used before                  *)
(*   last        initUser of adversarial-test.ts: the highest used slot    *)
(* while other wallets join the market and leave it.                       *)
(***************************************************************************)
EXTENDS Naturals, FiniteSets, SequencesExt

CONSTANTS
  MaxAccounts,  (* slots of the slab                                       *)
  Strategies,   (* the clients that run                                    *)
  PAYER, OTHERS,(* the client's wallet and everybody else                  *)
  MaxRuns,      (* bound: runs of a client script                          *)
  MaxMoves      (* bound: accounts that others open or close               *)

ASSUME OnboardingAssumption ==
  /\ MaxAccounts \in Nat \ {0}
  /\ Strategies \subseteq {"first_free", "difference", "last"}
  /\ MaxRuns \in Nat /\ MaxMoves \in Nat
  /\ PAYER # OTHERS

Slots == 0 .. MaxAccounts - 1
NONE  == MaxAccounts + 1   (* no slot *)

VARIABLES
  slab,    (* slot -> its account                                          *)
  free,    (* the freelist, its head first                                 *)
  client,  (* the running script: step, strategy, what it read and found   *)
  runs,    (* runs so far; a run that creates an LP makes a context        *)
  bound,   (* run -> slot of the LP PDA its matcher context is bound to    *)
  manifest,(* vammLp of devnet-market.json                                 *)
  moves,   (* accounts others opened or closed                             *)
  freed,   (* history: a slot was ever given back                          *)
  raced    (* history: others moved while the client was between its reads *)

vars == <<slab, free, client, runs, bound, manifest, moves, freed, raced>>

Empty     == [kind |-> "none", owner |-> OTHERS, ctx |-> 0, capital |-> 0]
Used      == {i \in Slots : slab[i].kind # "none"}
FirstFree(used) == CHOOSE i \in 0 .. MaxAccounts :
                     i \notin used /\ \A j \in 0 .. i - 1 : j \in used
Highest(used)   == CHOOSE i \in used : \A j \in used : j <= i
Lowest(s)       == CHOOSE i \in s : \A j \in s : i <= j

Idle == [pc |-> "idle", strategy |-> "none", before |-> {}, index |-> NONE, actual |-> NONE]

(***************************************************************************)
(* Percolator's slots (external).                                          *)
(***************************************************************************)
(* Mutant: an account is put in the slot and the freelist keeps it.        *)
AllocateKeepsSlot(account) ==
  /\ slab' = [slab EXCEPT ![Head(free)] = account]
  /\ free' = free

Allocate(account) ==
  /\ slab' = [slab EXCEPT ![Head(free)] = account]
  /\ free' = Tail(free)

Join ==
  /\ free # <<>> /\ moves < MaxMoves
  /\ Allocate([Empty EXCEPT !.kind = "user"])
  /\ moves' = moves + 1
  /\ raced' = (raced \/ client.pc # "idle")
  /\ UNCHANGED <<client, runs, bound, manifest, freed>>

Leave(i) ==
  /\ slab[i].kind = "user" /\ slab[i].owner = OTHERS /\ moves < MaxMoves
  /\ slab' = [slab EXCEPT ![i] = Empty]
  /\ free' = <<i>> \o free
  /\ moves' = moves + 1 /\ freed' = TRUE
  /\ raced' = (raced \/ client.pc # "idle")
  /\ UNCHANGED <<client, runs, bound, manifest>>

(***************************************************************************)
(* The client scripts.                                                     *)
(***************************************************************************)
Guess(strategy) == IF strategy = "first_free" THEN FirstFree(Used) ELSE NONE

Start(strategy) ==
  /\ client.pc = "idle" /\ runs < MaxRuns
  /\ client' = [Idle EXCEPT !.pc = "read", !.strategy = strategy,
                            !.before = Used, !.index = Guess(strategy)]
  /\ runs' = runs + 1 /\ raced' = FALSE
  /\ UNCHANGED <<slab, free, bound, manifest, moves, freed>>

(* add-vamm-lp.ts: one transaction creates the context, binds it to the    *)
(* PDA of the guessed slot and creates the LP in the slot Percolator pops; *)
(* the other clients create a user account.                                *)
NewAccount(strategy) ==
  [kind |-> IF strategy = "first_free" THEN "lp" ELSE "user", owner |-> PAYER,
   ctx |-> IF strategy = "first_free" THEN runs ELSE 0, capital |-> 0]

CreateAccount ==
  /\ client.pc = "read" /\ free # <<>>
  /\ Allocate(NewAccount(client.strategy))
  /\ client' = [client EXCEPT !.pc = "created", !.actual = Head(free)]
  /\ bound' = IF client.strategy = "first_free" THEN [bound EXCEPT ![runs] = client.index]
              ELSE bound
  /\ UNCHANGED <<runs, manifest, moves, freed, raced>>

(* The slab is full: the transaction fails and the script ends.            *)
CreateFails ==
  /\ client.pc = "read" /\ free = <<>>
  /\ client' = Idle
  /\ UNCHANGED <<slab, free, runs, bound, manifest, moves, freed, raced>>

(* Mutant: the set of used slots is read again after the creation, instead *)
(* of the one read before it, and the first slot is taken for the new one. *)
FoundAnySlot ==
  CASE client.strategy = "first_free" -> client.index
    [] client.strategy = "last"       -> Highest(Used)
    [] client.strategy = "difference" -> Lowest(Used)

Found ==
  CASE client.strategy = "first_free" -> client.index
    [] client.strategy = "last"       -> Highest(Used)
    [] client.strategy = "difference" ->
         IF Used \subseteq client.before THEN NONE ELSE Lowest(Used \ client.before)

FindSlot ==
  /\ client.pc = "created"
  /\ client' = [client EXCEPT !.pc = "found", !.index = Found]
  /\ UNCHANGED <<slab, free, runs, bound, manifest, moves, freed, raced>>

(* The deposit that follows.  Percolator refuses one into a slot that is   *)
(* free or has another owner, and then add-vamm-lp.ts dies before it       *)
(* writes the manifest; an initUser that found no slot returns null.       *)
DepositLands == client.index \in Slots /\ slab[client.index].kind # "none"
                /\ slab[client.index].owner = PAYER

(* Mutant: the manifest is written whether or not the deposit landed.      *)
DepositUnchecked ==
  /\ client.pc = "found"
  /\ slab' = IF DepositLands THEN [slab EXCEPT ![client.index].capital = @ + 1] ELSE slab
  /\ manifest' = IF client.strategy = "first_free"
                 THEN [index |-> client.index, ctx |-> runs] ELSE manifest
  /\ client' = Idle
  /\ UNCHANGED <<free, runs, bound, moves, freed, raced>>

Deposit ==
  /\ client.pc = "found"
  /\ slab' = IF DepositLands THEN [slab EXCEPT ![client.index].capital = @ + 1] ELSE slab
  /\ manifest' = IF DepositLands /\ client.strategy = "first_free"
                 THEN [index |-> client.index, ctx |-> runs] ELSE manifest
  /\ client' = Idle
  /\ UNCHANGED <<free, runs, bound, moves, freed, raced>>

Init ==
  /\ slab = [i \in Slots |-> Empty]
  /\ free = [i \in 1 .. MaxAccounts |-> i - 1]
  /\ client = Idle /\ runs = 0 /\ moves = 0
  /\ bound = [r \in 1 .. MaxRuns |-> NONE]
  /\ manifest = [index |-> NONE, ctx |-> 0]
  /\ freed = FALSE /\ raced = FALSE

Next ==
  \/ Join
  \/ \E i \in Slots : Leave(i)
  \/ \E s \in Strategies : Start(s)
  \/ CreateAccount \/ CreateFails \/ FindSlot \/ Deposit

Spec == Init /\ [][Next]_vars

-----------------------------------------------------------------------------
(* The freelist and the slots partition the slab; the rest has its type.   *)
TypeOK ==
  /\ slab \in [Slots -> [kind : {"none", "user", "lp"}, owner : {PAYER, OTHERS},
                         ctx : 0 .. MaxRuns, capital : 0 .. MaxRuns]]
  /\ ToSet(free) = Slots \ Used /\ IsInjective(free)
  /\ client.before \subseteq Slots
  /\ {client.index, client.actual} \subseteq 0 .. NONE
  /\ bound \in [1 .. MaxRuns -> 0 .. NONE]
  /\ manifest \in [index : 0 .. NONE, ctx : 0 .. MaxRuns]

(* When nobody else moves between its reads, a client finds its own slot:  *)
(* the difference always, the first clear bit and the highest slot as long *)
(* as no slot was ever given back (skill.md, "SAFE: for fresh markets").   *)
FindsItsSlot ==
  client.pc = "found" /\ ~raced /\ (client.strategy # "difference" => ~freed)
    => client.index = client.actual

(* The manifest only ever names an LP that can trade: its index is an LP's *)
(* and the context of that LP is bound to its PDA.  A wrong guess is found *)
(* out by the deposit, before the manifest is written.                     *)
ManifestIsTradeable ==
  manifest.index # NONE =>
    LET lp == slab[manifest.index]
    IN  lp.kind = "lp" /\ lp.ctx = manifest.ctx /\ bound[lp.ctx] = manifest.index
=============================================================================
