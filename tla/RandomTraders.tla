---------------------------- MODULE RandomTraders ----------------------------
(***************************************************************************)
(* random-traders.ts, the bot that trades at random on a devnet market     *)
(* with a handful of accounts of one wallet, stages a bank run every so    *)
(* many trades and refunds its traders after it.  It keeps the indices of  *)
(* its accounts in memory, reads the slab at the start of every pass and   *)
(* acts on that copy, one transaction after the other, while accounts are  *)
(* closed under it.  A transaction is confirmed, or refused, or given up   *)
(* on by sendAndConfirmTransaction and executed later.  Capital counts     *)
(* quarters of a deposit.                                                  *)
(*                                                                         *)
(* Left out: realizePnL, which the loop never calls (a count divisible by  *)
(* 15 is divisible by 5), the cranks, whose failure is ignored, and the    *)
(* wrapping of SOL, without which a deposit is refused.                    *)
(***************************************************************************)
EXTENDS QuoteRouter, SequencesExt

CONSTANTS
  MaxAccounts,   (* slots of the slab                                      *)
  NUM_TRADERS,   (* accounts the bot wants; the code's is 5                *)
  DEPOSIT,       (* a deposit, in quarters of itself: 4                    *)
  BANK_RUN_INTERVAL,   (* trades between bank runs; the code's is 5        *)
  REVALIDATE_INTERVAL, (* trades between revalidations; the code's is 10   *)
  ORACLE, TRADE_SIZE,  (* what is quoted                                   *)
  Context,       (* slot -> the matcher context of an LP there             *)
  MaxFaults,     (* bound: reads that fail, transactions given up on, kills*)
  MaxChanges,    (* bound: times that others close accounts                *)
  MaxCapital     (* bound: capital of an account                           *)

Indices == 1 .. MaxAccounts

ASSUME TradersAssumption ==
  /\ {MaxAccounts, NUM_TRADERS, BANK_RUN_INTERVAL} \subseteq Nat \ {0}
  /\ DEPOSIT = 4 /\ REVALIDATE_INTERVAL = 2 * BANK_RUN_INTERVAL
  /\ {MaxFaults, MaxChanges, MaxCapital} \subseteq Nat /\ MaxCapital >= DEPOSIT

VARIABLES
  slab,     (* slot -> account                                             *)
  wire,     (* transactions given up on that may still be executed         *)
  pc,       (* where the bot is                                            *)
  traders,  (* traderIndices                                               *)
  count,    (* tradeCount; after REVALIDATE_INTERVAL it starts at 1 again, *)
            (* which no test of the loop tells apart                       *)
  looping,  (* tradeLoop was entered                                       *)
  plan,     (* transactions that are left of the pass under way            *)
  faults, changes, (* how many so far                                      *)
  late      (* history: kind -> transactions executed after they were      *)
            (* given up on                                                 *)

events == <<faults, changes>>
vars   == <<slab, wire, pc, traders, count, looping, plan, events, late>>
bot    == <<pc, traders, count, looping, plan>>

NoAccount == [owner |-> "nobody", kind |-> "none", capital |-> 0]
Account(owner, kind, capital) == [owner |-> owner, kind |-> kind, capital |-> capital]

Used(i) == slab[i] # NoAccount
Ours(i) == slab[i].owner = "us"
IsOurTrader(i) == Used(i) /\ Ours(i) /\ slab[i].kind # "lp"

-----------------------------------------------------------------------------
(***************************************************************************)
(* Transactions, and what Percolator (external) makes of them.             *)
(***************************************************************************)
Tx(kind, idx, amount, lp) == [kind |-> kind, idx |-> idx, amount |-> amount, lp |-> lp]

InitUser       == Tx("InitUser", 0, 0, 0)
Deposit(i, n)  == Tx("Deposit", i, n, 0)
Withdraw(i, n) == Tx("Withdraw", i, n, 0)
Trade(i, lp)   == Tx("Trade", i, 0, lp)

(* Only the owner's signature moves an account, and an LP does not take.   *)
(* Positions are left out: that one stands in the way of a withdrawal or a *)
(* trade is a refusal like any other.                                      *)
Accepted(x) ==
  CASE x.kind = "InitUser" -> \E i \in Indices : ~Used(i)
    [] x.kind = "Deposit"  -> Ours(x.idx) /\ slab[x.idx].capital + x.amount <= MaxCapital
    [] x.kind = "Withdraw" -> Ours(x.idx) /\ slab[x.idx].capital >= x.amount
    [] x.kind = "Trade"    ->
         /\ slab[x.idx].owner = "us" /\ slab[x.idx].kind = "user" /\ slab[x.idx].capital > 0
         /\ slab[x.lp].kind = "lp" /\ slab[x.lp].capital > 0 /\ x.lp # x.idx

Executes(x) ==
  /\ Accepted(x)
  /\ CASE x.kind = "InitUser" ->
            \E i \in Indices : ~Used(i) /\ slab' = [slab EXCEPT ![i] = Account("us", "user", 0)]
       [] x.kind = "Deposit"  -> slab' = [slab EXCEPT ![x.idx].capital = @ + x.amount]
       [] x.kind = "Withdraw" -> slab' = [slab EXCEPT ![x.idx].capital = @ - x.amount]
       [] x.kind = "Trade"    -> UNCHANGED slab

-----------------------------------------------------------------------------
(***************************************************************************)
(* What each pass plans from its copy of the slab.                         *)
(***************************************************************************)
(* Indices in the order in which parseUsedIndices finds them.              *)
Ascending(S) ==
  CHOOSE q \in [1 .. Cardinality(S) -> S] : \A m, n \in DOMAIN q : m < n => q[m] < q[n]

(* The members of a list at some positions, in their order.                *)
Picked(list, positions) ==
  LET at == Ascending(positions) IN [n \in DOMAIN at |-> list[at[n]]]

FirstFew(S) == SubSeq(Ascending(S), 1, Lesser(NUM_TRADERS, Cardinality(S)))

(* The first of our accounts that are not LPs.                             *)
Found == FirstFew({i \in Indices : IsOurTrader(i)})

DepositBelow(threshold, indices) ==
  LET low == Picked(indices, {n \in DOMAIN indices : slab[indices[n]].capital < threshold})
  IN  [n \in DOMAIN low |-> Deposit(low[n], DEPOSIT)]

(* topUpTradersIfNeeded: less than a quarter of a deposit.                 *)
TopUps == DepositBelow(DEPOSIT \div 4, traders)

(* Mutant: everybody is refunded, whatever the bank run left them.         *)
RefundsForAll == DepositBelow(MaxCapital + 1, traders)

(* refundAllTraders: less than half of one.                                *)
Refunds == DepositBelow(DEPOSIT \div 2, traders)

(* simulateBankRun: all capital of everybody who has some, winners first.  *)
(* Who won is up to the market.                                            *)
Withdrawals ==
  LET rich == {i \in ToSet(traders) : slab[i].capital > 0}
  IN  {[n \in DOMAIN order |-> Withdraw(order[n], slab[order[n]].capital)] :
         order \in SetToSeqs(rich)}

Kept == Picked(traders, {n \in DOMAIN traders : IsOurTrader(traders[n])})

(* Mutant: an account that is tracked already is found once more.          *)
RevalidatedTwice ==
  LET others == Ascending({i \in Indices : IsOurTrader(i)})
  IN  Kept \o SubSeq(others, 1, Lesser(SaturatingSub(NUM_TRADERS, Len(Kept)), Len(others)))

(* revalidateTraderIndices: what is no account of ours any more goes, and  *)
(* others of ours take its place.                                          *)
Revalidated ==
  LET others == Ascending({i \in Indices : IsOurTrader(i)} \ ToSet(Kept))
  IN  Kept \o SubSeq(others, 1, Lesser(SaturatingSub(NUM_TRADERS, Len(Kept)), Len(others)))

(* findAllLps, with the LP PDA of the slot.                                *)
Lps == {[index |-> i, lp_pda |-> i, context |-> Context[i], capital |-> slab[i].capital] :
          i \in {j \in Indices : slab[j].kind = "lp"}}

Routes == UNION {findBestLp(Lps, ORACLE, TRADE_SIZE, isLong) : isLong \in BOOLEAN}

-----------------------------------------------------------------------------
(***************************************************************************)
(* initTraders.                                                            *)
(***************************************************************************)
(* With enough accounts it is done, and deposits nothing.                  *)
ReadTraders ==
  /\ pc = "init"
  /\ LET missing == SaturatingSub(NUM_TRADERS, Cardinality({i \in Indices : IsOurTrader(i)}))
     IN  IF missing = 0
         THEN pc' = "loop" /\ looping' = TRUE /\ traders' = Found /\ UNCHANGED plan
         ELSE /\ pc' = "create" /\ plan' = [n \in 1 .. missing |-> InitUser]
              /\ UNCHANGED <<looping, traders>>
  /\ UNCHANGED <<slab, wire, count, events, late>>

RereadTraders ==
  /\ pc = "create" /\ plan = <<>>
  /\ traders' = Found
  /\ plan' = DepositBelow(DEPOSIT \div 2, Found)
  /\ pc' = "fund"
  /\ UNCHANGED <<slab, wire, count, looping, events, late>>

Funded ==
  /\ pc = "fund" /\ plan = <<>>
  /\ pc' = "loop" /\ looping' = TRUE
  /\ UNCHANGED <<slab, wire, traders, count, plan, events, late>>

-----------------------------------------------------------------------------
(***************************************************************************)
(* tradeLoop.                                                              *)
(***************************************************************************)
Next1(n) == IF n = REVALIDATE_INTERVAL THEN 1 ELSE n + 1

(* Mutant: the test that keeps realizePnL from ever running.               *)
RevalidationDueAlone ==
  count > 0 /\ count % REVALIDATE_INTERVAL = 0 /\ count % BANK_RUN_INTERVAL # 0

RevalidationDue == count > 0 /\ count % REVALIDATE_INTERVAL = 0
BankRunDue      == count > 0 /\ count % BANK_RUN_INTERVAL = 0

Revalidate ==
  /\ pc = "loop" /\ RevalidationDue
  /\ traders' = Revalidated /\ pc' = "valid"
  /\ UNCHANGED <<slab, wire, count, looping, plan, events, late>>

Ready == pc = "valid" \/ (pc = "loop" /\ ~RevalidationDue)

TopUp ==
  /\ Ready /\ BankRunDue
  /\ plan' = TopUps /\ pc' = "topup"
  /\ UNCHANGED <<slab, wire, traders, count, looping, events, late>>

BankRun ==
  /\ pc = "topup" /\ plan = <<>>
  /\ plan' \in Withdrawals /\ pc' = "bankrun"
  /\ UNCHANGED <<slab, wire, traders, count, looping, events, late>>

Refund ==
  /\ pc = "bankrun" /\ plan = <<>>
  /\ plan' = Refunds /\ pc' = "refund"
  /\ UNCHANGED <<slab, wire, traders, count, looping, events, late>>

(* The count moves on, or the same bank run would be due again.            *)
Refunded ==
  /\ pc = "refund" /\ plan = <<>>
  /\ pc' = "loop" /\ count' = Next1(count)
  /\ UNCHANGED <<slab, wire, traders, looping, plan, events, late>>

Reinitialize ==
  /\ Ready /\ ~BankRunDue /\ traders = <<>>
  /\ pc' = "init"
  /\ UNCHANGED <<slab, wire, traders, count, looping, plan, events, late>>

(* A random trader, the best LP; without an LP nothing is counted.         *)
Choose(i) ==
  /\ Ready /\ ~BankRunDue /\ i \in ToSet(traders)
  /\ IF Routes = {} THEN pc' = "loop" /\ UNCHANGED <<count, plan>>
     ELSE \E lp \in Routes :
            /\ pc' = "trade" /\ plan' = <<Trade(i, lp)>> /\ count' = Next1(count)
  /\ UNCHANGED <<slab, wire, traders, looping, events, late>>

-----------------------------------------------------------------------------
(***************************************************************************)
(* One transaction of a pass.                                              *)
(***************************************************************************)
Sending == plan # <<>>

Confirmed ==
  /\ Sending /\ Executes(Head(plan))
  /\ plan' = Tail(plan)
  /\ pc' = CASE pc = "trade" -> "loop" [] pc = "half" -> "bankrun" [] OTHER -> pc
  /\ UNCHANGED <<wire, traders, count, looping, events, late>>

(* The catch of the loop counts the trade that failed once more; without a *)
(* loop around it, main rejects and the process ends.                      *)
Thrown == IF looping THEN pc' = "loop" /\ count' = Next1(count) /\ plan' = <<>> /\ UNCHANGED <<traders, looping>>
          ELSE pc' = "off" /\ traders' = <<>> /\ plan' = <<>> /\ UNCHANGED <<count, looping>>

(* A bank run tries half of it; a top-up or refund is left out.            *)
GivesUp ==
  LET x == Head(plan)  half == x.amount \div 2
  IN  CASE pc \in {"create", "fund", "trade"} -> Thrown
        [] pc = "bankrun" /\ half > 0 ->
             /\ pc' = "half" /\ plan' = <<Withdraw(x.idx, half)>> \o Tail(plan)
             /\ UNCHANGED <<traders, count, looping>>
        [] OTHER ->
             /\ plan' = Tail(plan) /\ pc' = IF pc = "half" THEN "bankrun" ELSE pc
             /\ UNCHANGED <<traders, count, looping>>

(* Refused, by the program or before it was sent.                          *)
Fails == Sending /\ GivesUp /\ UNCHANGED <<slab, wire, events, late>>

(* Faults: an RPC node that does not answer, or a kill.                    *)
Faulty == faults < MaxFaults /\ faults' = faults + 1

(* The slab or a context cannot be read.                                   *)
ReadFails ==
  /\ Faulty /\ plan = <<>> /\ pc # "off"
  /\ Thrown
  /\ UNCHANGED <<slab, wire, changes, late>>

(* What may still be executed when nobody waits for it.  A trade would not *)
(* change the slab; a withdrawal that comes late leaves no more than the   *)
(* half that is tried next would.                                          *)
Sent == {x \in ToSet(plan) : x = Head(plan) /\ x.kind \in DOMAIN late}

(* Not confirmed in time.                                                  *)
TimesOut ==
  /\ Faulty /\ Sending
  /\ wire' = wire \cup Sent /\ GivesUp
  /\ UNCHANGED <<slab, changes, late>>

Land(x) ==
  /\ x \in wire /\ Executes(x)
  /\ wire' = wire \ {x}
  /\ late' = [late EXCEPT ![x.kind] = @ + 1]
  /\ UNCHANGED <<bot, events>>

-----------------------------------------------------------------------------
(***************************************************************************)
(* What happens to the bot and under it.                                   *)
(***************************************************************************)
Killed ==
  /\ Faulty /\ pc # "off"
  /\ pc' = "off" /\ traders' = <<>> /\ plan' = <<>> /\ looping' = FALSE /\ count' = 0
  /\ wire' \in {wire, wire \cup Sent}
  /\ UNCHANGED <<slab, changes, late>>

Started ==
  /\ pc = "off"
  /\ pc' = "init" /\ count' = 0 /\ looping' = FALSE
  /\ UNCHANGED <<slab, wire, traders, plan, events, late>>

(* Accounts are closed by force or by hand.  A stranger in the slot would  *)
(* be to the bot what nobody in it is; an LP of ours is told apart like    *)
(* the one in the first slot.                                              *)
Closed(S) ==
  /\ changes < MaxChanges /\ changes' = changes + 1
  /\ \A i \in S : Used(i)
  /\ slab' = [i \in Indices |-> IF i \in S THEN NoAccount ELSE slab[i]]
  /\ UNCHANGED <<wire, bot, faults, late>>

(* The market has its LP, at the slot setup gave it; an earlier bot may    *)
(* have left its accounts.                                                 *)
Init ==
  /\ \E old \in {{}, 2 .. NUM_TRADERS + 1} :
       slab = [i \in Indices |-> CASE i = 1 -> Account("us", "lp", DEPOSIT)
                                   [] i \in old -> Account("us", "user", 1)
                                   [] OTHER -> NoAccount]
  /\ wire = {} /\ pc = "off" /\ traders = <<>> /\ count = 0 /\ looping = FALSE
  /\ plan = <<>> /\ faults = 0 /\ changes = 0
  /\ late = [k \in {"InitUser", "Deposit"} |-> 0]

Bot ==
  \/ ReadTraders \/ RereadTraders \/ Funded
  \/ Revalidate \/ TopUp \/ BankRun \/ Refund \/ Refunded \/ Reinitialize
  \/ \E i \in Indices : Choose(i)
  \/ Confirmed \/ Fails

Next ==
  \/ Bot \/ ReadFails \/ TimesOut \/ Killed \/ Started
  \/ \E x \in wire : Land(x)
  \/ \E S \in SUBSET Indices \ {{}} : Closed(S)

(* The bot goes on, its RPC node answers after a while, and luck: just     *)
(* before a revalidation is due a trader of ours is picked time and again, *)
(* and such a trade succeeds time and again.                               *)
BeforeDue    == Next1(count) = REVALIDATE_INTERVAL
LuckyPick    == BeforeDue /\ \E i \in Indices : IsOurTrader(i) /\ slab[i].capital > 0 /\ Choose(i)
LuckyTrade   == pc = "trade" /\ count = REVALIDATE_INTERVAL /\ Confirmed

Spec ==
  /\ Init /\ [][Next]_vars
  /\ WF_vars(Bot) /\ SF_vars(LuckyPick) /\ SF_vars(LuckyTrade)

-----------------------------------------------------------------------------
(***************************************************************************)
(* Properties.                                                             *)
(***************************************************************************)
Txs == {InitUser} \cup [kind : {"Deposit", "Withdraw", "Trade"}, idx : Indices,
                        amount : 0 .. MaxCapital, lp : 0 .. MaxAccounts]

(* An LP that the router would take.                                      *)
Routable == \E i \in Indices : slab[i].kind = "lp" /\ slab[i].capital > 0

(* However accounts come and go and indices are looked up again, the bot   *)
(* never counts one account twice, nor more than it wants.                 *)
TypeOK ==
  /\ slab \in [Indices -> [owner : {"nobody", "us"}, kind : {"none", "user", "lp"},
                           capital : 0 .. MaxCapital]]
  /\ pc \in {"off", "init", "create", "fund", "loop", "valid", "topup", "bankrun", "half",
             "refund", "trade"}
  /\ traders \in BoundedSeq(Indices, NUM_TRADERS) /\ IsInjective(traders)
  /\ count \in 0 .. REVALIDATE_INTERVAL /\ looping \in BOOLEAN
  /\ ToSet(plan) \cup wire \subseteq Txs
  /\ faults \in 0 .. MaxFaults /\ changes \in 0 .. MaxChanges

(* Restarts, bank runs, top-ups and refunds, each from a copy of the slab, *)
(* never open an account too many and never fund a shortage twice: what    *)
(* exceeds one account per trader, or one deposit on top of less than half *)
(* of one, was executed after the bot had given up on it.                  *)
FundedOnce ==
  /\ Cardinality({i \in Indices : IsOurTrader(i)}) <= NUM_TRADERS + late["InitUser"]
  /\ \A i \in Indices : IsOurTrader(i) =>
       slab[i].capital < DEPOSIT + DEPOSIT \div 2 + DEPOSIT * late["Deposit"]

(* An index whose account is no longer ours is dropped in the end, though  *)
(* every trade of it fails and a failing trade counts twice, so that the   *)
(* count jumps over the multiples at which indices are checked; as long as *)
(* there is an LP to trade with.                                           *)
StaleIsReplaced == (\E i \in ToSet(traders) : ~IsOurTrader(i)) ~>
                   (ToSet(traders) \subseteq {i \in Indices : IsOurTrader(i)} \/ ~Routable)
=============================================================================
