------------------------------ MODULE LiveScripts ------------------------------
(***************************************************************************)
(* The scripts that exercise a live market.  test-comprehensive and        *)
(* test-happy-path run their tests on the market of devnet-market.json,    *)
(* each test on an account of its own; stress-bankrun and live-verify      *)
(* deploy a market, empty it and close it.  A script is a sequence of      *)
(* tests and a test a sequence of steps: an instruction, a read of the     *)
(* slab, a wait or a jump, with what happens to an exception the step      *)
(* throws.  An instruction can be refused, fail on its way, or be executed *)
(* with its answer lost; the market is Percolator's (external), and other  *)
(* wallets join it.  Amounts count units of capital, of position and of    *)
(* price; the numbers the scripts compare with each other are left out.    *)
(***************************************************************************)
EXTENDS Integers, FiniteSetsExt, SequencesExt

CONSTANTS
  Scripts,     (* the scripts that are run                                 *)
  PAYER,       (* the wallet that runs them                                *)
  STRANGER,    (* any other wallet                                         *)
  MaxSlot,     (* the last slot of a slab                                  *)
  BankUsers,   (* bound: users of stress-bankrun, four in the script       *)
  MaxFaults,   (* bound: instructions and reads that fail, lose their      *)
               (* answer or are refused for what the amounts leave out     *)
  MaxJoins     (* bound: accounts other wallets open                       *)

OnDeployed == {"test-comprehensive", "test-happy-path"}
OnOwnSlab  == {"stress-bankrun", "live-verify"}

ASSUME LiveAssumption ==
  /\ PAYER # STRANGER /\ "none" \notin {PAYER, STRANGER} /\ Scripts \subseteq OnDeployed \cup OnOwnSlab
  /\ {MaxSlot, BankUsers, MaxFaults, MaxJoins} \subseteq Nat /\ BankUsers < MaxSlot

Slots == 0 .. MaxSlot
LP    == 0          (* LP_IDX, and the index a drill expects of its LP     *)
OWN   == -1         (* the account of the test                             *)

VARIABLES
  script,   (* the script that runs                                        *)
  market,   (* the slab it works on                                        *)
  test,     (* the test that runs, and ...                                 *)
  pc,       (* ... its next step                                           *)
  idx,      (* its account, OWN before there is one                        *)
  seen,     (* the accounts as they were last read                         *)
  todo,     (* the slots the loop it is in has still to visit              *)
  status,   (* "running", "ended" or "died": an exception left main        *)
  faults,   (* faults so far                                               *)
  joins,    (* strangers who joined so far                                 *)
  opened,   (* history: slot -> the test that opened the account in it     *)
  hurt,     (* history: tests that met a fault, a refusal they have no     *)
            (* answer to, or a stranger's account                          *)
  said      (* history: slots the script reported closed                   *)

where == <<test, pc>>
world == <<faults, joins, opened, hurt, said>>
vars  == <<script, market, where, idx, seen, todo, status, world>>

Nobody    == 0      (* no test, or the test of an earlier run              *)
NoAccount == [owner |-> "none", lp |-> FALSE, capital |-> 0, pos |-> 0, at |-> 0, pnl |-> "none"]

-----------------------------------------------------------------------------
(***************************************************************************)
(* The programs.  catch is how far an exception jumps: 0 leaves main, 1 is *)
(* an empty handler, RETURN one that only reports and returns.  A jump     *)
(* past the last step ends the test.                                       *)
(***************************************************************************)
RETURN == 99

Step(op, slot, n, catch) == [op |-> op, slot |-> slot, n |-> n, catch |-> catch]
Do(op, slot, n)    == Step(op, slot, n, 0)
Try(op, slot, n)   == Step(op, slot, n, 1)
Go(far)            == Step("Go", OWN, 0, far)
If(cond, far)      == Step(cond, OWN, 0, far)
Read               == Do("Read", OWN, 0)
(* The script reads its account and uses a field of it.                    *)
Look               == Do("Look", OWN, 0)
Wait               == Do("Wait", OWN, 0)

TryElse(step, done, refused) ==
  <<[step EXCEPT !.catch = Len(done) + 2]>> \o done \o <<Go(Len(refused) + 1)>> \o refused

OrReturn(step) == [step EXCEPT !.catch = RETURN]

Push(p) == Do("PushOraclePrice", OWN, p)
crank   == Do("KeeperCrank", OWN, 0)
(* crankN: its cranks as one, that may fail.                               *)
crankN  == Try("KeeperCrank", OWN, 0)
Moved(p) == <<Push(p), crankN>>
Fresh(p) == <<Push(p), crank>>

trade(d)    == Do("TradeCpi", OWN, d)
withdraw(n) == Do("WithdrawCollateral", OWN, n)
(* All the capital that was read; most of it.                              *)
WithdrawSeen == Do("WithdrawSeen", OWN, 0)
WithdrawMost == Do("WithdrawSeen", OWN, 1)
close       == Do("CloseAccount", OWN, 0)
Caught(step) == [step EXCEPT !.catch = 1]

DEPOSIT == 2
SIZE    == 1

(* The used slots before and after: the account is the first that is new.  *)
initUser == <<Read, Do("InitUser", OWN, 0), Do("Found", OWN, 0)>>
Enter    == initUser \o <<Do("DepositCollateral", OWN, DEPOSIT)>>

(* cleanup(idx, size): each of its three blocks has its own handler.       *)
CleanupOf(unwind) ==
  unwind \o <<Wait, [Read EXCEPT !.catch = 2], Caught(WithdrawSeen), Caught(close)>>
Cleanup(size) == CleanupOf(IF size = 0 THEN <<>> ELSE <<Caught(trade(-size))>>)
(* The size is the position that was read.                                 *)
CleanupSeen   == CleanupOf(<<Try("Unwind", OWN, 0)>>)

-----------------------------------------------------------------------------
(* test-comprehensive.                                                     *)
testFullLifecycle ==
  Enter \o <<Look, If("NotFunded", RETURN)>> \o Fresh(0)
  \o <<trade(SIZE), Look, If("NotFilled", RETURN)>> \o Moved(1)
  \o <<Read, trade(-SIZE), Look, Wait, Caught(withdraw(0)), Look, WithdrawSeen, close, Read>>

testRoundTripFees ==
  Enter \o Fresh(0) \o <<Read, trade(SIZE), Look, trade(-SIZE), Look>> \o Cleanup(0)

testPnlAccounting ==
  Enter \o Fresh(0) \o <<trade(SIZE), Look>> \o Moved(1)
  \o <<Look, trade(-SIZE), Look, Wait, Caught(withdraw(0)), Read>> \o Cleanup(0)

testWarmupEnforcement ==
  Enter \o Fresh(0) \o <<trade(SIZE)>> \o Moved(1) \o <<trade(-SIZE), Look, If("Gain", 6)>>
  \o Cleanup(0) \o <<Go(RETURN)>>
  \o TryElse(close, <<Go(RETURN)>>, <<Wait>>)
  \o TryElse(close, <<>>, <<Caught(withdraw(0)), Caught(close)>>) \o <<Read>>

testLiquidation ==
  Enter \o Fresh(0) \o TryElse(trade(3), <<>>, Cleanup(0) \o <<Go(RETURN)>>)
  \o <<Look>> \o Moved(-2) \o <<Read, If("Gone", RETURN)>> \o Moved(0) \o CleanupSeen

testOverLeverageRejection ==
  Enter \o Fresh(0) \o TryElse(trade(5), Cleanup(5), Cleanup(0))

testWithdrawalMargin ==
  Enter \o Fresh(0) \o <<trade(SIZE), Look, Caught(withdraw(DEPOSIT)), Caught(withdraw(0)), Read>>
  \o Cleanup(SIZE)

testInsuranceFund ==
  LET cycle == <<trade(SIZE), trade(-SIZE)>>
  IN  <<Read>> \o Enter \o Fresh(0) \o cycle \o cycle \o cycle \o <<Read>> \o Cleanup(0)

testLpEquity ==
  <<Read, If("NoLp", RETURN)>> \o Enter \o Fresh(0)
  \o <<trade(SIZE), Look, trade(-SIZE), Read>> \o Cleanup(0)

(* Mutant: what is cleaned up is the position before the flip.             *)
testPositionFlipStale ==
  Enter \o Fresh(0) \o <<trade(SIZE), Look, trade(-2 * SIZE), Look>> \o Cleanup(SIZE)

testPositionFlip ==
  Enter \o Fresh(0) \o <<trade(SIZE), Look, trade(-2 * SIZE), Look>> \o CleanupSeen

(* The first trade that is refused ends the cycles.                        *)
testSequentialTrades ==
  LET cycle(left) == <<[trade(SIZE) EXCEPT !.catch = 3 * left], [trade(-SIZE) EXCEPT !.catch = 3 * left - 1],
                       [Read EXCEPT !.catch = 3 * left - 2]>>
  IN  Enter \o Fresh(0) \o <<Look>>
      \o cycle(5) \o cycle(4) \o cycle(3) \o cycle(2) \o cycle(1) \o <<Look>> \o Cleanup(0)

(* The first entry: what main does before the tests, with testVaultBalance.*)
comprehensive ==
  << <<Read, If("LpFunded", 2), Do("DepositCollateral", LP, 1)>> \o Moved(0) \o <<Read>>,
     testFullLifecycle, testRoundTripFees, testPnlAccounting, testWarmupEnforcement,
     testLiquidation, testOverLeverageRejection, testWithdrawalMargin, testInsuranceFund,
     testLpEquity, testPositionFlip, testSequentialTrades >>

-----------------------------------------------------------------------------
(* test-happy-path.                                                        *)
CloseAt(d, p) ==
  TryElse(trade(-d), <<>>, Moved(0) \o Moved(p) \o <<trade(-d)>>) \o <<Read, If("Open", RETURN)>>

WithdrawAll ==
  TryElse(WithdrawSeen, <<>>, <<OrReturn(WithdrawMost)>>)

Settle == <<Wait, Caught(withdraw(0)), crankN, Read>>

scenarioWinner ==
  Enter \o Fresh(0) \o <<trade(SIZE), Read>> \o Moved(1) \o <<Read>> \o CloseAt(SIZE, 1)
  \o Settle \o WithdrawAll \o <<Caught(close)>>

scenarioLoser ==
  Enter \o Fresh(0) \o <<trade(SIZE), Read>> \o Moved(-1)
  \o <<Read, trade(-SIZE), Read, If("Open", RETURN)>> \o WithdrawAll \o <<Caught(close)>>

scenarioRoundTrip ==
  Enter \o Fresh(0) \o <<trade(SIZE), Read, trade(-SIZE), Read>>
  \o <<OrReturn(WithdrawSeen), Caught(close)>>

MaxLeverage(d, p) ==
  Enter \o Fresh(0) \o <<Read, OrReturn(trade(d)), Read>> \o Moved(p)
  \o CloseAt(d, p) \o Settle \o <<Caught(WithdrawSeen), Caught(close)>>

scenarioMaxLeverageLong  == MaxLeverage(4, 1)
scenarioMaxLeverageShort == MaxLeverage(-4, -1)

scenarioOverLeverageRejection ==
  Enter \o Fresh(0) \o TryElse(trade(5), <<Caught(trade(-5))>>, <<>>)
  \o TryElse(trade(-5), <<Caught(trade(5))>>, <<>>)
  \o <<Caught(withdraw(DEPOSIT)), Caught(close)>>

(* Every flat account of a user that was read, whoever opened it.          *)
CloseStale ==
  <<Do("ReadFlat", OWN, 0), Step("Take", OWN, 0, 4),
    [WithdrawSeen EXCEPT !.catch = -1], [close EXCEPT !.catch = -2], Go(-3)>>

happy_path ==
  << <<Try("SetOracleAuthority", OWN, 0), Read, Try("TopUpInsurance", OWN, 0)>> \o Moved(0)
     \o CloseStale \o <<Try("DepositCollateral", LP, 1)>> \o Moved(0) \o <<Read>>,
     scenarioRoundTrip, Moved(0), scenarioWinner, Moved(0), scenarioLoser, Moved(0),
     scenarioMaxLeverageLong, Moved(0), scenarioMaxLeverageShort, Moved(0),
     scenarioOverLeverageRejection, Moved(0) \o <<Read>> >>

-----------------------------------------------------------------------------
(* stress-bankrun: one test.  Users are slots 1 .. BankUsers.              *)
Users == 1 .. BankUsers

ForUsers(steps) ==
  <<Do("Each", OWN, 0), Step("Take", OWN, 0, Len(steps) + 2)>> \o steps \o <<Go(-Len(steps) - 1)>>

OwnMarket == <<Do("CreateAccount", OWN, 0), Do("InitMarket", OWN, 0), Do("SetOracleAuthority", OWN, 0), Push(0)>>

BankSetup ==
  OwnMarket \o <<Do("InitLP", LP, 0)>> \o ForUsers(<<Do("InitUser", OWN, 0)>>)
  \o <<Do("DepositCollateral", LP, 4)>> \o ForUsers(<<Do("DepositCollateral", OWN, 1)>>)
  \o <<Do("TopUpInsurance", OWN, 0), Read>> \o Fresh(0)

OpenAll == ForUsers(Fresh(0) \o <<trade(2)>>) \o <<Read>>

(* Ten rounds in the script; the trade of one unit moves the mark.         *)
Crash ==
  LET round == <<crank, Try("TradeCpi", 1, 0)>>
  IN  <<Push(-2)>> \o round \o round \o <<Read>>

Liquidate ==
  ForUsers(<<[Read EXCEPT !.catch = 3], If("Flat", 2), Try("LiquidateAtOracle", OWN, 0)>>) \o <<Read>>

(* The account is closed by its field idx, which encodeCloseAccount does   *)
(* not have: an undefined userIdx is encoded as zero.                      *)
CLOSE_IDX == 0

BankRun ==
  <<Push(0), crank, Do("ReadUsed", OWN, 0),
    Step("Take", OWN, 0, 8), If("IsLp", -1),
    [Read EXCEPT !.catch = -2], Step("Unwind", OWN, 0, -3), [crank EXCEPT !.catch = -4],
    Step("CloseAccount", CLOSE_IDX, 0, -5), Do("Say", OWN, 0), Go(-7), Read>>

ForceCloseAll(catch) ==
  <<Do("ReadUsed", OWN, 0), Step("Take", OWN, 0, 3), Step("AdminForceCloseAccount", OWN, 0, catch), Go(-2)>>

(* Mutant: the accounts that are left are not closed.                      *)
ShutDownOpen ==
  <<[Push(0) EXCEPT !.catch = RETURN], Step("ResolveMarket", OWN, 0, RETURN), Caught(crank)>>
  \o <<Try("WithdrawInsurance", OWN, 0), Read, Try("CloseSlab", OWN, 0)>>

(* An exception before the market is known to be resolved ends the script. *)
ShutDown ==
  <<[Push(0) EXCEPT !.catch = RETURN], Step("ResolveMarket", OWN, 0, RETURN), Caught(crank)>>
  \o ForceCloseAll(-1) \o <<Try("WithdrawInsurance", OWN, 0), Read>>
  \o ForceCloseAll(-1) \o <<Try("WithdrawInsurance", OWN, 0), Read, Try("CloseSlab", OWN, 0)>>

bankrun == << BankSetup \o OpenAll \o Crash \o Liquidate \o BankRun \o ShutDown >>

(* live-verify: one test.  The user is slot 1.                             *)
VerifyMarket   == OwnMarket \o <<crank, Read>>
VerifyAccounts == <<Do("InitLP", LP, 0), Do("InitUser", OWN, 0), Read>>
VerifyFunds ==
  <<Do("DepositCollateral", LP, 2), Do("DepositCollateral", 1, 2), Read, Do("TopUpInsurance", OWN, 0), Read>>
VerifyTrade    == <<crank, Read, Do("TradeCpi", 1, SIZE), Read>>
VerifyWithdraw == Fresh(0) \o <<Read, Do("WithdrawCollateral", 1, 0), Read>>

(* What is unwound was read before the mark and the crank.  A close that   *)
(* is refused ends main, with exit code zero and without the clean-up; the *)
(* index has the same slip.                                                *)
VerifyBankRun ==
  <<Read, Do("Pick", 1, 0)>> \o Fresh(0) \o <<Step("Unwind", OWN, 0, RETURN), Read, crank,
    Step("CloseAccount", CLOSE_IDX, 0, RETURN), Do("Say", OWN, 0), Read>>

VerifyShutDown ==
  <<Push(0), Do("ResolveMarket", OWN, 0), crank>> \o ForceCloseAll(0)
  \o <<Read, Do("WithdrawInsurance", OWN, 0), Read, Do("CloseSlab", OWN, 0)>>

verify ==
  << VerifyMarket \o VerifyAccounts \o VerifyFunds \o VerifyTrade \o VerifyWithdraw \o VerifyBankRun
     \o VerifyShutDown >>

Program ==
  [s \in OnDeployed \cup OnOwnSlab |->
     CASE s = "test-comprehensive" -> comprehensive
       [] s = "test-happy-path"    -> happy_path
       [] s = "stress-bankrun"     -> bankrun
       [] s = "live-verify"        -> verify]

-----------------------------------------------------------------------------
(***************************************************************************)
(* Percolator (external): the markets an instruction may lead to when it   *)
(* is accepted, none when it cannot be.  Percolator refuses more: for the  *)
(* margin of the LP, fees and spreads, the warm-up of what a fill earned   *)
(* or the price envelope, none of which the amounts show.  Such a refusal  *)
(* is possible whatever the market, see Refuse and Fail.                   *)
(***************************************************************************)
LEVERAGE == 2
Floor(n) == IF n < 0 THEN 0 ELSE n
Abs(n)   == IF n < 0 THEN -n ELSE n

Used(m)  == {i \in Slots : m.account[i] # NoAccount}
Mine(m, i) == m.account[i].owner = PAYER

(* A gain has to warm up before it is capital.                             *)
Settled(a, p) ==
  LET gain == a.pos * (p - a.at)
  IN  [a EXCEPT !.at = p, !.capital = IF gain < 0 THEN Floor(@ + gain) ELSE @,
                !.pnl = IF gain > 0 THEN "warming" ELSE @]

Touched(a, p) ==
  LET s == Settled(a, p)
  IN  IF s.pnl = "ripe" THEN [s EXCEPT !.pnl = "none", !.capital = @ + 1] ELSE s

Covered(a) == Abs(a.pos) <= LEVERAGE * a.capital

Freed(m, i) == [m EXCEPT !.account[i] = NoAccount, !.free = <<i>> \o @]

(* Closes the position of i against the LP.                                *)
Closed(m, i) ==
  [m EXCEPT !.account[i].pos = 0, !.account[LP].pos = @ + m.account[i].pos]

Bankrupt(m) == {i \in Used(m) \ {LP} : m.account[i].pos # 0 /\ m.account[i].capital = 0}
Empty(m)    == {i \in Used(m) \ {LP} : m.account[i].capital = 0 /\ m.account[i].pos = 0 /\ m.account[i].pnl = "none"}

(* A crank settles every account, may liquidate one that is bankrupt and   *)
(* may reclaim one that is empty.                                          *)
Cranked(m) ==
  LET s == [m EXCEPT !.account = [i \in Slots |-> IF i \in Used(m) THEN Settled(m.account[i], m.price) ELSE NoAccount]]
  IN  {s} \cup {Closed(s, i) : i \in Bankrupt(s)} \cup {Freed(s, i) : i \in Empty(s)}

Opened(m, owner, lp) ==
  [m EXCEPT !.account[Head(m.free)] = [NoAccount EXCEPT !.owner = owner, !.lp = lp, !.at = m.price],
            !.free = Tail(@)]

Traded(m, i, d) ==
  LET user == Settled(m.account[i], m.price)
      lp   == Settled(m.account[LP], m.price)
  IN  [m EXCEPT !.account[i] = [user EXCEPT !.pos = @ + d], !.account[LP] = [lp EXCEPT !.pos = @ - d]]

When(c, outcomes) == IF c THEN outcomes ELSE {}

Outcomes(m, op, i, n) ==
  LET live == m.stage = "live"
      open == live \/ m.stage = "resolved"
      user == live /\ Mine(m, i)
      t    == Touched(m.account[i], m.price)
  IN  CASE op = "CreateAccount"       -> When(m.stage = "none", {[m EXCEPT !.stage = "blank"]})
        [] op = "InitMarket"          -> When(m.stage = "blank", {[m EXCEPT !.stage = "live", !.mark = TRUE]})
        [] op = "SetOracleAuthority"  -> When(live /\ m.mark, {m})
        [] op = "PushOraclePrice"     -> When(live /\ m.mark, {[m EXCEPT !.price = n]})
        [] op = "KeeperCrank"         -> IF live THEN Cranked(m) ELSE When(open, {m})
        [] op \in {"InitUser", "InitLP"} -> When(live /\ m.free # <<>>, {Opened(m, PAYER, op = "InitLP")})
        [] op = "DepositCollateral"   -> When(user, {[m EXCEPT !.account[i].capital = @ + n]})
        [] op = "TopUpInsurance"      -> When(live, {[m EXCEPT !.fund = TRUE]})
        [] op = "TradeCpi"            ->
             When(user /\ m.account[LP].lp /\ LET after == Traded(m, i, n).account[i]
                                              IN  Abs(after.pos) > Abs(m.account[i].pos) => Covered(after),
                  {Traded(m, i, n)})
        [] op = "WithdrawCollateral"  ->
             When(user /\ t.capital >= n /\ Covered([t EXCEPT !.capital = @ - n]),
                  {[m EXCEPT !.account[i] = [t EXCEPT !.capital = @ - n]]})
        [] op = "CloseAccount"        ->
             When(open /\ Mine(m, i) /\ t.pos = 0 /\ t.pnl = "none", {Freed(m, i)})
        [] op = "LiquidateAtOracle"   -> When(live /\ i \in Bankrupt(m), {Closed(m, i)})
        [] op = "ResolveMarket"       -> When(live /\ m.mark, {[m EXCEPT !.stage = "resolved"]})
        (* The payer's token account is passed for every owner.            *)
        [] op = "AdminForceCloseAccount" -> When(m.stage = "resolved" /\ Mine(m, i), {Freed(m, i)})
        [] op = "WithdrawInsurance"   ->
             When(m.stage = "resolved" /\ Used(m) = {}, {[m EXCEPT !.fund = FALSE]})
        [] op = "CloseSlab"           ->
             When(open /\ Used(m) = {} /\ ~m.fund, {[m EXCEPT !.stage = "closed"]})

Instructions ==
  {"CreateAccount", "InitMarket", "SetOracleAuthority", "PushOraclePrice", "KeeperCrank", "InitUser",
   "InitLP", "DepositCollateral", "TopUpInsurance", "TradeCpi", "WithdrawCollateral", "CloseAccount",
   "LiquidateAtOracle", "ResolveMarket", "AdminForceCloseAccount", "WithdrawInsurance", "CloseSlab"}

-----------------------------------------------------------------------------
(***************************************************************************)
(* One step of a script.                                                   *)
(***************************************************************************)
Body == Program[script][test]
Runs == status = "running" /\ pc <= Len(Body)

Slot(s) == IF s.slot = OWN THEN idx ELSE s.slot
Known   == seen[idx]

(* Steps whose instruction depends on what was read.                       *)
Sent(s) ==
  CASE s.op = "WithdrawSeen" -> [op |-> "WithdrawCollateral", n |-> Known.capital - s.n]
    [] s.op = "Unwind"       -> [op |-> "TradeCpi", n |-> -Known.pos]
    [] s.op \in Instructions -> [op |-> s.op, n |-> s.n]

Sends(s) ==
  \/ s.op \in Instructions
  \/ s.op = "WithdrawSeen" /\ Known.capital > 0
  \/ s.op = "Unwind" /\ Known.pos # 0

Results(s) == Outcomes(market, Sent(s).op, Slot(s), Sent(s).n)

(* An exception.                                                           *)
Throw(s) ==
  /\ pc' = IF s.catch = 0 THEN pc ELSE pc + s.catch
  /\ status' = IF s.catch = 0 THEN "died" ELSE status

Opens(s) == opened' = IF s.op = "InitUser" /\ market' # market
                      THEN [opened EXCEPT ![Head(market.free)] = test] ELSE opened

Execute ==
  LET s == Body[pc]
  IN  /\ Runs /\ Sends(s)
      /\ market' \in Results(s) /\ Opens(s)
      /\ pc' = pc + 1
      /\ UNCHANGED <<script, test, idx, seen, todo, status, faults, joins, hurt, said>>

(* The refusals a script gets over, whatever they are for: a withdrawal    *)
(* whose handler goes on, a trade that would have opened a position or a   *)
(* close with something to try instead; and in the crash of stress-bankrun *)
(* whatever is done to a user.                                             *)
Withstood(s) ==
  \/ /\ script \in OnDeployed /\ s.catch \in 1 .. RETURN - 1
     /\ \/ s.op \in {"WithdrawCollateral", "WithdrawSeen"}
        \/ s.op = "TradeCpi" /\ s.catch > 1 /\ market.account[idx].pos = 0
        \/ s.op = "CloseAccount" /\ s.catch > 1
  \/ /\ script = "stress-bankrun" /\ s.catch # 0
     /\ s.op \in {"TradeCpi", "Unwind", "LiquidateAtOracle", "CloseAccount"}

Refuse ==
  LET s == Body[pc]
  IN  /\ Runs /\ Sends(s) /\ (Results(s) = {} \/ Withstood(s))
      /\ Throw(s)
      /\ UNCHANGED <<script, market, test, idx, seen, todo, world>>

Reads == {"Read", "Look", "ReadUsed", "ReadFlat", "Found"}

(* sendAndConfirmTransaction throws: the transaction was lost, or refused  *)
(* for a reason the amounts do not show, or executed and only its answer   *)
(* lost.  Or a read throws.                                                *)
Fail ==
  LET s == Body[pc]
  IN  /\ Runs /\ faults < MaxFaults
      /\ \/ Sends(s) /\ market' \in {market} \cup Results(s)
         \/ s.op \in Reads /\ UNCHANGED market
      /\ Throw(s) /\ Opens(s)
      /\ faults' = faults + 1 /\ hurt' = hurt \cup {test}
      /\ UNCHANGED <<script, test, idx, seen, todo, joins, said>>

(* getState, and fetchSlab of the drills.                                  *)
GetState ==
  LET s == Body[pc]
  IN  /\ Runs /\ s.op \in Reads \ {"Found"}
      /\ seen' = market.account
      /\ todo' = CASE s.op = "ReadUsed" -> Used(market)
                   [] s.op = "ReadFlat" -> {i \in Used(market) : market.account[i].pos = 0 /\ ~market.account[i].lp}
                   [] OTHER -> todo
      /\ IF s.op = "Look" /\ idx \notin Used(market) THEN Throw(s) ELSE pc' = pc + 1 /\ UNCHANGED status
      /\ UNCHANGED <<script, market, test, idx, world>>

(* Mutant: the account is looked for behind the used ones.                 *)
FindByCount ==
  /\ Runs /\ Body[pc].op = "Found"
  /\ idx' = Cardinality(Used(market)) /\ pc' = pc + 1
  /\ UNCHANGED <<script, market, test, seen, todo, status, world>>

(* The second read of initUser.                                            *)
Find ==
  LET new == {i \in Used(market) : seen[i] = NoAccount}
  IN  /\ Runs /\ Body[pc].op = "Found"
      /\ idx' = IF new = {} THEN OWN ELSE Min(new)
      /\ pc' = IF new = {} THEN pc + RETURN ELSE pc + 1
      /\ hurt' = IF \E i \in new : ~Mine(market, i) THEN hurt \cup {test} ELSE hurt
      /\ UNCHANGED <<script, market, test, seen, todo, status, faults, joins, opened, said>>

Holds(s) ==
  CASE s.op = "Go"        -> TRUE
    [] s.op = "LpFunded"  -> seen[LP].capital > 0
    [] s.op = "NoLp"      -> \A i \in Slots : ~seen[i].lp
    [] s.op = "NotFunded" -> Known.capital # DEPOSIT
    [] s.op = "NotFilled" -> Known.pos # SIZE
    [] s.op = "Open"      -> Known.pos # 0
    [] s.op = "Gone"      -> Known = NoAccount
    [] s.op = "Gain"      -> Known.pnl # "none"
    [] s.op = "Flat"      -> Known.pos = 0
    [] s.op = "IsLp"      -> idx = LP

Tests == {"Go", "LpFunded", "NoLp", "NotFunded", "NotFilled", "Open", "Gone", "Gain", "Flat", "IsLp"}

Jump ==
  LET s == Body[pc]
  IN  /\ Runs /\ s.op \in Tests
      /\ pc' = IF Holds(s) THEN pc + s.catch ELSE pc + 1
      /\ UNCHANGED <<script, market, test, idx, seen, todo, status, world>>

(* A step that sends nothing because there is nothing to withdraw or to    *)
(* unwind.                                                                 *)
Skip ==
  LET s == Body[pc]
  IN  /\ Runs /\ s.op \in {"WithdrawSeen", "Unwind"} /\ ~Sends(s)
      /\ pc' = pc + 1
      /\ UNCHANGED <<script, market, test, idx, seen, todo, status, world>>

(* The loop over the users begins; the next slot of the list a loop goes   *)
(* through; or the slot the script names.                                  *)
Take ==
  LET s == Body[pc]
  IN  /\ Runs
      /\ \/ /\ s.op = "Each"
            /\ todo' = Users /\ pc' = pc + 1 /\ UNCHANGED idx
         \/ /\ s.op = "Take" /\ todo = {}
            /\ pc' = pc + s.catch /\ UNCHANGED <<idx, todo>>
         \/ /\ s.op = "Take" /\ todo # {}
            /\ idx' = Min(todo) /\ todo' = todo \ {Min(todo)} /\ pc' = pc + 1
         \/ /\ s.op = "Pick"
            /\ idx' = s.slot /\ todo' = {} /\ pc' = pc + 1
      /\ UNCHANGED <<script, market, test, seen, status, world>>

Say ==
  /\ Runs /\ Body[pc].op = "Say"
  /\ said' = said \cup {idx} /\ pc' = pc + 1
  /\ UNCHANGED <<script, market, test, idx, seen, todo, status, faults, joins, opened, hurt>>

Ripened(m, S) ==
  [m EXCEPT !.account = [i \in Slots |-> IF i \in S /\ @[i].pnl = "warming" THEN [@[i] EXCEPT !.pnl = "ripe"] ELSE @[i]]]

(* The delays that are as long as the warm-up.                             *)
WaitForWarmup ==
  /\ Runs /\ Body[pc].op = "Wait"
  /\ market' = Ripened(market, Slots) /\ pc' = pc + 1
  /\ UNCHANGED <<script, test, idx, seen, todo, status, world>>

(* Its locals go with a test.                                              *)
NextTest ==
  /\ status = "running" /\ pc > Len(Body)
  /\ IF test < Len(Program[script])
     THEN test' = test + 1 /\ pc' = 1 /\ UNCHANGED status
     ELSE status' = "ended" /\ UNCHANGED where
  /\ idx' = OWN /\ todo' = {} /\ seen' = [i \in Slots |-> NoAccount]
  /\ UNCHANGED <<script, market, world>>

(* Slots pass (external).                                                  *)
Mature(i) ==
  /\ status = "running" /\ market.account[i].pnl = "warming"
  /\ market' = Ripened(market, {i})
  /\ UNCHANGED <<script, where, idx, seen, todo, status, world>>

(* Another wallet opens an account and funds it (external).                *)
Join ==
  /\ status = "running" /\ joins < MaxJoins /\ market.stage = "live" /\ market.free # <<>>
  /\ market' = [Opened(market, STRANGER, FALSE) EXCEPT !.account[Head(market.free)].capital = 1]
  /\ joins' = joins + 1
  /\ UNCHANGED <<script, where, idx, seen, todo, status, faults, opened, hurt, said>>

-----------------------------------------------------------------------------
User(capital, pos) == [NoAccount EXCEPT !.owner = PAYER, !.capital = capital, !.pos = pos]

FreshSlab ==
  [stage |-> "none", mark |-> FALSE, price |-> 0, fund |-> FALSE,
   account |-> [i \in Slots |-> NoAccount], free |-> [i \in 1 .. MaxSlot + 1 |-> i - 1]]

(* The market of the manifest: its LP, and what earlier runs left behind.  *)
Deployed(mark, left) ==
  [FreshSlab EXCEPT
     !.stage = "live", !.mark = mark, !.fund = TRUE,
     !.account = [i \in Slots |-> CASE i = LP -> [User(4, -left.pos) EXCEPT !.lp = TRUE]
                                    [] i = MaxSlot -> left
                                    [] OTHER -> NoAccount],
     !.free = [i \in 1 .. MaxSlot - (IF left = NoAccount THEN 0 ELSE 1) |-> i]]

Init ==
  /\ script \in Scripts
  /\ market \in IF script \in OnOwnSlab THEN {FreshSlab}
                ELSE {Deployed(mark, left) : mark \in BOOLEAN, left \in {NoAccount, User(1, 0), User(1, 1)}}
  /\ test = 1 /\ pc = 1 /\ idx = OWN /\ todo = {} /\ seen = [i \in Slots |-> NoAccount]
  /\ status = "running" /\ faults = 0 /\ joins = 0
  /\ opened = [i \in Slots |-> Nobody] /\ hurt = {} /\ said = {}

Next ==
  \/ Execute \/ Refuse \/ Fail \/ GetState \/ Find \/ Jump \/ Skip \/ Take \/ Say
  \/ WaitForWarmup \/ NextTest \/ Join
  \/ \E i \in Slots : Mature(i)

Spec == Init /\ [][Next]_vars

(***************************************************************************)
(* Properties.                                                             *)
(***************************************************************************)
(* The sum of the positions.                                               *)
OpenInterest(account) ==
  LET sum[n \in 0 .. MaxSlot + 1] == IF n = 0 THEN 0 ELSE sum[n - 1] + account[n - 1].pos
  IN  sum[MaxSlot + 1]

(* Every variable has its type; the freelist holds the free slots, and the *)
(* positions of a live market add up to nothing.                           *)
TypeOK ==
  /\ script \in Scripts /\ status \in {"running", "ended", "died"}
  /\ market.stage \in {"none", "blank", "live", "resolved", "closed"}
  /\ market.account \in [Slots -> [owner : {"none", PAYER, STRANGER}, lp : BOOLEAN, capital : Nat,
                                   pos : Int, at : -2 .. 1, pnl : {"none", "warming", "ripe"}]]
  /\ ToSet(market.free) = Slots \ Used(market) /\ IsInjective(market.free)
  /\ market.stage = "live" => OpenInterest(market.account) = 0
  /\ test \in 1 .. Len(Program[script]) /\ pc \in 1 .. Len(Body) + RETURN
  /\ idx \in Slots \cup {OWN} /\ todo \subseteq Slots /\ said \subseteq Slots
  /\ faults \in 0 .. MaxFaults /\ joins \in 0 .. MaxJoins
  /\ opened \in [Slots -> Nat] /\ hurt \subseteq Nat

(* A test gives back the account it opened, although Percolator may refuse *)
(* its withdrawals, the trades it expects to be refused and its first      *)
(* closes: one that is left over belongs to the test that runs, or to one  *)
(* that met a fault, a stranger's account, or a refusal it has no answer   *)
(* to (an opening trade that ends its scenario, a closing trade, a last    *)
(* close).  And the flat accounts earlier runs left are closed before the  *)
(* first scenario of the happy path (cleanup, the closes that end each     *)
(* scenario, "Close stale flat accounts").                                 *)
Leftovers == {i \in Used(market) : market.account[i].owner = PAYER /\ ~market.account[i].lp}

LeftOnlyByFaults ==
  script \in OnDeployed =>
    /\ \A i \in Leftovers :
         opened[i] # Nobody => opened[i] \in hurt \cup (IF status = "running" THEN {test} ELSE {})
    /\ script = "test-happy-path" /\ test = 2 /\ pc = 1 /\ 1 \notin hurt
         => \A i \in Leftovers : market.account[i].pos # 0

(* A drill ends with its slab closed and the rent back, stress-bankrun     *)
(* whatever Percolator refuses of the trades it catches, its liquidations  *)
(* and closes, live-verify when none is refused: on a refused closing      *)
(* trade or close it returns before its clean-up (phase 6 of               *)
(* stress-bankrun, the bank run and the clean-up of live-verify).          *)
DrillReturnsSlab ==
  script \in OnOwnSlab /\ status = "ended" /\ hurt = {} /\ joins = 0 => market.stage = "closed"

(* Claim: an account the bank run reports closed is closed.                *)
SaidClosedIsClosed == \A i \in said : i \notin Used(market)
=============================================================================
