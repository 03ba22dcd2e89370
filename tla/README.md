# Verification of ballast-percolator-cli

TLA+ models of this repository, the TLC configurations that check them on small instances, and TLAPS
proofs, for every instance, of every safety property those check. Paths are relative to the repository; line
numbers are those of the commit the models were read from (`PROJECT.json`, "map", gives them for every definition).

## 1. Inventory

The repository is the client side of a perpetual-futures program, **Percolator**, which is not part of it,
plus one on-chain program of its own, the **Ballast matcher**. Percolator keeps a market in one account, the
*slab* (header, config, engine, a table of accounts); LPs name a *matcher* that prices the trades against
them; *keepers* crank the market so that it accrues and liquidates; scripts deploy markets and watch them.

| Component | State it keeps | Operations | Interacts with | Correct when |
|---|---|---|---|---|
| Ballast matcher, `programs/ballast-matcher/src/lib.rs` | one 384-byte context per LP: terms, bound LP PDA, inventory, last price, return scratch | Init, Match, unknown tag | called by Percolator (CPI, signed for the LP PDA); anybody may call it directly | a context is bound once and for good; the inventory never passes its cap; a closed LP never fills; a return answers the request it is read for; prices stay in the band; nothing overflows |
| Trade commands and runtime, `src/commands/trade-*.ts`, `src/runtime/tx.ts` | a command in flight: what it read, its transaction, its exit code | option checks, build, simulate, send, confirm, report | read the slab, send to Percolator, which calls the matcher | a success was executed; limits and gates hold; an LP trades only where its owner signed or opened the door; both books agree |
| Account onboarding, `scripts/add-vamm-lp.ts`, `initUser` of two test scripts | a guess of a slot index; `devnet-market.json` | guess or find a slot, create context + LP, deposit, write manifest | Percolator's LIFO freelist, other wallets | the slot used is the client's own; a manifest names an LP that can trade |
| Ballast market setup, `scripts/ballast/setup-ballast-sol-market.ts`, `utils/crank.ts` | `config/ballast-config.json`, a manifest, six kinds of transactions | deploy, save, wrap, top up, write manifest; three modes | the chain; itself, when run again or twice | files never name a half-built market; nothing is paid twice by runs in a row |
| Keepers, `scripts/crank-bot.ts`, `src/commands/keeper-crank.ts`, `scripts/mainnet-liquidator.ts`, `scripts/mainnet-crank.ts` | the candidates of the crank in flight | read slab, pick candidates, send, wait | Percolator; each other | positions under water are closed; a live market does not go stale |
| Market watch, `scripts/mainnet-watch.ts`, `mainnet-bounty2-tick.ts`, `mainnet-monitor.ts`, `check-conservation.ts` | last sample, log | sample slab then vault, compare, flag; the tick cranks in between | the chain, moving between two reads | an alarm about a market that stood still is true; what stays broken is reported |
| LP quote routers, `src/commands/best-price.ts`, the router of `scripts/random-traders.ts` | quotes | read contexts, compute, compare | matcher pricing | a fill is not worse than the quote it was picked by |
| Random traders, `scripts/random-traders.ts` | traders and their indices, a trade count | start, fund, trade, bank run, top-up, refund, revalidate | the market, closed under it; the router | no account is funded twice; an index that is no longer its own is dropped |
| Percolator market deployment, `scripts/setup-*-market*.ts`, `setup-mainnet-bounty2.ts`, `burn-*.ts` | manifests, a key file | deploy, fund, configure, burn authorities | the chain, each other, strangers | nothing is burned before it is needed; manifests are true; insurance is paid once |
| Single-instruction commands, `src/commands/*.ts` | none | check options, read, one instruction | Percolator | what is sent is what was asked; `update-config` writes what it read |
| Live test scripts, `scripts/test-comprehensive.ts`, `test-happy-path.ts`, `stress-bankrun.ts`, `live-verify.ts`, ... | their own accounts | tests and drills on a live market, clean-up | the market, other wallets | a test leaves nothing behind that no fault and no refusal it cannot answer explains; a drill returns its slab; a report says what happened |
| Slab closing | none | one instruction for each slab of a list | Percolator | |
| Codec, validation, slab and oracle decoding, configuration | none (pure) | encode, parse, derive | all of the above | round trips, bounds |
| Read-only commands, inspection scripts, unit tests, shell measurements | none | print | | |

**Hard behaviours.** A client never holds a lock on the chain: what it reads is stale when its transaction
executes. A transaction that was sent may land after its sender gave up on it, or died. Scripts are rows of
transactions without a journal. Trades and liquidations cross three programs of which one is external. The
matcher mixes `u128`, `i128` and `u64` arithmetic under `overflow-checks`. Keepers must get round to
everything. `PROJECT.json` lists each of these at the line where it bites ("hazards"), with the properties
that would catch it.

## 2. Modules

| Module | Models | State and actions, and the code they stand for |
|---|---|---|
| `MatcherPricing` | pure part of `lib.rs` | `check_inventory_limit`, the fill of `compute_passive_fill` and `compute_vamm_fill`, prices and widths. Widths are constants (`I128_MAX`, `U64_MAX`); every cast, saturation and checked operation is modelled by what it does at that width, and an arithmetic abort is the outcome `Panic` |
| `MatcherContext` | `MatcherState`, `InitPayload::parse`, the checks of `process_init` and `process_match` | one context account, `MatcherState` plus owner, length and return scratch, and what an Init or a Match makes of it (`Matched`); `acct[c]` are the contexts. The matcher and the trades share it |
| `BallastMatcher` | `process_init`, `process_match`, `process_unknown` | `last` remembers the previous instruction and its error. One action per instruction, guards in the order of the code, an error leaves every account as it was |
| `LpBook` | nothing: abstract specification | a book that is bound once and trades within its cap; `BallastMatcher` implements it |
| `MatcherProofs` | | theorems about `BallastMatcher`, `QuotedFills`, `TradeFlow` and what they extend |
| `TradeFlow` | `trade-cpi.ts`, `trade-nocpi.ts`, `simulateOrSend`, `formatResult` | `trade[n]` is the n-th command typed: its line, the price it read, the status of its transaction, its exit code. `Command`, `Simulate`, `Send`, `Report`, `LoseAnswer` are the client; `TradeCpi`, `TradeNoCpi`, `Refuse`, `MovePrice` are Percolator (external). `TradeCpi` takes the matcher's own step, `Matched` of `MatcherContext`. Its specification is `TradeSpec`, so that one proof module can speak of it and of `BallastMatcher` |
| `LpOnboarding` | three ways to learn a slot | `client` is the running script, `slab`/`free` Percolator's table and freelist (external); `Start`/`Guess`, `CreateAccount`, `FindSlot`, `Deposit` follow the scripts; `Join`, `Leave` are other wallets |
| `BallastSetup` | the setup script | `op[o].pc` walks `Steps`, the order of `main`; `tx[r][k]` is each transaction of each run; `Die` may follow any step; the chain executes, refuses or drops what was sent, also after death |
| `KeeperCrank` | bot, liquidator, bare crank | per keeper `step`, candidates, transaction on the wire; `basis`, `under`, `phase` are Percolator's (external); `EndTurn` is confirmation, exception and `timeout` alike. `Ranked` is both sorts, by their score and then by index; the specification is `KeeperSpec` |
| `MarketWatch` | `mainnet-watch`, `mainnet-bounty2-tick`, `mainnet-monitor`, `check-conservation` | `market` is the true slab and vault (external moves: deposits, withdrawals, losses, donations, a break, time); `reader` is the sample in the making, one action per read; flags are operators named after the lines they print |
| `MarketCommands` | the commands that send one instruction | `Sends(command, wallet, slab)` is the set of instructions a command can put on the wire, with its accounts, signers and oracle; `Executes` is Percolator's side (external). Only `update-config` has two steps, because only it sends what it read |
| `MarketLaunch` | the four deployments and the burn | `proc[t]` walks the script's row of transactions; each step is executed, refused, or left on the wire of a dead run; `manifest` are the files. EXTENDS `MarketCommands`, so operator and strangers act in between |
| `QuoteRouter` | `computeQuote` and the choice of an LP in `random-traders.ts`, quotes of `best-price.ts` | pure: what is read of a context, which is nothing of a magic they do not know, the basis points, bid and ask, the best LP of those that can be quoted |
| `QuotedFills` | nothing of its own | `BallastMatcher` and `QuoteRouter` on the same context, which the routers see with the program's own magic (`AsRead`): what a taker was told, the default, against what the matcher answers |
| `RandomTraders` | the bot of `random-traders.ts` | `traders` is its memory, `slab` the chain; a pass reads the slab, then acts on the copy one transaction at a time (`pc`, `plan`); `Closed` empties slots under it, `Land` executes what was given up on (`wire`) |
| `LiveScripts` | the two suites and the two drills | each script is a value: a sequence of tests, each a sequence of steps (an instruction, a read, a jump, a wait, with what catches its exception; `ForUsers` is a loop over the users of a drill); the actions interpret the step at hand against the market. `Execute` takes what Percolator makes of an instruction it accepts (`Outcomes`), `Refuse` a refusal that the amounts show or the script gets over (`Withstood`), `Fail` any other refusal or fault, which marks the test (`hurt`). `Join` is a stranger |
| `BallastSetupProofs`, `LpOnboardingProofs`, `MarketLaunchProofs`, `RandomTradersProofs`; `UpkeepProofs` (`MarketWatch`, `KeeperCrank`); `LiveScriptsLemmas`, `LiveScriptsProofs` | | theorems |
| `MC*` | | constants for TLC: model values, payloads, requests, symmetry |

`MatcherPricing` <- `MatcherContext` is the matcher; `BallastMatcher` puts it under every instruction that anybody
may send, `TradeFlow` under the trades of a market: the operators that the matcher's lemmas are about are the ones
that trades execute in the composed run. `QuoteRouter` joins it through
`QuotedFills` (matcher) and `RandomTraders` (bot), and `MarketCommands` <- `MarketLaunch` puts the commands
between the steps of the deployments.

## 3. Runs

Every run but the two "violation" runs ends without an error; properties in `PROJECT.json`, "runs". Each
property comes with a mutant of the model, a plausible bug that makes TLC report it.

| Run | Question | Bounds, and why they are enough |
|---|---|---|
| `matcher` | caps, closed door, echo, price band, who may move what, what the routers' default says of a fill, `LpBook` | one context, two LP keys and the zero key: a context only depends on the keys it is called with. `I128_MAX` 63, `U64_MAX` 6, denominators 10 and 2: small enough that every cap, band and overflow edge is met by requests of both signs; one LP stays within the routers' default (2 of 10), one starts at it and passes it; terms and requests listed in `MCBallastMatcher` |
| `matcher_wide` | caps and requests at the edge of `i128` | caps at `I128_MAX` - 1, `I128_MAX` and over it, requests up to the edge: the casts that could wrap do wrap in the model |
| `trade` | composition of command, Percolator and matcher | two commands of two users; an open LP, a closed one, and one registered with another LP's context; three prices, one of which overflows a buy; market with and without an index feed |
| `trade_claim` | violation | a wallet outside the allowlist trades |
| `onboarding` | whose slot is it | four slots, three runs, five moves of others: enough to free slots out of order and to race every read |
| `setup` | files and funds, through death and concurrency | two operators, two runs in all: a run after, or beside, another that died anywhere |
| `keeper` | liquidation and freshness happen | three accounts whose order by size is not that by leverage; two candidates fit in a transaction, so both the full and the overfull transaction occur |
| `watch` | which alarms can be false, and which breaks are missed | one reader at a time, a vault and claims of up to three units, a cap multiplier of 2: enough for insurance, capital and dust to cross each limit between the two reads |
| `launch` | deployments and burns on one slab | two terminals, three runs of any of the five scripts, two commands of the operator or a stranger, two accounts: a retry beside a late transaction, a burn beside a deployment, a stranger at index 0 |
| `traders` | the bot over restarts, faults and closed accounts | a slab of four, two traders, one lost transaction, one change by others; bank run every 3 and revalidation every 6 trades for 5 and 10, which keeps what matters of them: the second is twice the first, and a trade that fails counts twice |
| `live` | what suites and drills leave behind | four slots; bank runs of two users for four, two rounds of the crash loop for ten, a row of cranks as one; one fault or unanswered refusal anywhere, one stranger anywhere, and any number of the refusals that the scripts get over: every single failure of every step is met |
| `live_claim` | violation | the undisturbed bank run of `stress-bankrun` says it closed users and closed the LP |

**Fairness.** `KeeperCrank`: a keeper's turn starts again and again (`while (true)`, cron: weak fairness of
`Read`), and ends by itself (exceptions are caught, `sendAndConfirmTransaction` gives up, `timeout 50`: weak
fairness of `EndTurn`). `Send` and `Crank` have strong fairness: a keeper whose every RPC call or every
transaction fails is out of scope. Nothing is assumed of traders, prices, other crankers or the clock.
`MarketWatch`: the watcher loops and cron starts the tick, and reads, the tick's send among them, do not fail for ever
(strong fairness of each); that a crank lands is not assumed, `Fail` ends the tick instead (weak fairness). `RandomTraders`: the bot loops (weak fairness of `Bot`), its random choices of a
trader and of what to do come round (strong fairness of `LuckyPick` and `LuckyTrade`: `Math.random` avoids
nothing for ever); nothing of the market. The other modules have safety properties only, for which none is needed.

**Deadlock** is not checked in `trade`, `onboarding`, `setup`, `launch` and `live` (and the two claims): commands
and runs are bounded there, or the scripts end, and all of them may be over.

## 4. Findings and divergences

Shown by a run:

* `trade_claim` - the matcher stores the allowlist and never reads it (`lib.rs` 313-315); `README.md:39` and
  `docs/prd.md:303` promise that other wallets are rejected.
* `live_claim` - `stress-bankrun.ts:293` and `live-verify.ts:558` encode CloseAccount from `{ idx }`, the field is
  `userIdx`: `undefined` is written as 0, so it is index 0, the LP, that is closed, while line 294 prints the user as
  CLOSED and line 276 skips the LP. `live-verify` counts accounts and does not notice.

Met while modelling; the models do what the code does:

* Slots. `README.md:483` calls the first-free search of `add-vamm-lp.ts` Percolator's; the code's own line 94 and
  `skill.md:635` know that it is a LIFO freelist. After slots are freed out of order the matcher context is bound
  to the PDA of another slot (`LpOnboarding`; the deposit that follows fails, so `ManifestIsTradeable` holds).
* Freshness. `utils/crank.ts:6` requires a crank in the transaction of a top-up; the Ballast setup sends the
  top-up alone and can be refused as stale (`BallastSetup`, `Refuse`).
* Liquidation. `encodeKeeperCrank` sends a candidate given as a number with policy 0xFF, touch only. `crank-bot`
  and `keeper-crank` give numbers, so neither liquidates, although `keeper-crank.ts:49` calls the list liquidation
  candidates (`KeeperCrank`, `FullClose`): `LargestAreLiquidated` rests on `mainnet-liquidator`.
* Quotes. Ballast contexts carry `BALLAST_MAGIC` (`lib.rs:85`); both routers look for `PERCMATC` and quote every
  Ballast LP at the default of 50 bps (`random-traders.ts:148-159`, `best-price.ts:50` and `193-196`), although
  `best-price.ts:70` speaks of actual matcher parameters. So a taker may be filled at a worse price than the one the LP
  was picked by, up to its `max_total_bps`, and an LP that charges less than 50 bps is passed over. `DefaultQuoteBounds`
  says how far the quote can be relied on: no worse fill from an LP whose maximum is within 50 bps, no better one from
  an LP whose fee and spread come to 50 bps, nothing in between.
* Refusals. The scripts expect Percolator to refuse for more than the amounts of `LiveScripts` show: the LP's margin
  (`test-happy-path.ts:251`, `issue.md:22`), the size of a near-maximum open (537, 626), the price envelope and
  profit that has not warmed up (`live-verify.ts:493`, `548`). A rejected open returns with the account open, a second
  refusal of a close leaves the suite (257), and `live-verify` returns with its slab open. The model has each of these
  refusals, and `LeftOnlyByFaults` and `DrillReturnsSlab` name them among what they cannot exclude.
* Commands. `update-config.ts:19` says omitted flags keep their current on-chain values: they are written back as
  they were read before the send. `update-admin.ts:13` says that both holders sign: only the payer does.
* Deployment. `setup-mainnet-bounty2.ts:158` calls a retry with `SLAB_PUBKEY` idempotent; past InitMarket it is
  refused. Its key file is overwritten by the next fresh run. The burn script rewrites the whole manifest it read at
  its start.
* `random-traders.ts`: `realizePnL` is due at a count that is a multiple of 15 and not of 5 (line 902), never; a failing
  trade counts twice (987, 1004); with no LP the loop turns without counting.
* `test-comprehensive` and `test-happy-path` on the repository's `devnet-market.json` (a Chainlink market whose authority
  is burned) die at the first price push that nothing catches, the second after a top-up of its own. Test 4 of the
  former reports success even if its account never closes; a break of its test 11 after the open leaves a position.
* `live-verify` returns from a bank run whose closing trade or close was refused without resolving, without closing the
  slab and with exit code 0; `stress-bankrun` ends with its success message whatever its last three steps did.
* `close-all-slabs.ts` (command) and `list-markets.ts` compare the magic in the wrong byte order and find nothing.
* Scripts that cannot reach their work: `complete-setup`, `set-maintenance-fee`, `test-deep-invariants`,
  `test-keeper-candidates` (imports that no longer exist), `test-hyperp-market` (encodes an undefined field),
  `admin-free-test`, `disable-oracle-authority` (key lists their account tables refuse).

## 5. Proofs

`MatcherProofs` proves, for all widths, denominators, contexts, keys, payloads and requests that meet
the named assumptions of the modules (`WidthAssumption`, `InputAssumption`, ...: positive widths, `U64_MAX` and the
other ranges within `I128_MAX` as in the code, an allowlist of any length):

* `TypeCorrect`, `CapHolds`, `DoorHolds`, `NoPanic`, `AnswerHolds`, `BandHolds`: `Spec => []` of the invariants that
  `matcher` and `matcher_wide` check;
* `BoundSigner`, `PermanentBinding`, `ExactFills`: the action properties;
* `Refinement`: `BallastMatcher` implements `LpBook`, step by step;
* `DefaultQuotes`, of `QuotedFills`: `DefaultQuoteBounds`, for every default spread within the denominator. The routers
  say the default whatever the terms (`DefaultIsSaid`); a fill is priced at a spread between the LP's fee and spread and
  its maximum, however its caps cut it (`TotalWithinMax`, for which `IInv` is needed: only validated terms fill); and the
  price is monotone in the spread, floors included (`PriceMonotone`).

`BallastSetupProofs` proves, for any set of operators, any number of runs and any amounts with
`INSURANCE <= WRAP`, everything the run `setup` checks: `TypeCorrect`, `SavedIsCranked`, `ManifestFunded`,
`WrappedOnce` and the action property `ReplacedByForce`. What a run saves says nothing of the chain by itself, so the
inductive invariant ties them by the confirmations in between: a confirmed crank means a cranked slab and a confirmed
top-up a funded one, for good (`ConfirmedOK`), and a run reaches the step that writes a file only after the
confirmation it rests on. Without an overlap of runs, `AloneOK` adds that only the last run is at work or on the
wire, that what it has read of the balance is still so when its wrap lands, and that a run that deploys over a
slab was forced. One lemma per action shows that `IInv` is kept; one row lemma (`Row`) evaluates `After`.

None of the matcher's invariants is inductive alone. Its `IInv` adds, per account: a stamped context's terms validate (without
it `max_total_bps` could pass the denominator and the cap be checked against anything), a context that was never
stamped is zeroed memory (or Init could open a door on a book that has moved), only zeroed memory belongs to the
system program, and the scratch describes a fill within its band. The first lemmas state what the pricing
operators guarantee from valid terms (`ComputeFillSound`: sign, size, cap and band of a fill; floors and products of
natural numbers). A step preserves `IInv` account by account: Init touches only zeroed memory, Match only one
stamped context whose signer is its LP.

It also proves everything the run `trade` checks: `TradeTypeCorrect`, `BooksTogether`, `PriceAsked`,
`SuccessIsExecuted`, for any set of requests, LPs, contexts and registrations. The invariant has three parts: a context
keeps for ever the LP and the terms it was deployed with (`ContextsOK`, from the same lemmas about `Matched` that the
matcher's proofs use), each trade's status and exit code have behind them what the gates of its command let pass
(`TradeOK`), and positions and contexts have their types. An inventory without a cap may saturate at the edge of `i128`
and then part from the position, so `BooksTogether` states its hypothesis: `NarrowCaps`, every context was deployed with
a cap under `i128::MAX`, as in the run. The other three theorems need no hypothesis.

`LpOnboardingProofs` proves everything the run `onboarding` checks: `TypeCorrect`, `SlotFound`, `ManifestTrades`, for a
slab of any size and any number of runs. `ManifestIsTradeable` does not rest on a guess being right, so its invariant
follows what makes a wrong one harmless: the guessed slot was free when it was guessed, so whoever holds it by the time
of the deposit is a stranger, who refuses it, or the guess was right (`GuessOK`). `FindsItsSlot` needs two more facts:
while nobody moves, what was read is what is there (`QuietOK`); and until a slot is first given back, the slab fills
from below and its freelist is ascending (`FreshOK`). The least and greatest members of a set of slots exist by
well-foundedness of the natural numbers, without an induction over data.

`UpkeepProofs` proves `TypeCorrect` and `NoFalseAlarm` of the watchers, for any funds and deposit cap. The invariant states what a
snapshot held between two reads still says of a market that has moved on: `ReadsOK` weakens each relation of the two
values by what happened since (`between`), `Sound` is the market that nothing was stolen from.

Of the keepers it proves `KeeperTypeCorrect` (no transaction names an account twice, the liquidator's names two at most)
and `TopTwoAreLargest`: the liquidator submits exactly the positions with fewer than two larger ones, those that
`LargestAreLiquidated` speaks of. Both rest on `RankedIs`: in any order by a score and then by index, a finite set of
accounts has a sequence that holds each member once (`RankingExists`), found by well-foundedness of the number of its
members. The types are inductive by themselves.

`MarketLaunchProofs` proves everything the run `launch` checks: `TypeCorrect`, `PaidOnce`, `AdminLast`,
`WholeWhenBurned`, `ManifestTrue`, for any number of terminals, runs, slabs and commands. The rows of the scripts are
first read as positions (`RowOrder`): where the market is initialised, funded, configured, burned, and written down. The
invariant then says:

* `OneRun`: past InitMarket there is one run of a deployment per slab, or one transaction that such a run left on the
  wire, never two. That is why insurance is paid once however many retries overlap: CreateAccount and InitMarket let
  one run through, and a dead run leaves nothing behind but its last transaction.
* `RunHolds`: what a run has done is still so, on a market that its operator left alone. No stranger and no other
  script can undo a deposit, a cap, the insurance or a burn (`Steady`, `CleanAfter`: over every instruction that
  Percolator accepts from a stranger or from a script).
* `WireHolds`: a burn on the wire comes from a run that had finished the market and burned what precedes it, so it may
  land at any time.
* `SlabHolds`, `FileHolds`: a market without an admin is whole and without any authority, and what a manifest says
  of a slab stays so.

Once a command of the operator has changed a slab (`by_hand`), nothing is claimed of it: `update-config` may take the
cap off, and does.

`RandomTradersProofs` proves `TypeCorrect` and `NeverTwice`, for a slab of any size, any number of traders and any
bounds on faults and closed accounts. `FundedOnce` counts what the slab holds; a step that would break it was planned
several steps earlier, from a copy of the slab, so the invariant counts what is still to come:

* `OpenedOK`: the accounts that are there and the InitUsers still planned are no more than the bot wants, beside those
  that came late. Closing an account, a kill, a failed send can only lower the sum.
* `PlanOK`: no account has two deposits in the plan, and one that has is short of a deposit (`IsDue`), or a late one
  has arrived in the meantime. While a plan is carried out nobody else fills the account, and withdrawals, trades and
  closing only lower its capital; so the deposit still fits when its turn comes.
* `WireOK`, `CapitalOK`: what may land late is an InitUser or a whole deposit, each counted by `late` when it does.

That the list of traders has no index twice rests on `AscendingIs` (a set of slots has a sequence in ascending order,
found by well-foundedness of the number of its members) and `PickedIs`. The slab's bound on capital must hold one
deposit (`MaxCapital >= DEPOSIT`); a smaller one would leave every deposit refused.

`LiveScriptsLemmas` and `LiveScriptsProofs` prove everything the run `live` checks: `TypeCorrect`, `NothingLeft`,
`SlabReturned`, for a slab of any size and any number of users of a drill, of faults and of strangers. What a script does
next depends on its text, so the proof annotates the text, as one does with a program:

* A *view* (`Fits`) says what holds when a script is at a step: nothing of a test is left (`FitsIdle`); it asked for an
  account and reads which one it got (`FitsAsked`, `FitsFresh`); it has one, whose position, profit and price, and what
  the script remembers of them, are among those named (`FitsOwn`); the clean-up of the happy path has this much behind it
  (`FitsSweep`); a drill has this much of its slab left, or was hurt (`FitsDrill`, `FitsCalm`).
* `Sound(s, v, on, off)`: a step leads from its view to `on`, and by its jump or exception to `off`. A lemma per kind of
  step shows what that means of the actions, whether the instruction is executed, refused or lost and whatever a
  stranger or a price does meanwhile (`SumIs` and `SumStep` keep the positions of a live market at a sum of zero). This
  is where the model of Percolator is used; it is done once. A step whose refusal the script must get over (`Withstood`)
  needs `off` to hold after it whatever the market, so the theorems do not rest on what Percolator accepts there.
* `Leads`: a sequence of steps whose views are `Sound` one after the other. Sequences that lead are put together
  (`JoinedSteps`, `Over`, `Nested`, `ForUsersLeads`) as the scripts put together their helpers, so there is a lemma for each
  helper, test and phase, and `Programs` says that each test of each script leads from a view that holds when it starts
  to one that allows its end.
* The inductive invariant `IInv` is then short. `Shape`: types, the books of the market, and that only the test at hand, or
  one that met a fault, such a refusal or a stranger, has an account open. `Placed`: a script that runs is at a step of an annotated test
  and the view of that step holds. `Stopped`: what a script that is over has left. `SweptBefore`: the first scenario of the
  happy path starts with no flat account of earlier runs.

What the invariants rest on is visible in the views: an account is given back because every path out of a test, exceptions
included, passes the clean-up with a reading of the account that is still true, or is in `hurt`; and
`stress-bankrun` returns its slab because what its crash leaves, whichever trades, liquidations and closes were refused, is
force-closed after the market is resolved, where no margin and no warm-up is asked. `live-verify` has no such way round a
refusal. Of resolution, force-close and the last three instructions the theorems do rely on Percolator's accepting what
the amounts allow; its refusing them is a fault. `LiveAssumption` asks that the wallet and
the stranger are two, neither is "none", and that a drill's users fit into its slab beside the LP.

TLC evaluates the assumptions in the runs above, and each inductive invariant was checked by TLC before it was
proved, that of `LiveScripts` without `Placed`, whose quantifier over annotations TLC cannot enumerate. The theorems
extend `matcher`, `matcher_wide`, `trade`, `onboarding`, `setup`, `launch`, `live` and the safety part of `keeper`,
`watch` and `traders` from the instance to all of them: no safety property of a passing run is left to TLC alone.
`ClosedDoorNeverFills` and `PermanentBinding`'s `BindingIsPermanent` are what
`LpBook` says as invariants of the program.

**Only model-checked:**

* the liveness properties (`KeeperCrank`, `MarketWatch`, `RandomTraders`): the prover does not reason about fairness or
  `ENABLED`;
* the two claims, which are false.

## 6. Not modelled, and why

* Percolator, the token and system programs and the network are external. Each is modelled as the code here uses
  it, with the freedom the code has to expect (refusal, delay, loss, reordering of wallets), and no more.
* Byte offsets, account metas, wording, colours, logs: no property tells them apart. Vitest and the Rust tests
  check the offsets.
* Option parsing: a command line is a record of what survived it.
* Compute units, priority fees and rent.
* The allowlist's content beyond "which keys": nothing reads it.
* The numbers that the live scripts compare and print: `LiveScripts` keeps which account, position and slab is left.
* `test-edge-cases`, `test-profitable-withdrawal` and `adversarial-test` beyond how they find their account
  (`LpOnboarding`): they play further scenarios with the helpers that `LiveScripts` models for the two suites.
* Flags of the watchers that restate one field; `monitor-soft-burn` and the crontab edit of the installer.
* `liquidate-at-oracle`: nothing the other commands touch depends on it.
* The fields of `ballast-config.json` beside the slab, which `saveConfig` writes back as it read them.
* Scripts that cannot run (section 4), `fund-lp` (one deposit), slab closing (a loop of one instruction).
* Components with status `not_modelled` in `PROJECT.json`: readers that print, tests, measurements, byte offsets.

## 7. Plan

Done: the matcher and its proofs; trades end to end; onboarding; setup and its proofs; keepers; watchers; commands and
deployments; routers and the trading bot; the live scripts; the proofs of section 5.

1. Pure checks: `layoutForDataLength` and the bounds of `validation.ts`.
2. `test-edge-cases` as a further value of `LiveScripts`: its tests are made of the helpers that are annotated already.
