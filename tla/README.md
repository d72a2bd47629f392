# etrader: a verification project

etrader is a trading bot: one loop that, every few minutes, reads an eToro account,
asks an LLM (or a deterministic fallback) what to do, passes the answer through a risk
evaluator, sends orders, and books what came of them; and an HTTP server through which a
Telegram service pauses it, stops it and closes everything. This directory holds TLA+
modules of it, the TLC configurations that check them, and proofs that TLAPS checks.
Paths below are relative to the python package `src/src/`.

## 1. Inventory

| Part | State it keeps | Operations | Talks to | Hard behaviour | Correct when | Modelled in |
|---|---|---|---|---|---|---|
| Main loop (`main.py`) | stop flags, cycle counter | `run`, `stop`, restore, shutdown | holds the controller's lock during a cycle; saves after it | requests arrive at any point of a cycle; cycles raise; the process dies | a stop ends it, a pause lets at most one cycle pass | `ControlLoop` |
| Controller, HTTP server (`control/`) | paused flag, lock | pause, resume, unhalt, panic, config, directives, shutdown; read-only snapshots | one thread per request | handlers wait minutes for the lock; panic fails half way | what the operator was told stays true, every request is answered | `ControlLoop`, `OrderLifecycle` (panic), `KillSwitch` (unhalt, config) |
| State file (`persistence.py`) | `bot_state.json` and its `.tmp` | `save`, `load` | loop and handler threads | two savers, one temporary name; crash at any byte | the file is always complete and never older than what was acknowledged | `StateFile` |
| Cycle (`cycle.py`) | rate cache, last alert flags | `run_one` and its hooks | everything below | a hook works on what an earlier one changed; reads fail | see next rows | `OrderLifecycle` |
| Executor, monitor, stuck orders (`execution/`) | tracked orders | `_open`, `_close`, `reconcile`, `find`, `cancel` | broker | fills and cancellations race; answers get lost; orders come without an id | a position the bot opened is known, one it did not open is never touched | `OrderLifecycle` |
| Bot state (`state.py`) | owned positions, last actions, halt | setters | all | changed by loop and handlers | | `OrderLifecycle`, `KillSwitch`, `RiskEvaluator` |
| Performance ledger (`performance/tracker.py`, `storage.py`) | open and closed trades, SQLite | `record_open`, `record_close`, `observe` | cycle hooks | closes booked by two hooks; writes that are no transactions; crash | a trade is in one ledger; the open one is what the bot owns | `OrderLifecycle` |
| Daily roller, statistics | one row a day | bump, roll | tracker | midnight, restart, refused writes | a day's row says what the ledger says | `PerformanceLedger` |
| Risk evaluator (`strategy/risk.py`) | none of its own | `evaluate` | directives, state | several BUYs judged on one snapshot | caps hold over the whole cycle | `RiskEvaluator` |
| Kill switch (`strategy/kill_switch.py`) | baseline, halt, day | one function | state, equity | midnights, restarts, the user's trades, failed reads | halts on the bot's losses and on nothing else | `KillSwitch` |
| Decision engine (`strategy/signals.py`, `decisions.py`, `decision_parser.py`) | none | `decide` | LLM, tool verdicts | unparsable, partial and contradictory answers | one request per forced position; a blocked symbol is not bought | `DecisionCycle` |
| Tools, selector, runner, hit rates | rolling window per tool, its file | `select`, `run`, `settle` | candles | demotion feeds on itself; restarts lose pending scores | an always-included gate that objects decides | `ToolStack` |
| Directives and enforcer | directive set | set, clear, auto-close | controller, cycle | edits between two reads in one cycle | what was acknowledged holds; every position a directive names is closed | `DecisionCycle`; account cap in `RiskEvaluator` |
| Dynamic stops | bands per position | set, ratchet, clear | executor, state file | the reader has no caller at this commit | a trailing floor never loosens | `DynamicStops` |
| Exchange sessions | calendars | pure | stuck orders, enforcer | local days, weekends, changes of the clocks | the lookups agree with the list of sessions | `ExchangeSession` |
| Universe | tracked symbols, refresh timer | `build`, `refresh` | tools, news | a full list, a filter, a restart that forgets what is owned | what the bot owns is tracked | `Watchlist` |
| News pipeline | candidates, file | scan, record, prune, save | sources | failed scans, crash in a write | feeds the universe | `Watchlist` |
| Autotune | tuned values | parse, apply | config store | writes that fail | a tuned value survives a restart | `ConfigStore` (apply), droughts and suggestions left out |
| Fundamentals and earnings caches | entries, backoff, negatives | `refresh` | providers | failing and always-stale symbols in front of the others | nobody waits longer than the others need | `FundamentalsCache`, `EarningsCalendar` |
| LLM client, usage tracker | counters, JSONL | record, restore | Azure | threads, midnights, torn lines | no call is counted twice or lost | `UsageTracker` |
| Alert hub and Telegram service | queues per chat, offset | emit, drain, poll, dispatch, send | HTTP, Telegram | full queues, answers lost after they took effect, two processes that die | alerts may get lost, never repeat or overtake | `TelegramService` implements `LossyChannel` |
| Operator commands | requests under way | dispatch, time out, answer | controller's lock | a command that timed out acts later than the next one | an answered command stands | `OperatorCommands` |
| eToro client, market data | rates cache, metadata | request loop, chunks, ladders | network | retries, ambiguous answers, refused sizes | no order twice, no rates of two times | `MarketData`; outcomes of orders in `OrderLifecycle` |
| Configuration and store | settings, SQLite | load, snapshot, override | controller, autotune | refused writes, a missing database | an override survives a restart | `ConfigStore` |
| Telemetry, history, logging | rings | append | | none | | left out: nothing decides by it |

The list of hazards, each at its line and with the properties aimed at it, is in
`PROJECT.json`.

## 2. Plan

Order: what may lose or misuse money first.

1. `OrderLifecycle`, `ControlLoop` on `StateFile`, `KillSwitch`, `RiskEvaluator`, with proofs: done.
2. `DecisionCycle`, `DynamicStops`, `ConfigStore`, composed in `MCDecisions`: done.
3. `MarketData`, `ToolStack`, `TelegramService` over the abstract `LossyChannel`,
   `OperatorCommands`, `PerformanceLedger`, `UsageTracker`, `Watchlist`, `FundamentalsCache`,
   `EarningsCalendar`, `ExchangeSession`, composed in `MCBackground`: done.
4. Left to do: an abstract `Ownership` (a position is foreign, ours, or gone) that `OrderLifecycle`
   implements; the droughts and the suggestion rules of `strategy/autotune.py`; the calculus of
   the tools in `context_tools.py` against reference definitions; `RiskEvaluator` and
   `DecisionCycle` on one set of requests, which today share only their interface.
5. Proofs: every invariant and every action property that a run checks is a theorem (section 5).
   Left: the refinement of `Ownership`, once it is stated.

## 3. Modules

### OrderLifecycle
The broker's orders and positions (`order`, `open`) against what the bot believes: owned
positions (`owned`), tracked orders (`tracked`), the ledger (`perfOpen`, `perfClosed`) and
the owned set in the state file (`disk`). `pc` walks through one `run_one`:

| Action | Code |
|---|---|
| `BeginCycle` | `_fetch_portfolio`, `monitor.reconcile`, `_record_performance_opens`, the search of `_cancel_stuck_orders` |
| `CancelAccepted`, `CancelFailed` | one stuck order: `StuckOrderCanceller.cancel`, `_handle_failure` |
| `BookVanished` | `_record_performance_vanished` |
| `Decide` | the decision phase and `RiskEvaluator.evaluate`: any list of approved requests |
| `ExecBuy`, `ExecClose` | `TradeExecutor._open`, `_close`: accepted with or without an order id, timed out with or without an order, refused |
| `FinishCycle` | `_track_placed_orders`, `_record_performance_closes` |
| `Save`, `CycleRaises` | `main.run` after the cycle |
| `PanicBegin`, `PanicClose`, `PanicEnd` | `panic_close_all` under the lock |
| `Crash`, `CrashInRewrite`, `StopAndStart` | death at any point, also between the two writes of `record_close` and in the middle of a rewrite of `open_positions`, which is no transaction (every cycle does one); a stop between cycles or before execution |
| `FillBuy`, `FillClose`, `RejectOrder`, `ExternalClose` | the broker, at any moment |

What may go wrong in a behaviour is its `regime`, a constant-in-time set of faults chosen
in `Init`. A property that the code keeps only without some fault says which
(`Without({...})`); the run has for each such property the regime with all other faults.

Abstractions: a BUY order and the position it opens share one id (the broker has two, linked by
`orderID`); the snapshot keeps ids only; units of a partial close, prices and fees are left
out; which order is past its grace is a free choice; MODIFY_STOPS touches none of this state.
Writes of the ledger that the database refuses are left to `PerformanceLedger`.
A panic's sleep between closes shows as other steps of the broker between two `PanicClose`;
mirror positions, which the code skips everywhere, are left out.

### StateFile and ControlLoop
`StateFile` is `StatePersistence.save` by several threads: build the payload, truncate
`.tmp`, write, rename. A descriptor follows its file through a rename, so a late writer may
write into the file already in place. `alone` and `clashed` record whether saves overlapped.
`ControlLoop` EXTENDS it with `main.run` (`Check` without the lock, `StartCycle`, `EndCycle`,
`CycleRaises`, then a save without the lock), the handlers (`Receive`, `Acquire`,
`PanicClosed`, `PanicFails`, `Answer`), `RequestStop`, and `Restart`, which loads the file or
starts afresh when it cannot be read. A cycle is opaque here: it changes the state (`rev`) or not.
`BuildRaises` is the copy of a dictionary that a panic changes at the same time: the save is
skipped.

### KillSwitch
`Checked` is `update_and_check_kill_switch` as a function on the record of the `BotState`
fields it uses, composed of `Rolled`, `Unstuck` and `Measured`. Around it: midnights, orders
and fills, profits and losses of bot and user, failed reads (equity 0, no positions),
positions the broker closes, `/panic` (positions go, no action is counted), `/unhalt`, edits of the limit, and the edge detector of the
alert. `reference` and `alerted` are history. A close counts as executed when accepted. A
restart needs no action of its own: every field the function reads is saved, and `Legacy` is a
file of a version without `baseline_day`; the edge detector's loss in a restart is left out.

### RiskEvaluator
The loop of `RiskEvaluator.evaluate` with the executor and broker behind it: `BeginEvaluation`
takes the snapshot, each `ApproveBuy` judges one BUY and remembers it in `newOpen` and
`committed`, `SendBuy` or `BuyFails` executes it, `Executed` and `Vanishes` are the broker.
The kill switch is a BOOLEAN input, and a blocked symbol is one nobody requests. Approved
orders are sent in any order. Guardrails do not change within a behaviour.

The modules of the two components are checked by `MCRiskGate` side by side: one moves, the
other stays put, so that the states add up instead of multiplying. They share no variable in
this abstraction except the verdict of the switch, which is free.

### DecisionCycle
The middle of `run_one`, for one kind of order each of `BUY`, `CLOSE`, `MODIFY_STOPS`.
`BeginDecision` reads the portfolio, snapshots the directives, builds candidates and drops
those a directive names; `Judge` is the answer of the LLM (any entries, or none, or
nothing that parses, or an LLM that is off), its parser, the merge with the closes that
directives force, and the part of `RiskEvaluator.evaluate` that reads directives and ownership;
`Execute` is the broker; `DecisionAborts` a stop or an exception. `EditChecked`,
`EditApplied`, `EditRefused`, `EditAcked` are an operator's edit, which passes the controller's
lock twice and changes the directives in between, so in the middle of a cycle too. The history
variable `acked` is what the operator was told. `Situations` says which directive applies to which
position; times and sectors are behind it.

### DynamicStops
A band is a stop, a trail and a peak: `ModifyStops`, `ClearBand` from the executor, `CheckBands`
the monitor's pass over all rates, `SaveBands` and `RestoreBands` the state file. The take-profit is left out.

### ConfigStore
`running` over `rows` over `toml`: `Boot` is `load_config` (a row wins over the file, sections
without rows are backfilled, a database that does not open is replaced by an empty one in
memory; the rows of a section that cannot be read count as none, and a probe that fails lets the
snapshot write over rows; `unread` remembers those sections), `EditToml` the file, `EditGuardrail` and `Tune` the two writers, whose writes may fail one by one.

### MarketData
One `job` at a time goes through `EtoroClient._request`: `StartRound` (rates in chunks of
`RateChunk`), `StartCandles` (one instrument each), `StartMetas` (batches down `Ladder` when
refused for their size), `StartTrade`. `Retry` repeats a GET; `RatesAnswered`, `RatesFailed`,
`CandlesAnswered`, `CandlesFailed`, `MetasAnswered`, `MetasTooLarge`, `MetasFailed`, `TradeEnds` are
what becomes of it; an answer (`Answered`) may leave instruments out or say nothing at all (`silent`). `acted` counts how often the broker acted on an order, answered or not. A rate is the
round it was fetched in.

### ToolStack
`EvaluateCandidate` selects tools by `always_include`, demotion, regime priority and budget,
runs them up to the first veto and records scores; `Settle` books closes and outcomes into
rolling windows and the file; `SkipCycle` is a cycle without candidates; `RestartStack` reads the windows back.
What a tool computes is an input.

### TelegramService and LossyChannel
`LossyChannel` promises: alerts numbered as emitted reach a chat in order and at most once,
and may get lost. `TelegramService` is hub and service: `EmitAlert` (a full queue drops its
oldest), `DrainChat` (pops before the answer, which may be lost), `SendAlert` (sent once,
whatever comes back), `DrainEnds`, `Post`, `PollSucceeds`, `PollFails`, `DispatchUpdate`, and
the restarts of both processes. The refinement mapping takes as pending of a chat its queue and,
while it is drained, what the service holds for it.

### OperatorCommands
`Dispatch` (one at a time), `GiveUp` (the timeout: the request stays with the bot), `Refuse`,
`TakeLock`, `Release`, `PanicFails`; directives go through `CheckDirective`,
`ChangeDirective`, `SaveDirective`. The loop holds the lock from `StartCycle` to `EndCycle` and saves
without it: `Draft` reads one setting after the other into the payload, `WriteDraft` writes it, and
handlers may act and save in between. `overtaken` is history: commands that changed a setting the
payload had already read. `BotDies` restarts from the file and the rows. Two saves that meet in the
temporary file are the subject of `ControlLoop`.

### PerformanceLedger
`RecordOpen`, `RecordClose`, `Observe`, `ReadStats`, `Midnight`, `LedgerRestart`, and `CrashInClose`,
`CrashInObserve` at any point of what they write. Each write may be refused (`MaxFaults`); a rewrite
of the open trades may also be cut short after its DELETE (`CutShort`), by an error or a crash.
The days a write was refused on or a restart broke into are history.

### UsageTracker
Three steps per call, of several threads: `StampCall` (outside the lock), `CountCall` (under
it), `AppendCall` (outside again); `RestartUsage` reads the file or fails to, `DateTurns`.
`excused` counts calls in flight at a crash and calls whose line was torn, `unread` those the running process
could not read.

### Watchlist
The steps of a cycle in their order: `NewsScan`, `RefreshUniverse`, `Reconcile`, `Trade`;
a portfolio that cannot be read disowns everything (`DisownAll`);
`BotStop` and `TearStore` end the process, `BotStart` is a new one. The universe may be anything that `build` can
return, whatever fits the filter. The refresh timer compares `time.monotonic()`, which counts from
the boot of the host (`uptime`), with a timer that a reconcile sets to 0.0.

### Sums
`SumOver(f, S)` is Python's `sum` over a finite set, for the budgets of `RiskEvaluator`, the counts of
`UsageTracker` and the results of a day in `PerformanceLedger`.

### FundamentalsCache and EarningsCalendar
One refresh with its budget (`RefreshFundamentals`, `RefreshCalendar`) and a restart
each. The fundamentals are refreshed in any order of the symbols, which the cache sorts anew each time. The
calendar asks the first `CalendarBudget` symbols of the universe, `front`; `Reorder` is a universe with another
order, and nothing makes it happen. `waited` and `refused` are history.

### ExchangeSession
`Tick` moves the clock by half an hour. Schedules have an offset before and after a change of the clocks.
`SessionExact` compares `is_open`, `seconds_since_open`, `next_open` and the flatten window with the set of sessions.
The code leaves holidays out, and so does the module; at a half-hour grain seconds within a slot are not told apart.

## 4. Runs

| Run | Shows |
|---|---|
| `Lifecycle` | seven properties of ownership, ledger and adoption; three ids, one foreign position, five regimes |
| `LifecycleLiveness` | a filled BUY is adopted or closed in the end |
| `LifecycleFetchFails` (violation) | one failed read disowns open positions |
| `LifecycleCancelRace` (violation) | a BUY filled while being cancelled is forgotten |
| `ControlLoop` | pause, acknowledgement, file, answers, stops, healing |
| `PauseRace` (violation) | a cycle starts after the pause |
| `TornState` (violation) | overlapping saves tear the file |
| `RiskGate` | kill switch and caps |
| `HaltCleared` (violation) | a halt is dropped the same day |
| `UserLossHalts` (violation) | the user's loss halts the bot |
| `Decisions` | directives are obeyed by every answer and every edit, forced closes happen in the end; floors only tighten; settings survive restarts |
| `Background` | market data, gates, alerts, commands, daily rows, usage, watchlist, caches and sessions: ten components side by side, eleven properties |

The six violations are disagreements of the code with its own comments; `findings` in
`PROJECT.json` quotes both sides.

**Bounds.** Three order ids are a BUY, its close, and one more order that races with them;
order ids are interchangeable and symmetry is used for safety only. One foreign position is
enough to be mistaken for the bot's. Two requests a cycle make a batch. In `ControlLoop` the
passing run has the loop and one handler thread that serves two requests one after the other,
one restart and one change of the state; `TornState` and `PauseRace` have two handlers.
The safety theorems cover any number of handlers, requests and restarts. The kill switch has
three days (0..2), so that a baseline can be one and two days old, a loss limit of two units
and moves of up to two; the equity is far from zero so that only a failed read yields 0. The
evaluator has three slots for orders against two parallel trades, amounts below and above
the per-trade limit, a budget (6) that two amounts of 4 overrun, leaving a remainder (2) below the
amend floor (3), and an account cap that binds through the user's money as well. Every bound
is a CONSTANT in the `.cfg` and a guard in the action it limits.

In `Decisions` and `Background` the variable `focus` says which component moves; the others stay in
one of their first states, so that the state spaces add up instead of multiplying. `Decisions` has
two instruments, one of them crypto, and three positions, two of them on one instrument. An answer
has up to two of seven entries, among them a BUY under another's name and closes without a
position, with a foreign one and with a refused part. Prices move by 3, beyond a stop of 2; there
are three settings with two values, two of them edited in `config.toml` as well (`PeriodInFile`).

`Background`: three instruments in chunks of two and a ladder of two rungs, so that a chunk is left over and a
batch shrinks in the middle; one retry; two rounds, so that there is an earlier one. Four tools against a
budget of two, windows of two outcomes, five cycles: long enough to demote a tool, lose its outstanding scores
and try to bring it back. Two chats, queues of two, three alerts and two updates, at most three of both
together (`FewEvents`): a queue overflows, a second drain follows a lost one. Three commands, none twice, a
guardrail with one other only, and one save that fails (`FewEvents`). Two trades over three days, two faults,
each a write that is refused or cut short or a restart: the case of interest is a cut-short rewrite of the
open trades and a restart that reads it (trades are interchangeable, and symmetry is used for them). Two
callers, two days, three calls, one bad write. Two listed instruments with room for one, so that an owned one
must push the other out, on a host that may have just booted. Four symbols and one that is always stale
compete for a fundamentals budget of three: two of them are stale whatever is fetched, the other three take
turns at the place that is left, so that one waits for two refreshes, which is the longest
`FundamentalsServed` allows. Three companies compete for a calendar budget of two. Four exchanges east and
west of UTC over two weeks (`Horizon`, 672 half hours) with their changes of the clocks. Ages, waits and
counters stop counting where the code no longer tells them apart.

`CHECK_DEADLOCK FALSE` stands where the system may really stop: `ControlLoop` ends when the
process has exited and the bounds on requests and restarts are used up; the clocks of `RiskGate` end; the bounds of
`Background` and `Decisions` are used up.

**Fairness.** `OrderLifecycle`: weak fairness of the cycle (the loop never stops by itself;
calls have timeouts) and strong fairness of a `BeginCycle` that reads the portfolio (it is not
unreadable for ever). Nothing makes the broker fill an order, and the run's regime leaves out crash,
panic and stop. `ControlLoop`: weak fairness of the loop and of each handler, and strong
fairness of a handler's taking the lock, because the loop sleeps for at least a second without it
between two cycles (`main.py:232`) while a waiting thread is runnable. No fairness of faults,
requests or restarts. `DecisionCycle`: weak fairness of starting a cycle, strong fairness of coming
to verdicts (the loop survives an exception and tries again) and of each accepted close (the broker
does not refuse one position for ever). In `MCDecisions` it binds only the behaviours whose `focus`
is the decision; `DueIsClosed` is the property that needs it.

**Refinement.** `TelegramService` implements `LossyChannel` (`Channel == INSTANCE LossyChannel
WITH ...`): checked as `DeliveryIsLossyFifo`, and proved.

## 5. Proofs

TLAPS checks the results listed under `theorems` in `PROJECT.json` for every value of the constants,
from the named assumptions in the modules: ids, foreign positions and markers are distinct, bounds
are naturals, the sets a count or a sum runs over are finite, `StartEquity` exceeds what can be
lost, the rungs of a ladder of batch sizes descend. One assumption says more and comes from the code's
data. `ClockAssumption` (`ExchangeSession`): the offset of an exchange is at most a day, and its
clocks change, if at all, on a local day without a session; every zone in `_EXCHANGE_HOURS` that
changes its clocks does so on a Sunday. TLC evaluates all assumptions in the runs.

Every invariant and every action property of a passing run is such a theorem. Where the run's
specification composes several components (`MCRiskGate`, `MCDecisions`, `MCBackground`), the
composition is shown to behave by the specification of each part (`PartsBehave` and its like), so
that a theorem about a part holds of the whole.

* `OrderLifecycleProofs`. `OnlyBotPositionsOwned` is not inductive: a position becomes owned
  through the snapshot. `OwnershipInv` therefore follows it from the broker's book (`OpenOfBots`)
  to the snapshot (`SnapshotOfBots`), to memory and disk, and to the close requests in the queue
  (`QueueOfBots`), which gives `ClosesOnlyOwn` too. `LedgerInv` adds `NotYetBooked`: an order
  that may still be adopted is in neither ledger, so adopting it cannot reopen a closed trade; an
  id is handed out once, and adoption takes it out of `tracked`. `LedgerLag` says what the
  open ledger holds over `owned` while a cycle executes (exactly the acknowledged full closes not yet
  booked), which is why the two are equal between cycles. `SnapshotCoversOwned` (until the
  vanished are booked, the snapshot lists every owned position still open) bridges the read and
  the booking for `VanishedIsGone`. `OrphanInv`: a pending BUY is tracked or among the results of
  the cycle, and what is open without being expected was adopted, so it is owned or has a close
  under way. That makes `NoOrphans` inductive.
* `ControlLoopProofs`. `LateInv`: a loop that has passed the test has started no cycle since the
  flag was set. `LockInv`: whoever acts or saves under the lock has it. `FileInv`: a saver that is
  alone writes its own temporary file, and without clashes every saver is alone. `FlagInv`: a flag the
  operator knows, or is about to be told, is in the payload of every lone save under way and in the file.
  `SavedInv`: unless somebody has still to save, a lone saver writes what memory holds and the file
  holds it afterwards (`QuiescentIsSaved`).
* `SumProofs`. Induction over a finite set without an operator as a parameter: a set of subsets that
  has `T` whenever it has all smaller ones has every finite one (`StrongSetInduction`, from the
  well-foundedness of strict inclusion). It yields that the recursion behind `MapThenSumSet` has a
  solution (`SubsetRecursion`), that a sum does not depend on the order, and what it does when an
  element is added or a value changes: the lemmas for budgets, bills and daily rows.
* `RiskGateProofs`. The caps on `seen` plus `committed` are inductive once `Capped` is
  bounded by a lemma; only approvals raise the sum. `CooldownInv`: the bot's
  last action of an instrument is the last accepted order, and what an approved slot is about had
  cooled down. `ExposureInv`: with prompt fills, what is invested or on its way is at most what the
  cycle saw and has approved since (`Accounted`), so the caps on the one bound the other, although
  positions vanish and orders fail meanwhile.
  `AlertInv`: the edge detector remembers a halt that is over only until the
  next check, which cannot halt because `/unhalt` left no baseline. `HaltInv`: without failed reads
  and closes by the broker, a halted bot has a position or an order of the day, so that the rule
  for stale halts never applies to it. `EarnedInv`, for a bot that trades alone: the baseline is the
  equity at the reference, and the bot can have moved since only with something at stake
  (`Skinned`). With it a check halts exactly for the loss since the reference (`LossStopsTheDay`,
  `HaltIsEarned`), though the baseline of an idle bot moves in every check.
* `MarketDataProofs`. `RatesInv`: while rates are fetched, the cache holds nothing of this round.
  `NoneForgotten` is inductive with the types. `BoundInv` trades every request against the work
  that is left: an instrument to ask for, a rung of the ladder, a retry; `RankIsInjective`
  (cardinalities of initial segments) shows that a chunk takes something off the list. For the
  watchlist, `WatchInv`: what is owned is tracked, or the refresh timer reads at least the uptime,
  so that the next refresh comes before the cycle trades. `CacheInv` shows that nobody is starved:
  each refresh a symbol waits for spends what the always-stale ones leave of the budget on others that it finds
  untouched, and fetched or failed ones stay so while nothing is due again, so that the symbols run
  out before the wait does. `CalendarInv`: the longer a company in front was refused, the sooner its negative
  entry ends.
* `TelegramProofs`. `AlertInv`: what was drained is older than what is queued, and both are newer
  than what was seen; it gives the refinement step by step. `UpdateInv` ties the offset to the
  updates that were dispatched.
  `StandInv`: a request that is not over is the newest or one the operator
  was told nothing good of (`OpenKnown`), so that only those can change a setting; and what an
  answer promises is in memory and stored before it is given (`OwnStands`). `DraftInv`: what the save
  of a cycle is about to write is at least as new as every answer, but for commands it remembers as
  `overtaken` (`NumbersStay` keeps that through the answers given meanwhile).
* `DecisionProofs`. `DirectiveInv`: blocks that were acknowledged are in force, and no candidate or
  approval of the running cycle contradicts them. `RatchetIs`: a ratcheted band has a floor at
  least as high. `StoredRuns`: a setting that is not `unsaved` runs with the value of its row.
  `ParsedIs`, `MergedIs`, `FirstOfIs`: whatever the LLM answers, requests are about symbols and
  positions, and a tuning block becomes values of settings.
* `BackgroundProofs`. `BillInv`: the file, with the lines still to be written, holds every call that
  is not excused and of no day more than its calls, so that reading it back after a crash neither
  loses nor repeats one. `LedgerInv` is what makes `DaysMatchLedger` inductive: an id is adopted once
  (`AdoptedOnce`); a closed trade that a restart can open again was closed on a day already given up
  (`ReopenedIsExcused`); a row counts no more than the trades of its day that cannot come back
  (`RowsAreSettled`); and on a whole day it counts all of them, in memory while it is dirty and in
  the table afterwards (`WholeDays`). `AlwaysSelected` and `GatesNext`: an always-included gate is in
  front of the budget, so it runs before the verdict is drawn. `ScoresInv`, `OutStaysOut`: a tool that is
  not selected records no score, without a score no outcome reaches its window, so its rate stays
  below the threshold in memory and in the file. `WeekdayIs`: a weekday of an exchange is one
  interval of UTC, with one offset; from it every lookup is exact at any time of any horizon.

Only model-checked: the liveness properties (`FilledBuyIsAdopted`, `RequestsEnd`, `StopIsObeyed`,
`TornFileHeals`, `DueIsClosed`), since liveness under fairness and ENABLED are beyond the prover. No
module declares a RECURSIVE operator. The six properties of the violation runs do not hold and are
refuted by TLC.

## 6. Limits the properties state

* `LedgerDisjoint` is for behaviours without a crash: between the two writes of
  `record_close` a crash leaves a trade in both tables (`performance/tracker.py:170`).
* `OwnedIsBooked` is for behaviours in which no crash cuts a rewrite of `open_positions` short. The
  rewrite is a DELETE and INSERTs that each commit by themselves, in every cycle
  (`performance/storage.py:62`, `:106`), and nothing reconciles the table with the state file: a
  position that is owned and not booked stays so, and its close is not booked either.
* `NoOrphans` is for acknowledged orders that the broker does not reject and that are not cancelled as stuck, in a
  process that lives. Each exclusion is a way to lose sight of a position in the code: an order
  that timed out, one without an id, a full close that is accepted and then cancelled or rejected, a
  restart with tracked orders, a failed panic close.
* `ExposureKept` is for orders that fill before the next cycle: the snapshot does not show
  orders under way (`cycle.py:440`).
* `AckedFlagHolds` is for a disk that can be written, and is void after a crash that follows
  overlapping saves.
* `HaltIsKept` is for positions that go by the bot's own orders. Where a failed read, a stop or
  `/panic` takes them without an action of the day, and the bot has not traded that day, the next
  check drops a halt the bot earned (`kill_switch.py:69`, `controller.py:351`).
* `OwnedStaysTracked` speaks of what the bot owns. After a failed read it owns nothing
  (`cycle.py:726`), and the universe may drop what it held. It is also for a host that has been up for a refresh interval: the forced refresh sets
  the timer to 0.0, and after a boot `time.monotonic()` is less than an interval away from that
  (`cycle.py:651`).
* `ConfirmedStands` excuses a command whose save failed: the failure is logged and the answer says
  success (`controller.py:449`). It also excuses a command that the save of a cycle overtook
  (`main.py:224`): a payload read before the command and written after its answer brings the old
  value back at the next restart, and a paused loop does not save again. A command that timed out
  may act after a later one.
* `NoneForgotten` (`MarketData`) counts an instrument as served that was named in a request the
  broker answered: what an answer omits, or an answer that does not parse, leaves without data, is
  not told apart (`client.py:211`, `market_data.py:170`).
* `FundamentalsServed` bounds a wait by what the always-stale symbols leave of the budget. They may
  fill it, and then the others wait for ever.
* `FrontIsLookedUp` is about the first symbols of the universe; those behind the budget are never
  looked up while the order stays (`cycle.py:612`).
* `UsageSurvives` excuses the totals of a process that could not read the file
  (`usage_tracker.py:249`); the file keeps the calls, and the next good read has them.
* `DaysMatchLedger` holds through rewrites of the open trades that are cut short, because a trade
  lost there is neither closed nor counted; it excludes days on which a write was refused. For a day a restart broke into it
  says only that the row counts no close too many, because the first event after the restart
  starts a fresh row (`daily_roller.py:114`).
* `RestartKeepsSettings` excludes settings whose last write failed, settings without a row, and
  those of a section that this start or the last could not read (`store.py:186`): the bot then runs
  with `config.toml`, and if the probe of the section fails too, the snapshot writes that over the rows.
* `HaltIsEarned` and `LossStopsTheDay` are for a bot that trades alone on an account that can be
  read.

### Behaviours the models show and no property judges

Each of these follows from an action as it is translated; a property against it would only repeat it.

* An LLM answer that does not parse is replaced by deterministic requests that ignore the vetoes of
  the tools (`decisions.py:119`); candidates that were vetoed are shown to the LLM (`cycle.py:356`);
  a BUY of an instrument that is no candidate goes by the symbol the LLM writes, so that a block by
  symbol can be missed (`decision_parser.py:62`).
* `prescreen_candidates` drops the CLOSE candidates of blocked symbols too.
* The bands of MODIFY_STOPS are kept, ratcheted and saved, and nothing calls their reader.
* A budget of tools may crowd out `earnings_proximity` (`selector.py:106`).
* A fundamentals entry whose earnings date has passed is stale in every refresh and takes budget
  each time; a failed earnings lookup also drops a date that was known.
* A toggle of the alerts menu that is delivered again flips back; commands posted while the service
  was down are executed when it returns.
* A failed `/panic` answers with an error and has paused the bot in memory.
* A setting whose write failed is not written again by the tuner, for which it is no change.
* A tuned value is converted to its type and never bounded (`autotune_parse.py:41`): a period of 0 is
  applied and stored, and `indicators/price.py` then raises in every later cycle, before a tuning
  could repair it, and after a restart too, since the row wins over `config.toml`.
* `storage.py:106` calls its block "BEGIN…COMMIT"; under `isolation_level=None` nothing begins.
* The comment above `cycle.py:612` and `config.toml:201` say that every tracked name gets its earnings
  date; six of twenty-five do, as long as the order of the universe stays.
* Rates a cycle could not fetch come from any earlier cycle, not only from the previous one
  (`cycle.py:230`).

### Not modelled

Telemetry, history and logging (nothing decides by them); the wording of prompts, of Telegram texts
and of the dashboards; the network parsers of news and fundamentals; the numbers inside the
indicators (their verdicts are inputs); the type coercion and validation of single settings; the
static metadata of instruments.

## 7. Reproducing

In this directory: `tlc -config Lifecycle.cfg MCOrderLifecycle` and likewise for each run of
`PROJECT.json`; `tlapm OrderLifecycleProofs.tla` and likewise for the other seven proof modules.
