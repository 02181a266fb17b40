# Formal models of roboTrade

TLA+ models of the parts of roboTrade where an error would be a matter of order, timing or partial
failure, the TLC runs that check them on small instances, and theorems checked by TLAPS.  Paths
are relative to the repository's Python package, `src/`.

## 1. The system

roboTrade runs trading algorithms against brokerage accounts.  A *binding* ties an algorithm to an
account and says who drives it: a cron expression (the scheduler) or, with an empty cron, an
agent over MCP.  A run reads the market and the account, asks the algorithm for a *plan*, sizes
the plan into orders (or reconciles resting orders), submits them, and commits the algorithm's
state.

| Component | State | Operations | Hard behaviour |
|---|---|---|---|
| Scheduler (`core/bot_runtime.py`, `core/cron.py`, `api/controls.py`) | registry of loops, `_started`, per loop: thread, stop and wake events, last run key | reconcile, start, stop, a loop's tick, save controls, status | request threads, the lifespan and loop threads interleave; the config is read several times per tick and may be unreadable |
| Order reconciliation (`algorithms/reconcile.py`, `options_flip/lifecycle.py`, the two option venues) | recorded order ids, per-symbol memory; at the broker: working orders, position | plan, list, cancel, submit, replace, save | fills between any two calls, lost answers, crash before the save, repeated plans |
| Options Flip (`algorithms/options_flip/`) | memory per symbol | read the bars and the chain, arm a bid, re-price it, offer the position, give up the target | a bid or ask left where it is because the price hardly moved; gates that close under a position |
| Sizing and funding (`core/orders.py`, `core/pipeline.py`) | none of its own | round, plan, fund, liquidate, submit | rounding, sells that fail before the buys they pay for, budgets at a boundary |
| Bursty DCA (`algorithms/bursty_dca/`) | accrued budget, last run, burst memory | accrue, allocate, commit after the orders | stale or repeated plans spend the budget twice |
| Rally Rotation (`algorithms/rally_rotation/`) | a window of ranked days per name, day of the last re-ranking | rank, qualify, stop, select, size, commit | clocks counted in market days, a run that dies between its orders and its memory |
| Configuration (`core/config/`, `common/config_utils.py`, `container_entrypoint.py`) | one YAML document, its temporary file, older files | save a section, migrate, copy defaults, resolve the settings of a run | read-modify-write under a lock that covers the write only; renamed keys and units |
| State store (`data/state_store.py`, `data/order_journal.py`, paper account, Schwab token, result caches) | one document per key | load whole, change, save whole | two writers, one change lost; a token rotated and not saved; a cache keyed by a moving config |
| DuckDB pool and migrations (`data/duckdb_store.py`) | shared handle, its scopes, cursors and mode; the tables and schema version | enter and leave a batch, connect, upgrade for a write, migrate | a reader and a writer of different modes in one process; threads that wait for each other's cursors; a migration that stops half way |
| Market data (`connectors/`, `data/provider_cache.py`, `data/bars.py`, `data/news.py`) | cached payloads, limits of vendors, stored bars by resolution | quotes, daily bars, windows, news, warm-up, prune | partial answers, limits that run out, coarse bars under fine ones, callers interleaved |
| Replay / backtest (`execution/replay.py`, `data/dividends.py`, paper brokerage) | paper book, pending dividends, coverage | step | decisions that see the future, dividends paid twice or to the wrong holder |
| MCP server, HTTP API, brokerage clients | - | routes to the above | their operations are in the models of what they change |
| Streams, explainers, dashboard rows, tools | - | format, compute | no state, or never called; section 14 |

How they interact: web requests save sections of the configuration and call
`BotRuntime.snapshot()`, which reconciles the loops.  A loop's tick calls `run_once`, that is
`run_algorithm` (which reads the account and the algorithm's saved state, and writes nothing) and
then `execute_algorithm` (which talks to the broker and saves the state).  The MCP tools call the
same two halves, with an agent and any amount of time in between.  A backtest runs the same
algorithm classes over the state store redirected to a dict of its thread.  Everything that is
stored goes through the DuckDB pool.

What makes each part correct:

* Scheduler: one running loop per binding, none after stop(), each fire of a cron once and none
  missed.
* Reconciliation: one working order per role, each recorded; what rests is what was wanted, but that
  contracts are never compared; a second run changes nothing.
* Options Flip: what is bid is affordable and no dearer than the mark, what is held is not offered
  below what was paid before its deadline, and is offered at the mark after it.
* Funding: buys never exceed cash plus the proceeds that really arrived; the reserve is kept; the
  answer tells what happened.
* DCA: money is spent once per accrual, and no faster than it is earned, as long as no plan is sent
  twice; a month passes its cap by less than a share, and once more for each run the state lost count of.
* Rotation: a name is bought after enough days, purchases keep their distance, the book aimed at can
  be paid for.
* Configuration: one whole document, read as it was saved; an order goes where its binding says.
* State store: a change that was acknowledged is not undone by another writer, except where two had
  the document loaded at once; an answer from a cache is about what its key names of what was asked.
* Pool: a batch keeps its connection, and a call inside one its cursor unless an upgrade ran out of
  patience; nothing stays open; no bar is lost in a migration.
* Market data: no provider that might have answered is passed over; a window reaches as far as the
  store.
* Backtest: no foresight, dividends once and to the holder, honest coverage.

## 2. Plan

| Order | Modules | What they compose | State |
|---|---|---|---|
| 1 | `Scheduler`, `SchedulerProofs`, `Cron` | loops, requests, lifespan, controls, agent, clock; the expressions | written, checked, proved |
| 2 | `BrokerOrders`, `OrderReconcile`, `OrderReconcileProofs` | lifecycle plan, reconcile_orders, saved state, the two venues | written, checked, proved |
| 3 | `BarsSchema`, `DuckPool`, `MarketProofs` | pool, `_connect`, cursors, upgrade, other processes, migrations | written, checked, proved |
| 4 | `PlaceOrders`, `AccountProofs` | sizing, liquidation and budget fit, submission with failures, the answer | written, checked, proved |
| 5 | `BurstyDca`, `BurstyDcaProofs` | accrual, plan, late and repeated execution, commit | written, checked, proved |
| 6 | `ConfigDocument`, `Settings`, `ConfigStore`, `StoresProofs` | save endpoints, start of the container, a run's resolution; refinement of the abstract document | written, checked, proved |
| 7 | `AppState`, `StoresProofs`, `StorePrune` | runs, caches, sessions and consents over one state store; the tool that prunes one of before the refactoring | written, checked; the store proved |
| 8 | `RallyRotation`, `RallyRotationProofs` | both passes of a plan, orders, memory in market days | written, checked, proved |
| 9 | `MarketData`, `MarketProofs` | the provider walks, the payload cache, the store of bars | written, checked; the walks proved |
| 10 | `Replay`, `AccountProofs`, `TotalReturn` | dates, history, decisions, paper book, dividends; the series signals are measured on | written, checked; the replay proved |
| 11 | `OptionsFlip`, `OptionsFlipProofs` | gates, levels, contract, bid, exit, memory over sessions | written, checked, proved |
| 12 | fractional shares in `PlaceOrders` | | not written |

The modules whose names start with `MC` give TLC the values of a run: sets of plans, markets and
documents, and symmetry where the members of a set differ in nothing but their names (threads,
web requests, callers).  Bounds are constants whose comment says so.

## 3. Scheduler

`Scheduler.tla` follows the threads of the process.  A step is the code between two points where
another thread can be seen.

| Variable | Code |
|---|---|
| `controls`, `readable` | the `bindings` list of the config document; whether it parses |
| `registry`, `started`, `holder` | `_algorithm_loops`, `_started`, `_lock` |
| `tpc`, `wanted` | where a request (or the lifespan) is inside `reconcile()`, and the id set it computed before taking the lock |
| `owner`, `lpc`, `stop`, `lastKey` | a `_RuntimeLoop`: its binding, its thread, `_stop`, `last_run_key` |
| `account`, `strategy`, `due` | what the tick and the run read, and when its wait or run ends |
| `agent` | a `place_orders` call in progress |
| `ran`, `again`, `touched`, `bootedAt` | history, read by properties only |

Loop objects come from a pool; one that no thread runs and no registry entry names is used again,
so that the pool bounds the loops alive at once and not those ever made.  A fire key is the minute
it names.  `Tick` passes a minute only when no loop is between two steps that take no time: a loop
polls within `Poll` minutes and a run ends within `MaxRun`; requests may take any time.

`Cron.tla` is `parse_cron` and `cron_due`'s matching: fields of entries with ranges and steps, what
is refused, 7 for Sunday, and the day of the month and of the week that must both match.  `Scheduler`
takes the minutes of a schedule as a constant; `MCScheduler` assumes (`FiresAreParsed`, evaluated by
every run of it) that they are what `Cron` makes of two expressions, one with a range of minutes and
one with steps, both kinds of days and a 7.

Runs:

* `scheduler_safety` (2 bindings, 3 loops, 2 web threads with symmetry, one edit of the controls,
  one boot, clock to 5).  Two requests are what
  it takes for one list to be stale; three loops leave one dropped and still running while its
  binding has another.  A poll of 2 and a run of 1 are what a grace of 2 just covers, and the fires
  at 2 and at 5 are just as far apart, so that the latest look that is
  still in time happens (`GraceCovers`, which `MCScheduler` requires of its runs).  Loops are one per
  binding, none polls after stop(), and no fire of a binding
  left alone runs twice or is missed.
* `scheduler_live` (one web thread, one edit, one hand edit of the file, fairness): stopped loops
  end, and the registry comes to follow the controls.  With two web threads the second does not
  hold: a request with an older list drops the new loop, and only the next request brings it back.

`_loop` reads the controls outside any `try`: a config that cannot be read at that moment ends the
thread, and its registry entry keeps it from being replaced.  The model does the same, so nothing
here promises that a loop of a binding that stays in the controls goes on.

Fairness: threads that have begun a critical section or a tick go on, and time passes.  Nobody
need ever save, load a page, or exit.  Deadlock is not checked: the process may be down for good,
and the clock and the edits are bounded.

`SchedulerProofs.tla` proves for every value of the constants:

* `TypeCorrect` - the types, by one case per action (`TypeStep`).
* `OneLoopPerBinding` and `StopIsComplete` - from `SchedulerInv`, which adds to the two properties
  `RegistryInv`: a registry entry names a loop of its own binding, a live loop has a binding, and
  `_started` is false as soon as stop() has begun.  Neither property is inductive without it: a
  loop added after the listing of stop() is harmless only because `_started` is already false.
* `FiresRunOnce` - from `OnceInv`: while a binding is untouched since the boot, every list a request
  holds agrees with the controls about it, so its loop is never replaced and its last key is its
  greatest fire run; `FireKeyLatest` shows the next key is never an older fire.

* `NoFireMissed` - from `WatchInv`, assuming `GraceCovers`: the time between two looks at the clock fits
  the grace window, and fires of one schedule are at least that far apart.  Without the first a slow run
  skips a fire; without the second `cron_fire_key`, which knows only the latest fire, forgets the one
  before.  `WatchInv` says that from the boot's own `reconcile()` on a driven binding has a live loop that has
  run every fire up to some minute and looks again within a poll and a run of it.

The liveness properties are model-checked only.

## 4. Order reconciliation

`OrderReconcile.tla` is one symbol of Options Flip on a live brokerage; `BrokerOrders.tla`, which it
extends, is how an order is spelled for Schwab and for Alpaca, how the listing of working orders is
read back, and whether a listed order still is the one that is wanted.

| Variable | Code |
|---|---|
| `account` | which venue the binding is on, and whether `stop_loss_pct` is positive |
| `book`, `position` | the venue: working orders by id, each with what was sent; how many of each contract are held |
| `saved` | the algorithm's state: `order_ids`, memory's `contracts`, and whether a price is known |
| `plan` | the `AlgorithmPlan`: the desired order of each key and the state it was made from |
| `todo`, `orderIds`, `pc` | a run inside `reconcile_orders`: what it decided for each key, the ids it will record |
| `faults` | how many calls were lost or repeated, crashes, refusals |
| `raced`, `smooth`, `calm`, `switched` | history |

`PlanHeld` and `PlanFlat` are `plan_symbol`; `List` is the `get_orders` snapshot and the decisions
made on it; `Cancel`, `Submit`, `Replace` and `Recancel` are single calls to the broker, in the
code's order (cancels first, the target before the stop); `Save` is `save_state`.  Fills, expiry and
cancellation by hand may come between any two steps.  The venue refuses to sell more than is held,
at once or by rejecting what it had accepted.  A symbol has two contracts to choose from, and a run that
is flat bids for either; an order, its row in the listing and the position carry theirs, while `Differs`, as
`_needs_replacement`, compares side, type, quantity and prices and no contract.  Ids are recycled when neither the book, the record
nor a plan refers to them.

Run `reconcile`: trades of one or two contracts (so fills can be partial and sizes can differ) of either of
two series, which nothing tells apart, the
two configurations the code treats differently and runs without an OCO bracket (Schwab with no
stop, Alpaca with one), one fault of any kind or one bid that fills under a run (`MoreMayHappen`; the
theorems bound neither), 7 ids - enough for every id to be found free: TLC
finds no deadlock, which it checks here.  The book stays within what the record and the plan account
for under any single fault; without a fault a run that nothing disturbed leaves one order for each it wanted
and none besides, as the venue lists it (`Converged`), and running it again does not touch the book.  The
order is for the contract the run wanted, unless one for the other contract was resting when the run listed
the book: such an order is kept as it is on either venue, and re-priced in place on Alpaca, while Schwab's
replacement is a new order for the new contract (`OnContract`, with `switched` the roles it happened to).
A bracket on Schwab is the configuration in which `Converged` and `Idempotent` do not hold (section 15).

`OrderReconcileProofs.tla` proves, for any prices, sizes, fills, ids and number of faults, the four
invariants and the action property of the run.  All but `OneTradeHeld` assume `~PairsHeld`: no account has a
stop on a venue where a bracket's wrapper is not listed, which is the Schwab case of section 15 and
fails there.  The argument:

- `BaseInv`: an order in the book is spelled as its role's orders are (`Spelled`), what is wanted is well formed
  (`Wanted`), and an id on record is of an order of its own role or of none that works.  `SentAsWanted` and
  `ReplacedAsWanted` show that either venue lists what was sent as what was wanted.
- `TrackInv`: of the working orders of a role, those other than the one the run or the record knows
  (`Tracked`) are no more than the faults so far.  Each fault loses track of one order at most, and nothing
  else loses any.  `OneThingPerRole` and `RecordIsComplete` follow.
- `EntryInv`, without faults: what is held and what a bid may still add are within one trade while a
  bid has still to be sent, since the run began with nothing held, and within two afterwards.
- `SettleInv`: a role the run is done with stands as wanted, if nothing disturbed the run; `RunsConverge`
  and `RunningTwiceIsOnce` follow.
- `ContractInv`: what stands for a role the run is done with is for the contract that is wanted, or is known to have been
  found resting for another.  What is sent anew is for the contract wanted (`SentAsWanted`); what is put in the
  place of an order is too at Schwab, and keeps that of the order at Alpaca (`ReplacedAsWanted`).

## 5. Options Flip

`OptionsFlip.tla` is what decides the orders of section 4: one symbol over several sessions.

| Variable | Code |
|---|---|
| `day`, `step` | the session and how much of it is left |
| `memory` | the algorithm's memory of the symbol: state, contract, bid, fill price, day of the fill |
| `resting`, `position` | the broker's order and holdings |
| `pc`, `plan` | a plan made and not yet carried out |
| `paid`, `since`, `trades`, `raced` | history |

A run reads one of `Markets`: daily bars, today's minutes, past sessions, volatilities and a chain.
`MovingAverage`, `AverageTrueRange`, `SessionVwap`, `OpeningLow`, `TrendStrength`, `Levels` (the
quantiles of past dips and of the runs after them), `Chosen` (the contract), `WorthIt`, `Limit` and
`Ask` are the code's computations on them in cents and percent; the two standard deviations and the
model's delta are inputs.  `Execute` applies the replacement rule, so that an order whose price
hardly moved stays where it is.  Between any two runs, and between a plan and its execution, the order
may fill.  Calls to the broker do not fail here; that is section 4.

Run `options_flip` (three sessions of three runs each, a hold of two, two trades, fourteen markets: one
that arms, and ones that close a single gate, thin the chain, age a quote, move the price, or lose
the mark of what is held): a bid costs no more than the cap and is no dearer than the mark by more than
the replacement tolerance, a position is not offered below what was paid until its deadline, and at the
close of the last session of its hold it is offered whole at its mark.

`OptionsFlipProofs.tla` proves the three for any markets, chains, histories, shares of a day and tuning, with the
prices in whole cents.  `MarketsAssumption` and `ConfigAssumption` say no more than that: numbers are
numbers, shares are between none and all, some step of the day is before the cutoff, and there is a finite number
of quotes.  `BidStaysWithinLimits` assumes `Uncrossed` besides: where the tuning
does not look at the spread (`max_spread_pct` of 0), an ask below the bid makes the middle dearer than the
ask the cap is worked out with.  The argument:

- the operators first.  A finite set has a first member in any order (`FirstExists`), so `Chosen`
  is a contract that may be traded, and a quantile lies at a place of the sorted samples (`PlacesAreTaken`), so the
  levels are numbers whatever the history holds; neither had to be assumed;
- `BidIsSafe`: a bid is between a cent and the middle, for as many contracts as the cap pays for at the ask;
  `AskIsSafe`: an ask is no less than what was bid until the last session, and the mark at the close of it;
- `OrdersInv`: what rests was within the cap when it was placed, and a plan not yet carried out is at its mark at
  most and is what will be remembered;
- `PositionInv`, unless a bid filled under a run (`raced`): there is one position at most, its memory has the bid it
  was bought near, its size and the session it was first seen in (`Remembered`), and the ask about to be
  placed is for just that (`AskInv`).  A resting order was kept because it hardly differs from what is wanted, so
  `DifferencesAdd` adds the two differences up: that of the bid when it filled and that of the ask.

## 6. DuckDB connection pool and migrations

`DuckPool.tla` is the connections of one process to one file.  DuckDB gives a file one mode per
process, and locks it between processes; that rule (`Opens`) is the external part of the model.
`BarsSchema.tla`, which it extends, is the list of statements by which `initialize_schema` brings an
old table of bars up to date: it is set aside, created anew, filled and the old one dropped, once
for the columns and once to move the stamps of bars from start to end.

| Variable | Code |
|---|---|
| `registered` | the entry of `_HANDLES` |
| `conn`, `readOnly`, `scopes`, `cursors` | a `_Handle`: its connection, `read_only`, counts |
| `lock` | `_IDLE`, only when it is held between two steps (opening a batch may wait for the file) |
| `pc`, `scope`, `cursor`, `live`, `own` | a thread: where it is in its call, its batch, its `_PooledConnection`, whether that cursor is open, its connection outside the pool |
| `disk`, `at`, `mishaps` | the tables and the recorded version; the statement a thread is at; deaths and collisions so far |
| `users`, `strangers`, `other` | the threads of the instance; another process |
| `broken`, `hurried` | history: a swap failed; a swap did not wait for all cursors |

A step is what the code does under `_IDLE`, one attempt to open the file, or one statement of the
migration; a wait is a program counter, and its deadline may pass at any time.  A statement that
needs no upgrade leaves no trace.  When the process dies all threads start again on what is on disk.

Run `duckpool` checks two instances in one state space: three threads (with symmetry; three handles -
a handle outlives its batch while a call uses it, so three are always enough) and another process
on a file that is up to date, and two threads on the oldest file there is, with one mishap in the
migration.  Batches that overlap keep their connection, calls within them their cursor, nothing is
left open, and every bar of the old file is in one of the tables at every moment.  Deadlock is checked.
`MaxCount` caps a cursor count that calls on a broken handle raise and never lower.

`MarketProofs.tla` proves the three invariants of the pool for any number of threads, any files and
mishaps, where the bounds leave room for every thread (`RoomAssumption`: a handle each, and counts to match).
`PoolInv` adds to them what the counts mean: `scopes` is exactly the number of threads in a batch, all of
them on the registered handle; `cursors` is at least the number of threads with a cursor on the handle (a
failed call leaves it too high, never too low, which delays an upgrade and breaks nothing); and a
connection that is open is the registered one's or one somebody still has a cursor on.  `StateInv` says
who holds `_IDLE` and what a thread has in hand at each point of its call.

`BarsKept` is proved for any number of threads at `initialize_schema` and a process that may die between any two
statements.  `InstancesAssumption` says of the file to start from that each of its tables has all the bars or none
(one that was created and not filled, if a migration was cut short), and that what has one key, or is daily and of
one session, is one bar: the migration collapses such rows on purpose ("a provider that filed one session at both
00:00 and 01:00", `data/duckdb_store.py`).  No step makes that untrue (`CopiedIs`, `InsertedIs`: fine stamps are moved
by as much as their resolution and stay apart, daily ones stay in their session), so `FileInv` can say that each
table has all the bars or none, and one has them.  That alone does not survive the drop; `MoveInv` adds that a table
which was set aside is one thread's to copy and to drop - the rename wants the name free - and that when a
thread is about to drop a whole one, the bars are whole in `market_bars`, or in the other table
that was set aside and nobody is about to drop that.

## 7. Sizing, funding and submission

`PlaceOrders.tla` is `pipeline.place_orders` on a whole-share brokerage, from the snapshot to the
answer.

| Variable | Code |
|---|---|
| `cash`, `held`, `equity` | the account at the broker |
| `plan`, `prices`, `snap` | the arguments; the `PortfolioSnapshot` |
| `delta` | `planned_orders`: signed change per symbol |
| `requested`, `budget`, `needed`, `freed` | locals of `fund_planned_orders` and `_liquidation_legs` |
| `funded`, `remaining` | what `_fit_buys_to_budget` leaves of the buys, and of the budget |
| `todo`, `sent`, `lost`, `skipped`, `status` | the legs still to go out, submitted, rejected, infeasible; `_batch_status` |
| `refused`, `disturbed` | history: the broker refused what it need not; somebody else traded |

Reading, sizing and funding are separate steps only because a loop of the code is one action per
iteration (`LiquidateOne`, `FitOne`); the account is traded by others only where the code looks at
it again.  A short sale is checked for feasibility before it goes out (`MayShort`).  The broker fills
at its mark, keeps the value of short positions back, and may refuse any leg.  Amounts are whole
dollars and thousandths of them, which makes the pad of 0.5 % exact; the equity cap (12), the
threshold (30 %) and the minimum (2) are chosen so that each of them decides for some accounts and
not for others.

Run `place_orders`: eight plans (weights, halves, a short leg, the cash-like holding kept or sold,
an agent's share counts, monthly purchases in dollars) on 288 accounts.  One batch each: nothing
is kept between two calls.  What a refused leg does to the rest is part of the run; properties
that promise a good end (`BatchClears`, `ReserveKept`, `Settled`) are about batches in which the
broker refused only what could not be paid for and nobody else traded.  The model starts from
accounts with non-negative buying power (section 15).

`AccountProofs.tla` proves the four invariants for any finite set of symbols, any plans, prices,
accounts and settings.  The first part is about sums: `SumFunction` is a recursive function in a fold,
and what it amounts to is shown by the least set of symbols on which it would not (`LeastSubset`), since no
induction theorem can be used.  `SumChange` (one number changes, and the sum by as much) and `SumOfPart` are
what the rest needs.  `BatchInv` is the account of a batch from reading to answer:

- `PlanInv`: the changes are those the plan asks of the account that was read;
- `FundInv`: until the first leg the account is as it was read, the budget is what may be spent, the
  proceeds and what was freed, and `remaining` is the budget less what was fitted so far;
- `LegsFit`, `LegInv`: what is liquidated is held and not traded, a buy is cut and never enlarged (`ProRata`),
  every leg is to come, sent, refused or skipped, and a holding is what was read and the legs sent;
- `MoneyInv`: buying power and what the liquidations and long sales still to come will bring pay for the buys still
  to come and for the reserve.  `PowerMoves` is why each leg keeps it: a sale out of what is held adds its
  price to the buying power, a short sale takes none, a buy takes its price at most.  When the buys come up,
  only buys are left (`NextLegs`), so none exceeds what there is;
- `StatusInv`: the answer is `Status` of the legs.

`NoLegIsRefused` and `BufferIsLeft` follow from `MoneyInv`, `AnswersAreTrue` from `LegInv` and `LegsFit`, and `RebalanceIsDone`
from both with `PlanInv`: in target mode the target does not depend on the holding.

## 8. Bursty DCA

`BurstyDca.tla` is the accrued budget of one symbol; symbols do not see each other.

| Variable | Code |
|---|---|
| `buying` | the sign of the symbol's monthly budget |
| `saved` | its `SymbolState` in the state store, with times as ticks since then |
| `plans` | `AlgorithmPlan`s somebody has: the state, the size, the price, and whether the store still holds what the plan was made from |
| `running`, `placed` | an `execute` in progress and what its order came to |
| `ledger`, `crashes`, `replays`, `raced` | history |
| `spent`, `strays` | history, of the month: dollars the broker really took; runs the state lost count of |

`Propose` is `plan()`, called before a run, by an agent or for the dashboard: it writes nothing, and
the model does not say which it is.  `Execute`, `PlaceOrders` and `Save` are `BaseAlgorithm.execute`;
between the last two the process may die.  What `conviction` and `willingness` return is taken from
small sets, with the sign of the backlog respected; sizes are the code's formula over them.

Run `bursty_dca` (a month of two ticks, a budget of 2, shares at 3 and at 5, one crash or one plan
sent late or again): the price of 5 is more than two months' budget, so the lift to one share is
the only way to trade it, and more than the cap of 4 leaves.  Willingness is the budget or half as much
again, and no more than five dollars are banked.  Liveness assumes that time passes and
that fresh plans are made and executed, which is what the cron does.

A plan that is sent again commits the state it was made from, and rewinds what was spent and the
clock with it; `AccrualExact` and `NeverFasterThanEarned` hold only without such a plan.  `MonthlyCap` measures
what the broker took, and not what the plan's own state says was deployed: each plan sent again, plan that
carries an earlier month and run that died before its save (`strays`) lets the month spend as much once more,
and no more than once.  What is drawn down is what was submitted at the plan's price, not what filled.

`BurstyDcaProofs.tla` proves the three invariants of the run, the types, and that a sell budget opens
no short (`SellBudgetNeverShorts`), for any rate, month, prices, factors and settings, any number of
plans in hand, crashes and repetitions, from the types of the constants alone.  None is inductive by
itself; `DcaInv` adds what the code relies on without saying it:

- `RunInv`: what was placed is no more than the plan's size buys, and a plan that runs is fresh unless
  one was sent late or again;
- `SizeInv`: in every plan in hand the size is within the banked balance and the overdraft, and within
  the room of its month or one share more (`SizeBounds`, the arithmetic of `planned_order_size`);
- `LedgerInv`: a fresh plan's state is the saved one plus what the plan says was earned, and the
  saved balance less the order that is out is the ledger, give or take a run per crash;
- `MonthInv`: what was spent in the month is what the saved state counts, the order that is out, and a cap and a share
  for each stray;
- `ShortInv`: the size of a fresh sale is covered by the shares that are still held.

The proof of a step has one part per conjunct; division enters only through `SharesCost`
(the shares a size buys cost no more than it).  `EventuallyTrades` is only model-checked.

## 9. Configuration

The configuration is one YAML document.  `ConfigDocument.tla` is the abstract promise of it: the
file always holds one whole document, every change is one request's section put on a document
that request has read, and a start never puts defaults over a document.  `ConfigStore.tla` is the
code: the save endpoints in their threads, the temporary file and `os.replace` under
`_CONFIG_WRITE_LOCK`, the container's start with its migration and its copy of the defaults, the
process dying anywhere, and a trading run that resolves its account, its settings and its
brokerage from separate reads.  `Settings.tla`, which it extends, is the way from a section and the
environment to a setting: precedence, coercion of what is not of the type, credentials, and the
knobs of an algorithm whose horizons have been counted in bars, minutes and days under several names.

| Variable | Code |
|---|---|
| `file`, `tmp`, `legacy`, `seed` | the file, its temporary, the files of before the unification, the image's defaults |
| `proc` | where `prepare_config` is |
| `lock`, `req` | `_CONFIG_WRITE_LOCK`; of each request its kind, body and the document it has read |
| `run` | a trading run on its way from its binding to its brokerage |
| `served` | bound |

A document has the sections that are saved apart (accounts and their default, controls, the tuning
of one algorithm under its id and its retired id, universe); each is a small value with the fields
whose reading differs.

Run `config_store` (two requests, two accounts, three saves, bodies of today and of before bindings
had ids and crons, tunings in three units, one of them not a number): an order goes to the account
its binding names, signed with that account's credentials, or nowhere; controls and tuning are read
as they were saved; and `OneWholeDocument`, the refinement `Abstract!Spec` with the file as the
abstract document and the bases of the requests in flight as what they hold.  The refinement is checked on every step,
including crashes.  The promise is weak on purpose: the document a request builds on need not be
the current one (section 15).

`StoresProofs.tla`, which section 10 shares, proves the refinement (`FileIsWhole`) and `OrdersGoAsBound` for any documents, environment,
requests and crashes.  `ConfigInv` says that the file is a document, missing or half written; that what a request
has read is a whole document; that the temporary file is the request's own change of it while it holds the
lock; and that a start works alone.  `AbstractStep` then maps every step to a save, a start, a request that
ends, or a stutter.  `RouteInv` follows a run from its account to its key: the section and the key it resolves
are those of the account it named, or there are none.

`SavedIsReadBack` is about what the functions between the file and its readers do, so it goes by lemmas about
them.  `SanitizeBindings` is a recursive function of the position in the list: that it exists for every list
(`SanitizedExists`) goes by the shortest list for which it would not.  `IdIsFree` says that an id is never
taken (one of the first n + 1 numbers is none of n ids), so `SavedAreStored`: what a save writes has ids of its
own and clocks that are settled.  `StoredAreRead` says that reading such controls gives them back, each id by
the first place where it would change.  `HorizonIsRead` is the rounding to days from every unit, and
`OneIdIsRead` the retired id.  The inductive invariant `SavedInv` is that the file and every document a request
builds on is as a save leaves it (`AsSaved`).  It rests on `DocumentAssumption`: the image ships a file the
dashboard has saved, as `config/walbot.yaml` is with its three bindings, and neither it nor the older files tune
the algorithm under both ids.  `WithTuning` goes back to the id it read, so no save makes it two.

## 10. State store

`AppState.tla` is every load and save of the state store, with nothing between them to keep
another writer out.

| Variable | Code |
|---|---|
| `store` | `app_state`: paper books, algorithm memories, the order journal, the two result caches, the Schwab token and the pending consent |
| `work` | per thread, where its run, its view, its session or its consent is, with what it has loaded |
| `config`, `server` | of each account's configuration, what the keys of the caches name and the rest; the token the broker takes |
| `truth`, `open`, `mixed`, `orphaned`, `answered` | history |

A run on a paper account opens the brokerage (which loads the book), loads its memory, fills, marks,
commits, and appends to the journal, which keeps the newest `JournalLimit`.  A view is keyed,
looked up, computed and cached.  A backtest replays runs inside `ephemeral_state`, which redirects
the saves of its own thread.  A session starts from the configured or the stored token; the server may
rotate it.  `Restart` forgets what was loaded and keeps what was saved.

Run `app_state` (two threads with symmetry, three operations of any kind, two bindings on one paper
account, a journal of two entries, one save of the configuration, a start with a consent given or none,
two tokens): a document that was never
saved while another operation had it loaded holds what operations taking turns would have made of it;
an answer from a cache was computed for the strategy, the account and the part of the configuration that its key
names as they were asked about (`Named`), unless that part was saved while it was computed; the rest of the
configuration - the account's broker and cash equivalents, the order of the providers - is in no key, and may have
changed since (section 15); and the next session starts from a token that works unless a rotated one died with the process.  Three operations
are the least in which two interleave and a third sees the result.  The run has no token in the
configuration: with one, a rotation is forgotten at the next start (section 15).

`StoresProofs.tla` proves the three invariants for any threads, bindings, accounts, views and restarts,
`NextSessionStarts` where the configuration has no token (`ConfigToken = Missing`).  `SerialInv` says what a thread has
open at each point, that a copy it holds is what the store holds unless the document is `mixed` already, and that
every payload on its way to a cache, and every one in it, is about what the key it is filed under names, or was computed
while that was saved.  `TokenInv` adds that the stored token is the one the server takes unless exactly
one thread holds the newer one and is about to save it.

`StorePrune.tla` is `tools/prune_state_store.py` as a list of statements, each of which commits
alone.  Assumptions of `MCAppState`, which TLC evaluates over a few hundred databases with legacy
rows of plan symbols and others, current rows, caches and dead rows: a prune after one that died
between any two statements leaves what one prune leaves, and a balance banked under a legacy key is
found under the current one.

## 11. Rally Rotation

| Variable of `RallyRotation.tla` | Code |
|---|---|
| `day`, `weight` | the calendar; what the account holds, in units of its equity |
| `history`, `ranked` | the memory: `ranked_top_history` by name and day, `last_rerank_day` |
| `plan` | the run under way: what it found, the memory it would save, its targets |
| `seen`, `grew` | history |

`Plan` is both passes of `plan()`: track, crash stops, the data gate, due or not, the positions kept
and replaced, the weights, the parked residual, the moves too small to make and the fit to the
budget.  `PlaceOrders` carries out any part of it, `Commit` saves the memory, `Abandon` is a run that
was only a preview or died before the save.  Scores and volatilities are any judgement of a name the
gates tell apart.

Run `rally_rotation` (three risk-on names, a defensive one and a stray holding, two slots, an
interval and a window of two sessions, five calendar days with a weekend in them): a name is bought
only after it ranked at the top on enough days, whatever runs a day and whatever runs died; two
sessions on which the book grows are the interval apart; and what a plan aims at is within the
book, or buys nothing.

`RallyRotationProofs.tla` proves the three for any universe, market, account, day and value of the settings.
The assumptions: the defensive names are not among those that are rotated (`algorithm.py:223`), the account is not
short of anything at the start, and a window has at least one day.  The first part is about folds over
sets: that the recursive function in one exists and is the only one (`FoldExists`, `FoldsAgree`), that an invariant
of the step is one of the fold (`FoldStays`), and what a sum is and bounds (`SumIs`, `SumsCompare`), each by the
least set on which it would not be so.  From there:

- `Scored`, `EqualShares`, `Parked`: the weights before the filters, every division rounded down, add up to the gross at
  most, also after the residual is parked;
- `Fitted`, `Settled`: after the fit the targets add up to no more than before the filters, or none of them is
  above what is held; a name that was not to grow does not;
- `ChosenIsCandidate`: however the challenges end, what is chosen was held, or is eligible and ranked on enough days;
- `Tracked`: what a run records is today's observation and what was recorded before.

`RallyInv` ties the memory to the history: every day recorded at the top is one on which a run was saved
(`MemoryInv`), the clock is not behind the last purchase, and a run that may still buy risk names holds today as
the re-ranking it would save, and was due (`MayBuy`).  The spacing is about purchases whose run was saved: a run
that dies after its orders leaves the old clock and the old window behind, so the next one may re-rank and buy
again, but neither ever counts a day or a re-ranking that was not saved.

## 12. Market data

| Variable of `MarketData.tla` | Code |
|---|---|
| `now`, `open` | market time, in bars of the finest resolution; is the market open |
| `cache`, `limited` | `api_cache` by provider and symbol; `api_provider_state` |
| `news`, `store` | the two stores of news; `market_bars` |
| `call` | the request of each caller: kind, symbols, its place in the walk, what it has got, whom it asked |
| `made` | bound |

A walk takes one provider at a time: what the cache answers, the vendor's answer for the rest (all,
some, none), or a refusal, which may be a limit.  A bar has the resolution it really is of and the one its frame says
it is of (`interval_minutes`): a frame that comes from a vendor says nothing, and `Labelled` stamps it with the resolution that
was asked for when it is merged with stored bars (`connectors/service.py:219-220`).  Between the question and the answer other callers
go on, bars arrive and limits run out.  `Extend` completes a window from the store, coarser and
coarser.  `BeginWarm` is the warm-up with and without `clear_market_bars`, `Prune` what drops fine
bars.

Run `market_data` (two callers with symmetry, six kinds of request, two requests, times 9 and 15 on
both sides of a session's end, a metered provider on coarse bars, one not metered on the finest, one switched off):
a symbol is answered by the first provider that has it, and by none only after every one was asked
for that very symbol or was passed over as limited; a window short of what was asked, by what its bars really span, reaches back as
far as anything stored within its reach (by its labels it may be shorter, section 15).

## 13. Replay

| Variable of `Replay.tla` | Code |
|---|---|
| `daily`, `fine`, `feed` | the histories fetched; the dividends reported |
| `dates`, `schedule`, `frames` | `trade_dates`, `dividend_schedule`, the bars of the history cache by symbol and provider |
| `step`, `book`, `pending`, `income`, `coverage` | the loop of `replay`: its paper book, the dividends earned and not paid |
| `seen`, `nights`, `thin` | history |

A backtest has one thread and one action: a step marks the book, pays what is due, decides on the
context of the step before, fills at its own closes, and books what goes ex.  What the algorithm
decides is any of a few lists of orders.  What is hard is in the dates and the ledger: common
dates with a holiday, intraday stamps, an ex-date without a step, one payment reported by several
providers, pay days after the end.

Run `replay` (six days, daily and intraday, one provider with a sliver of the history and one with
most of it, dividends reported twice, two in a day, late and before the start): a daily decision
reads nothing stamped at or after the close it trades at; a finished replay has received each
dividend of the shares it held into the ex-date once; coverage reported as complete means no decision
had less than it asked for.  `NoForesight` is about daily replays only (section 15).

`AccountProofs.tla` proves the three for any finite histories, any reports of dividends, prices, orders,
schedule and window; it assumes that no intraday bar is stamped at midnight, and that orders are for
whole shares.  `ReplayInv` has five parts:

- `InputsInv`: what is fetched stays, and dates, schedule and frames are made from it.  `InOrderAscends` is why the dates
  ascend (a stamp's place is the number of stamps no later), `ScheduleIs` why a dividend is on the schedule of
  the first date at or after its ex-date and of no other;
- `NightsInv`: the book holds what was held after the last step, so what a step pays on is what was held
  into the ex-dates it reaches (`HeldIs`), and no later step changes that (`HeldStays`);
- `OwedInv`: received and owed together are the payments whose ex-date is reached, times what was held into it; what
  is owed is due on a date still to come, so at the end nothing is.  `EarnedIs` is the step: the ledger has
  one row per symbol and day, and `SumGroups` adds its reports up by row;
- `NoForesight` itself: two daily closes are further apart than a window reaches past the moment asked about;
- `CoverageInv`: no symbol counts for more than was asked, so one that had less leaves the sum below (`SumsCompare`).

`TotalReturn.tla` is the series of `data/bars.py` that signals are measured on.  Assumptions of
`MCReplay` compare it, over every three-bar history of small closes and a dividend or two on any day,
with what a holder who reinvests has, and show that the price for signals is missing only where the
close is, whatever the derived series and the feed's own one lack.

Deadlock is checked in `reconcile`, `duckpool`, `bursty_dca` and `config_store`.  The other instances come
to the bound of their days, batches, requests, operations or edits and stop.

## 14. What is proved, what is checked, what is left out

Proved for every value of the constants that its assumptions admit:

| Section | Theorems | Beyond the assumptions of the module |
|---|---|---|
| 3 | `TypeCorrect`, `OneLoopPerBinding`, `StopIsComplete`, `FiresRunOnce` | - |
| 3 | `NoFireMissed` | `GraceCovers` |
| 4 | `OneTradeHeld` | - |
| 4 | `OneThingPerRole`, `RecordIsComplete`, `RunsConverge`, `RunningTwiceIsOnce` | `~PairsHeld` |
| 5 | `WhatIsHeldIsRemembered`, `PrincipalIsKept`, `PositionIsOutByDeadline` | - |
| 5 | `BidStaysWithinLimits` | `Uncrossed` |
| 6 | `BatchesKeepTheirConnection`, `CursorsLive`, `FileIsLetGo`, `MigrationsKeepBars` | - |
| 7 | `NoLegIsRefused`, `BufferIsLeft`, `RebalanceIsDone`, `AnswersAreTrue` | - |
| 8 | `DcaTypes`, `BalanceIsExact`, `SpendingFollowsEarning`, `CapPassedByLessThanAShare`, `SellBudgetNeverShorts` | - |
| 9 | `FileIsWhole`, `OrdersGoAsBound`, `SavedIsReadBack` | - |
| 10 | `StoreIsSerial`, `CacheIsKeyed` | - |
| 10 | `NextSessionStarts` | `ConfigToken = Missing` |
| 11 | `RotationIsRemembered`, `SettlingIsServed`, `PurchasesAreSpaced`, `PurchasesArePaidFor` | - |
| 12 | `WalksAreInOrder`, `ProvidersHaveTheirTurn` | - |
| 13 | `BacktestInv`, `DecisionsLookBack`, `DividendsArePaid`, `CoverageIsHonest` | - |

Only model-checked, on the instances above: the liveness properties, which are out of the prover's reach;
and the action property `WindowCompleted`, which compares the span of windows with what is merged from
several tiers of bars.  The library's
induction theorems cannot be used; an induction can still be done by a least counterexample over a
well-founded order, as sections 7, 11 and 13 do for sums and folds, where the recursion is a function of the finite set,
and section 9 for a list.

Not modelled:

* Streams (`connectors/streaming.py`): nothing in the program calls `ensure_stream`, so no stream is ever
  opened and there is no use of it to be faithful to.
* Signal statistics, option pricing and volatility estimates: floating point over bars.  The models
  take what they return from small sets that open and close every gate.
* Wire formats, HTTP clients, the rendering of pages, rows and explanations, the reports and the
  offline tools but the prune: they keep no state, and nothing that is stored depends on them.
* `plan_position_orders`, `credit_dividends`, `account_sizing_fallbacks`, `close_connections`,
  `delete_state`: no code of the program calls them.
* Fractional shares in `PlaceOrders` and `BurstyDca`: the rounding of whole shares is what the
  hazards of both are about.

PROJECT.json lists each with its component.

## 15. Disagreements between the code and what it says

What follows was met while modelling.  The models do what the code does; each property is stated so
that it holds of the code, and says in its comment which case it leaves out.

Scheduler

* `reconcile()` reads the bindings before it takes the lock (`core/bot_runtime.py:238`).  A request with an older
  list stops the loop another request has just made; the next request makes a new one, without the
  key of the last run, and a fire whose grace window is open runs twice, against "exactly once"
  (lines 173-174).  `OncePerFire` is about bindings left in place.
* A tick reads the account, the schedule and the strategy from three loads of the controls.  A binding deleted
  between the key and the run falls back to the default strategy; one handed to an agent during a run
  has two drivers.
* A loop whose `load_controls()` raises ends for good, and its registry entry keeps `reconcile()`
  from making another while its binding stays: that binding is not scheduled again until the next boot.

Reconciliation and Options Flip

* With an OCO bracket on Schwab the recorded id is the wrapper's, which the listing of working
  orders leaves out (`schwab/brokerage.py:506`, 531), so every run submits another bracket, against
  "Running twice in a minute is the same as running once" (`reconcile.py:17-18`).
* An exit is sized from memory and not from the position (`lifecycle.py:213`): after a partial fill it exceeds
  what is held.
* `_submit` and `_replace` record the id of an order the venue rejects after having accepted it.
* `_needs_replacement` (`reconcile.py:197`) never compares the contract, which a run picks anew: a bid may rest, or be
  re-priced in place at Alpaca, for another contract than the run chose, and be remembered as for that.
  `alpaca/brokerage.py:144-147` has the listing re-spell the symbol so that "a reconciler comparing a working order
  against a desired one is comparing like with like", or the order "is replaced on every single run"; the
  reconciler compares no symbols.  `BidWithinLimits` and `Converged` leave such an order out.
* `day_changed` is never set by `_session_facts`; `max_debit` is reported and never applied; the target's
  probability counts highs before the dip; the prior close assumes that the last daily bar is
  today's; of two held contracts of one underlying one is managed.

Pool and migrations

* Of two threads that wait to upgrade the handle, the second closes the connection the first has just
  opened, because `read_only` is not looked at again after the wait (`data/duckdb_store.py:285`).
* The last batch scope to end closes the connection without waiting for the cursors of other threads
  (`data/duckdb_store.py:378`): a call outside any batch may lose its cursor under it, or reopen the
  database after the last close, on a handle that no scope will close.  `CursorsStayLive` is about
  calls made inside a batch.
* A process that dies after a table was set aside makes every later open raise; one that dies after the
  drop and before the version is recorded has fine bars restamped twice; rows set aside by the first
  migration stay stranded.  Two threads that open an old file at once can restamp twice or not at all
  without a crash, against "runs once per database" (line 490).  `BarsKept` is about the bars being somewhere,
  which is true of all of these.

Orders and DCA

* A batch whose only legs are short sales that cannot be borrowed for is answered `submitted`.
* Negative buying power is read as none, while the sells that have to pay it off count in full
  (`core/orders.py:391`).
* A plan sent again rewinds the accrued budget, its clock and what was deployed this month, and so does a run that
  dies before its save: the month's real deployment may then pass "Most this symbol may deploy this month"
  (`bursty_dca/algorithm.py:285`) by another cap each time.

Configuration

* The write lock does not cover the read (`yaml_io.py:56-59`): of two requests that save different sections
  one loses its section.  The abstract document allows it, so `OneWholeDocument` does not show it.
* `get_config` reads the file once per section, and the brokerage is resolved from another read.
* A saved binding without an account takes the account of the controls when it is read.

State store

* The paper book is read when the brokerage is made and saved whole at each fill; the journal is
  loaded and saved whole: of two runs at once one loses its entries.
* A result computed while the configuration was saved is filed under the key of before.
* The key of a cached backtest is a "Hash of everything a cached backtest's validity depends on" (`backtest.py:153`; so is
  that of a signal view, `algorithms.py:53`), but leaves out the account's `cash_equivalents` and broker and the order of the providers, which
  the answer is computed from (`backtest.py:382`, 414-420).  After one of them changes the old answer is a hit until
  somebody asks for a refresh.
* With a refresh token in the configuration a rotation is forgotten at the next start, since the
  configuration comes before the store.
* The legacy paper book, which had no account in its key, seeds every account.
* The prune writes a legacy accrual over one the current code has banked meanwhile
  (`tools/prune_state_store.py:115`), and its dry run, which has moved no row, does not report the rows it would normalise
  after the move.

Rally Rotation

* A holding that is stopped may be bought again in the same pass (`algorithm.py:258`), against "sold outright"
  (`config.py:146-147`): nothing is sold.
* The memory is said to be saved "only if orders actually went out" (`memory.py:7-9`, `base.py:242-243`);
  `execute` saves it whatever happened to the orders, refusals and empty plans included, and so does the model.

Market data

* Fresh bars of a provider whose grid is coarser than the one asked for are labelled with the one asked for
  (`connectors/service.py:219-220`).  Whoever adds up `interval_minutes` counts less market time than the window
  spans, while `read_history` has stopped where the true resolutions reach: by its labels the window comes back short,
  against "rather than coming back short" (line 150).  `WindowCompleted` is about the time the bars really span.
* `read_bars` limits the rows before it reduces the providers' copies of one bar, so a stored bar may have
  no price; `_fresh_cached_bars` serves any bars of the same day; quotes found in the cache are lost
  when the batch call for the others fails; a late success clears a limit; the walk of bars ignores limits;
  records of sentiment never expire; a warm-up with `--clear` whose provider fails leaves nothing.

Replay

* The intraday window of a symbol reaches up to twenty hours past the moment asked about
  (`replay.py:253-258`), and the fallback to daily closes looks at midnight while bars are stamped at the close.
* An intraday replay ignores the period asked for.
