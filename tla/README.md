# QuantEngine in TLA+

Specifications of QuantEngine, model-checked with TLC and proved about with
TLAPS. Paths are relative to `src/app/` unless they start with `docs/` or
`tests/`; line numbers are those of the commit under `src/`. `PROJECT.json`
maps every definition to the lines it models and lists hazards, runs, mutants
and theorems.

## 1. The system

A Python trading engine in one asyncio process: market data in, strategies and
models to signals, signals to decisions, decisions to positions in a paper
broker or a MetaTrader 5 account, and around it what keeps the process alive
and honest: scheduler, watchdog, recovery, failover, kill switch, Safe Mode,
the gate before real money, backups, a research laboratory and a dashboard.

Concurrency has three sources: coroutines that interleave at `await` on one
event loop; worker threads (backups, backtests, the write-behind stores); and
the world, in which the process dies, files are left half written, exchanges
fall silent, other nodes take the lease, and a broker account changes by
itself.

### Inventory

| Part (directory) | State it keeps | What is hard | Module |
|---|---|---|---|
| Execution Engine with its position, portfolio, risk, order managers and journal (`execution`) | the four books, the manage task | books updated one after another on two settlement paths; a kill switch between a decision and a pass | `ExecutionEngine`, `PositionLifecycle`, `Orders`, `Sizing` |
| MT5 broker (`brokers/mt5`) | connection, tickets | the account changes between two calls; "no answer" reads as "no positions"; executed answers lost | `BrokerReconciliation` |
| Recovery, kill switch controller, journal file (`production`) | three files | captures, torn and refused writes, order of stop | `RestartRecovery` |
| Failover (`production/failover`) | the lease file, `_is_primary` | read and write are separate steps, and either may fail | `Failover` |
| Bootstrap, services, scheduler, watchdog, health (`engine/bootstrap`, `core/lifecycle.py`, `scheduler`, `monitoring`) | service states, jobs, restart budgets | a restart racing a stop; a scan that awaits; hooks that raise or hang | `Supervision` |
| Stream and feed (`market/stream`, `market/providers`, `market/feed`) | socket, subscriptions, order book | snapshot against updates; reconnection; tables walked with suspensions | `MarketStream` |
| Collector, candles, state, storage (`market/collector`, `market/services`, `market/storage`) | queue, series, buffers | two producers of one series, late data, failing storage | `MarketTape` |
| Strategy, signal and decision engines, consensus (`engine`) | live signals, timers, decisions | state read before an `await` and used after it; signals consumed twice | `SignalFlow`, `Deliberation` |
| Indicators and strategies (`analytics`, `strategies`) | none | repainting, mirrored logic, levels on the wrong side | `PriceAction`, `StrategyLibrary`, `Studies` |
| Live gate, approval, mode, Safe Mode (`production/live`, `production/safe_mode`) | last report, approval and its file, streak | a cached report outliving its reasons | `LiveGuards` |
| Documentation queue (`documentation`) | queue file | a flush racing appends, torn lines, a rewrite that truncates and fails | `SyncQueue` |
| Backups (`production/backup`) | archives, manifests | threads without a lock, files that cannot be removed | `Backups` |
| Runtime configuration (`dashboard/api/config_store.py`) | overrides, their file | a patch refused half way | `RuntimeConfig` |
| Model registry (`ml`) | records, model files, active model | two files per model, rollbacks, drift | `ModelRegistry` |
| Backtesting (`backtesting`) | the process's clock, a decision source, datasets | shared by threads | `Replay`, `Laboratory` |
| Research (`research`) | candidates, paper trials, experiments, append-only logs | memory ahead of its log | `Candidates`, `Experiments` |
| Event bus (`core/events`) | bounded queue | stop with a deadline, handlers that raise | `EventBus` |
| Strategy governance, evaluation (`ml/meta`, `engine/evaluation`) | streaks, weights, virtual trades | verdicts out of order, counted twice | `MetaGovernance`, `VirtualTrades` |
| Feature Store, history writer (`engine/feature_store`, `engine/state_manager`) | cache, buffers | concurrent misses, values drawn from other cached ones; a stop in mid flush | `FeatureCache`, `HistoryWriter` |

Not modelled: market data records, normalizers and SQL; learners, features and
ensembles; research generators, optimisers and reports; dashboard pages,
notifications, metrics, reports, updates, security, licences. They are formats,
arithmetic, or input and output; what an operator does through them that
changes state reaches a modelled service and is an action there.

### How the parts interact

Ticks, trades and books reach the feed, which publishes them on the event bus;
the collector folds them into candles, whose closing wakes the strategies;
strategies hand signals to the signal engine, the decision engine turns them
into decisions, and the execution engine turns a decision into a position that
its own loop then manages. The scheduler drives everything periodic
(heartbeats, captures, flushes, Safe Mode, the daily cut-off); the watchdog
restarts what has fallen silent. Files tie one process to the next: snapshot,
journal, kill switch, lease, approval, overrides, registry, research logs,
queue.

## 2. Modules

| Module | What it models | Checked by | Theorems in |
|---|---|---|---|
| `ExecutionEngine` | decisions, management pass, settlement, limits, breaker, kill switch | `trading`, `breaker` | `ExecutionEngine_proofs` |
| `TradeBook` | abstract: open, close once, never above the limits, journal in order | refined by `trading` | `ExecutionEngine_proofs` |
| `PositionLifecycle` | one position: stop moves and exits | `managed` | `RestartRecovery_proofs` |
| `RestartRecovery` | three files, captures, stop, crash, boot | `restart` | `RestartRecovery_proofs` |
| `Failover` | the lease, several nodes | `election` | `Failover_proofs` |
| `BrokerReconciliation` | the book against the MT5 account | `account` | `BrokerReconciliation_proofs` |
| `Supervision` | services from boot to exit, watchdog, health, scheduler | `supervised` | `Failover_proofs` |
| `MarketStream` | socket, announcements, one order book | `stream` | `MarketStream_proofs` |
| `MarketTape` | collector, candles, warm-up, storage | `tape` | `MarketStream_proofs` |
| `SignalFlow` | strategies, signals, decisions | `decisions` | `MarketStream_proofs` |
| `Deliberation` | consensus, context, confidence and filters, as operators | `decisions`, `studies` | |
| `PriceAction`, `StrategyLibrary`, `Studies` | indicators and the twenty strategies, as operators; a sliding window of candles | `studies` | `BrokerReconciliation_proofs` |
| `BackOffice` | composes the sixteen desks of the table above | `backoffice` | `BackOffice_proofs`; the desks `Replay` and `Laboratory` in `Laboratory_proofs` |
| `Sums` | no part of the system: sums over finite sets, losing streaks, least elements, and the lemmas about them | used by six proof modules | `Sums` |

`MC<module>` holds the values a configuration cannot write itself. Definitions
named `Mutant_...` stand before the definition they damage: each is a bug the
code could plausibly have, and a property earns its place by failing on one.

The modules meet where one leaves a choice open that another settles.
`ExecutionEngine` lets a pass keep or exit any position it visits;
`PositionLifecycle` says which, and why; `Sizing` says how large it may be.
`RestartRecovery` keeps the managers' state of `ExecutionEngine` and drops
prices. `BrokerReconciliation` replaces the paper broker. `MarketTape` consumes
what `MarketStream` delivers, `SignalFlow` what `MarketTape` closes, and its
signals are those whose levels `Studies` examines. The desks of `BackOffice`
share no state, so each is a module of its own and a behaviour of `BackOffice`
visits one of them.

### Mishaps

Most modules allow everything that may go wrong at any moment: crashes, torn
and failed writes, lost answers, suspended nodes, dead tasks, an operator who
trades. A history variable (`mishaps`, `causes`, `slips`, `spoiled`, `excused`,
...) remembers what has happened, and a property says in its premise what it
does *not* withstand. History variables guard nothing.

### The core, by module

**ExecutionEngine.** State: the last mid price of each symbol, every position
ever opened, balance, peak and counters, the risk ledger, streak, kill flag and
pause, the journal, and where the pass is. `ProcessDecision` is
`process_decision` for a decision that passes: limits (`EvaluateEntry`, in the
order of `RiskManager.evaluate_entry`), fill, commission, registration - one
step, because nothing in it suspends once it holds a quote. `StartPass`,
`KeepPosition`/`ExitPosition`, `RefreshRisk`, `FlattenPosition`, `EndPass` are
`manage_once`. `ClosePosition` is the whole settlement: position, portfolio,
ledger with streak and breaker, journal.

**PositionLifecycle.** A visit marks, applies break-even, applies trailing,
then decides the exit: time, then regime, then stop or target. `Flatten`,
`ModifyStop` and `MoveBreakEven` are the kill switch and the operator.

**RestartRecovery.** `StopController`, `StopRecovery`, `Exit` follow the reverse
start order, with trading and captures going on until their own turn. `Crash`
may strike anywhere; `CrashPersisting` in the middle of rewriting the kill
switch file. With the process up, every write may be refused, which the code
logs and no more: a line of the journal is lost (`LoseLine`), and perhaps cut,
so that the next one is glued to it and lost as well (`frayed`); the kill switch
file stays old or is left truncated (`Refused`); the snapshot stays old
(`Save`). `Boot(unread)` restores the snapshot and applies the kill switch file
on top; `unread` says which of the three files it cannot read, a snapshot that
is too old among them. A kill switch file it cannot read forgets an engagement.

**Failover.** `Heartbeat` reads and decides; `HeartbeatBlind` does so when the
read of a good lease fails, which counts as a lease that has expired (the
mishap "read"). `Truncate` and `WriteLease` are the two halves of `write_text`,
`FailToWrite` its failure. Time is relative and
stops one unit past the lease's lifetime.

**BrokerReconciliation.** `StartPass` is the reconciliation, `Keep`, `Close` and
`RejectedClose` the visits, `BrokerCloses` a stop executed or a manual close
between any two of them, `Enter` an entry, `UnansweredEntry` and
`UnansweredClose` orders executed whose answer is lost, `Restart` a new process
that adopts what carries its magic number.

**Supervision.** The services the settings wire (one of four wirings), each with
its state, its task and its hooks, and the jobs of the scheduler, those of the
market among them (`MarketJobs`). `EngineHookEnds` and `DogHookEnds` are the
returns of the hooks that the engine and the watchdog wait for. `EngineSteps` are start and stop in order,
`DogSteps` the watchdog's scan and its restarts with their `await`s,
`HeartbeatJob` the job that speaks for the services, `TimePasses` the clock.

**MarketStream.** `ConnectionSteps` are the socket's task (connect, receive,
time out, back off), `FeedSteps` subscribe and announce, `BookSteps` snapshot
and updates; drops, silence, lost control events and restarts are the world's.

**MarketTape.** The collector's worker, the flusher of quiet candles, the
warm-up and the writer, each a task that suspends where the code awaits.
`closed` are the candles handed to `_publish`: the bus refuses one only while it
is stopped or its queue is full, and the collector then counts and logs it
(`market/collector/collector.py:380-386`; `EventBus` models the refusal).

**SignalFlow.** `Judge` advances one evaluation or decision to its next `await`;
what it read before is in its record, not in the state.

## 3. What is checked

### Runs

| Run | Properties | Bounds |
|---|---|---|
| `trading` | `CashConservation`, `LimitsHold`, `KillSwitchHolds`, `KillFlattens`, `ImplementsTradeBook` | two symbols in one correlation group, two prices, quantity 1 or 2 filled in full or part, slip 0 or 1, two trades |
| `breaker` | `BooksHold`, `BreakerCoolsDown`, `StreakLockout` | one symbol, three trades, five instants, day and week limits, window of two |
| `managed` | `StopProtects`, `RegimeExitConfirmed`, `StopNeverLoosens`, `HoldingBounded` | seven price levels, both sides, risk 2 or none, ATR distance 1, 2 or none, age up to 3, three readings |
| `restart` | `BooksSurviveRestart`, `SavedIsKept` | two trades, results -1, 0, 2, three journal records, any number of stops, crashes and boots; at most two kinds of mishap and lost lines together (`FewMishaps`), each any number of times |
| `election` | `AtMostOnePrimary`, `LeasesHold`, `LeadershipSettles` | two nodes, lifetime and renewal period 3 |
| `account` | `BookIsKept`, `ExternalCloseNoticed` | one position per symbol (the default), three tickets, any number of restarts and link failures |
| `supervised` | `ServicesHold`, `SupervisionSettles` | four wirings, silence of 1, one restart per service, upsets by wiring |
| `stream` | `BookIsWhole`, `ServedAsShown`, `MarketRecovers` | three venues, three symbols (one routed to a provider that does not exist), two retries, queue of two, versions and faults by venue |
| `tape` | `TapeIsWhole`, `TapeMovesOn` | trades, quotes or bars at prices 0, 1 and 3; buckets of 2, grace 1, buffers of 1, history of 3, five instants |
| `decisions` | `DecisionsHold`, `NothingLingers` | two strategies (on candles, on a timer), two correlated symbols, one perhaps without quote, two signals, two instances, two runs |
| `studies` | `StudiesHold`, `NothingIsRewritten` | eight candle shapes, two of them with an average price of their own, fourteen starting charts in two contexts, a window of seven candles that nine pass through, tapes of four trades, panels of three votes |
| `backoffice` | `LiveIsGuarded`, `FilesAgree`, `BestModelAdvises`, `ReplaysAreHonest`, `ResearchRemembers`, `NewsIsTimely`, `OrdersAddUp`, `VerdictsAddUp`, `StepsAreEarned`, `QueueDrains` | per desk, named in `MCBackOffice_backoffice.cfg` |

A property of the table is a conjunction of named parts, one per hazard, each
with its own comment in its module; one type invariant per module is among
them:

* `BooksHold`: `BooksAgree`, `LimitsHold`. `StopProtects`: `OpenInsideBracket`,
  `BreakEvenLocks`, `TrailingProtectsProfit`. `SavedIsKept`:
  `KillSurvivesRestart`, `EngagementSurvives`, `CapturedNeverLost`.
  `LeasesHold`: `DualIsShort`. `BookIsKept`: `NoOrphans`, `BookedWhenClosed`.
* `ServicesHold`: `NeedsAreUp`, `ShutdownIsComplete`, `RestartsAreEarned`,
  `JobsSurviveRestart`, `HealthChain`. `SupervisionSettles`: `SilentIsHandled`,
  `ShutdownEnds`.
* `ServedAsShown`: `SubscribedIsServed`, `ConnectedListens`, `OneSocket`.
  `MarketRecovers`: `StreamRecovers`, `BookRecovers`.
* `TapeIsWhole`: `TradesInOneCandle`, `PointsInBucket`, `SeriesOrdered`,
  `StoredAsShown`, `RowsAccounted`. `TapeMovesOn`: `QuietCandleCloses`,
  `BuffersDrain`.
* `DecisionsHold`: `SignalsAccounted`, `DecidedOnce`, `OneVoice`,
  `CorrelatedApart`, `JobsMatchStrategies`.
* `StudiesHold`: `MirroredSignals`, `LevelsHold`, `OnlyTheDisplacement`,
  `ProfileWhole`, `CvdEndsAtDelta`, `MirroredVotes`. `NothingIsRewritten`:
  `PivotsStand`, `GapsOnlyFill`, `SupportKeepsTheWinner`.
* The ten of `backoffice` are spelled out, desk by desk, in `BackOffice`.

Why the bounds are enough for the cases that matter:

* `trading`: two positions let a pass close one while the other waits, engage
  the switch by drawdown in between, and reach the per-symbol limit with room
  elsewhere; the total limit needs a third entry and is checked in `breaker`.
* `breaker`: three closes are a breach, a close during the pause and one after
  it; five instants hold a whole window, a whole pause and a new day.
* `managed`: a risk of two levels puts one multiple of it at 12 (or 8) and
  leaves one level to trail into; two distances let the ATR widen after a trail;
  three readings are the two that confirm and one that interrupts.
* `restart`: two positions can be on either side of a capture; the third
  journal record lets a position that came back be closed again. A premise
  excuses by kind of mishap, and two kinds together show that one does not hide
  another's damage; any combination is proved.
* `election`: with the renewal period equal to the lifetime, the boundary
  `age <= TTL` is reached by a live node.
* `account`: three tickets are the engine's position, the operator's, and the
  one opened after a settlement.
* `supervised`: one restart per service exhausts its budget; four wirings have
  every dependency between two services at least once.
* `stream`: a queue of two overflows with one snapshot in flight; two retries
  are the give-up and one success before it.
* `tape`: five instants are two whole buckets, the grace and a late message;
  history of three drops its oldest, which only a few behaviours of five
  instants live to see.
* `decisions`: two signals are one pair to agree, to conflict, or to be
  correlated; two runs suspended at once are what `await` makes dangerous.
* `studies`: a pivot needs two candles on either side, a gap three, a mitigation
  or a repaint one more. A window of seven holds two pivots and lets the older
  one leave: two candles more than it holds are enough for the label of the
  younger to be revised.
* `backoffice`: every queue, window, buffer, streak and retention is at its
  limit after two or three steps; two threads, callers or handlers interleave.
  The live gate keeps one configuration and the Feature Store two keys, the one
  drawn from the other; settings that change at a restart, and any number of
  keys, are in the theorems (`GuardsHold`, `NewsArrivesInTime`).

Every limit on trades, tickets, records, readings, entries and time is a named
constant in a guard. `CHECK_DEADLOCK FALSE` is said where the system really
stops or its inputs are bounded: `managed`, `supervised`, `stream`, `tape`,
`studies`, `backoffice`.

### Fairness

* `ExecutionEngine`, `BrokerReconciliation`: weak fairness of starting a pass
  and of each of its steps. The manage loop sleeps and runs a pass for ever and
  survives its exceptions (`execution/execution_engine/engine.py:305-312`).
* `PositionLifecycle`: weak fairness of visits and of the clock, likewise.
* `Failover`: weak fairness of the clock and of each node's heartbeat, which the
  scheduler's loop calls again whatever the last call did
  (`scheduler/scheduler.py:121-145`). Processes get none: `LeadershipSettles`
  assumes explicitly that they stop dying from some point on.
* `Supervision`: weak fairness of the engine's, the watchdog's and the
  heartbeat's own steps and of the clock: tasks of one event loop, none of which
  blocks it. The ends of hooks get none: they are awaited without a timeout
  (`core/lifecycle.py:66,84`, `monitoring/watchdog.py:198`). `SilentIsHandled`
  has the return of the watchdog's hooks for a premise, `ShutdownEnds` that of
  the engine's, and neither needs the other's.
* `MarketStream`: weak fairness of the tasks of connection, feed and book; the
  exchange gets none.
* `MarketTape`: weak fairness of worker, flusher, warm-up, writer and clock.
* `SignalFlow`: weak fairness of the suspended evaluations and decisions.
* `SyncQueue`: weak fairness of the flush, which the scheduler repeats every 300
  seconds (`engine/engine.py:342-347`). `QueueDrains` says that the queue drains
  of all but the entries Notion rejects, once Notion answers for good and as
  long as the file can be decoded.

### Where the code and its documents part

Sentences of the repository the code does not keep. No run is spent on them;
the premises of the properties exclude exactly these cases.

| Sentence | What the code does |
|---|---|
| "Un kill switch que se olvida al reiniciar no es un kill switch" (`config/settings.py:918`) | a drawdown engages the Risk Manager's own flag, which no file has until the next capture; a crash before it forgets the switch. An engagement of the controller is forgotten when its file refuses the write or the read: either is logged and the process goes on (`production/kill_switch/controller.py:268-272,279-283`) |
| recovery restores "posiciones, contabilidad, riesgo y journal" (`docs/architecture.md:970-972`) | the ledger behind the period limits and the breaker is in no file; even a clean restart trades on |
| a node that cannot read the lease is standby "nunca al revés" (`production/failover/coordinator.py:8-10`) | an unreadable file is taken as an expired lease, and so is a good one whose read fails (131-136): the node takes it, and there are two primaries |
| tickets serve to detect positions "que ya no existen en la cuenta real" (`brokers/mt5/broker.py:191-200`) | an unreachable terminal gives the empty set, and live positions are settled |
| "para no cerrar la que no corresponde" (`brokers/mt5/broker.py:246-248`) | the oldest opposite position of the symbol is closed, the operator's included |
| "el consenso del Decision Engine resuelve el conflicto" (`docs/strategies.md:259-260`) | each strategy asks for a decision as soon as its own signal is admitted, and a decision consumes every live signal (`engine/strategy_engine/engine.py:361`, `engine/decision_engine/engine.py:195`): opposite signals can both be accepted |
| "ninguna variable se calcula dos veces en la misma ventana" (`engine/feature_store/store.py:3-8`) | two callers that miss at once both compute, and the older may overwrite the newer; nor is what is served always younger than its time to live: features drawn from cached bands are up to twice as old (272-308), and a price lent by the cache outside up to an hour older (`market/services/market_data.py:68-76`, `market/cache/market_cache.py:26,104-110`) |
| history of signals and decisions, "nunca se borra información" (`config/settings.py:585`) | a full buffer drops its oldest rows, a stop loses the batch in hand and whatever exceeds one batch |
| the entry "no se pierde" (`documentation/backends.py:4`) | those appended while a flush is sending are overwritten by its rewrite; a rewrite truncates the file first, and when it then fails, which is logged, it takes all the rest with it (249-255); a line cut by a crash merges with the next, and one cut inside a character makes every later flush raise, for `UnicodeDecodeError` is not caught (226-234); an entry Notion rejects is queued again for ever (180-183, 246-247) |
| the connection watch "fuerza resincronización del libro cuando el dato se enfría" (`market/scheduler/jobs.py:5-6`) | it logs a warning for a symbol without a live connection and does nothing else (42-45): a book that was lost, whose snapshot could not be fetched or was dropped, is not asked for again. `BookRecovers` excuses exactly those |
| "el primer retorno a la zona suele reaccionar" (`strategies/smc/order_block.py:1-5`), "su primer retest" (`docs/strategies.md:114-117`) | a candle that returns to a block mitigates it, and mitigated blocks are refused (43-63): the one candle on which the strategy can trade is that of the displacement itself (`OnlyTheDisplacement`) |

### Seen while modelling

*Money and orders.*
The balance read from a demo account already holds an external close that is
then settled again, so for one pass it is counted twice: the peak is inflated
or the kill switch tripped (`execution/execution_engine/engine.py:485`); a demo
restart overwrites the restored peak (`execution/portfolio_manager/manager.py:88`).
A win is judged without the opening commission, the journal with it.
Exposure mixes units: a new entry counts lots times contract size times price, a
held one lots times mark (`engine.py:953-958`, `positions.py:109-111`); realised
P&L ignores the contract size. A stop is set from the reference price, and an
adverse fill of 50 bps may land beyond a 0.15 % stop. A partially filled entry
order stays active for ever and `_orders` is never pruned; a close without fill
leaves its order pending; a symbol in two correlation groups counts twice.
`_apply_break_even` sets the stop without comparing it
(`execution/position_manager/manager.py:262`): with `break_even_r` above
`trailing_activate_r` it takes back a trailed stop.

*Restarts and nodes.*
After a crash between a close and the next capture the position comes back and
is journalled twice (`production/recovery/service.py:192`). One refused write of
the journal may lose two trades: half a line glues the next record to itself,
and `_restore_journal` skips both. A node suspended
past its lease calls itself primary until its next heartbeat, and no service
asks `is_primary` at all: a standby trades like the primary. After a lost link
the engine opens a second position on a symbol that has one in the account.

*Supervision.*
A watchdog restart of the API service leaves uvicorn's `should_exit` set, so it
dies again and its budget is spent. A cancellation that reaches the watchdog
while it awaits a stop hook is swallowed, and the shutdown hangs. A stop that
crosses a restart leaves a service running. A stall of the loop restarts
healthy services. Budgets are never refilled. The health monitor never reports
a service as exhausted.

*Market.*
A REST snapshot without sequence disables gap detection, and the order book
keeps no update from before it (`orderbook_manager.py:51-90`). The table of
subscriptions is a dict walked across `await`s: growing it kills the task while
the state says CONNECTED. Sockets leak on a failed announcement. A price is
compared with the last accepted trade, so a real jump blocks the tape. A quiet
bucket is reopened by a re-emitted MT5 tick, and MT5's forming bar is marked
closed. A ticker never expires.

*Decisions and studies.*
The deduplication window has no effect; weights, method and history factor have
setters nobody calls; consensus has two voices only while a decision is
suspended, so `min_signals` above 1 is never met. The correlation filter sees
the last 50 decisions. External liquidity can never be swept, and a cluster's
member may sweep its own pool; `structure_breaks` repaints (`smc.py`, 411-425).
Targets of several strategies may lie behind the entry, which `_risk_reward`
hides by `abs`. A pivot forgets its label when the pivot it was judged against
leaves the window of 120 candles. The feature cache is not emptied at a candle's close.

*Models and research.*
Nothing outside `ml` asks for a prediction or records an outcome, so advice is
unused and a live AUC never measured. Voting ensembles cannot be saved: the
record stays, the model does not, and it bars new ones. Journal trades carry no
strategy label, so governance sees one strategy only and applies its weights
nowhere. A torn last line of any research log stops the next start. Paper
trials are in memory only. `bool("false")` from the HTTP caller is true.

*Backtesting.*
The clock is a global of the process: while a backtest of the dashboard runs in
a thread, the live engine reads simulated time; overlapping replays that end in
the order they began leave it at a finished replay's last bar
(`utils/time.py:53`). `reset()` keeps the context engine and regime detector.

*Guards and files.*
Recent errors never expire, so Safe Mode entered by errors ends with a restart
only. Several gate inputs are never collected, so the gate cannot approve.
`revoke()` says "immediately", but the last report counts up to 300 s; an
approval whose file could not be removed is back after a restart. Restoring a
backup extracts by name into the parent of the backup directory, the wrong
place for some sources; an archive a crash left without manifest is never
rotated, and one whose file cannot be removed stays above the retention. A patch refused half way stays applied and unsaved. The daily cut-off
fires only if the 60-second job runs within its minute. Events left by a stop
that timed out are dispatched after the watchdog's restart.

## 4. What is proved

The theorems hold for every value of the constants that satisfies the named
`ASSUME`s of the module that declares them. These are the types of the settings
and what the code enforces or presupposes of them: a finite set of symbols,
`Renew <= TTL`, a recovery of at least one cycle (`GuardAssumption`), at
least one kept backup (`BackupAssumption`: rotation takes `max(1, ...)`), a
lookback and a disabling streak of at least one (`MetaAssumption`), a window of
at least one candle (`TrackerAssumption`), orders of a positive quantity
(`OrdersAssumption`), an empty conclusion among the conclusions
(`ExperimentsAssumption`), a bucket that fits into the run's clock and a price
that can be traded at (`TapeAssumption`), weights of strategies that are not
negative (`ChartsAndVotes`: `set_weight` cuts them at 0, the settings are not
looked at), candles whose prices are in order (the validator discards the
others), an initial capital above zero and a ruin between 0 and 100 per cent
of it (`StudyAssumption`), and so on. TLC evaluates each on its run.

| Module | Theorems | Argument |
|---|---|---|
| `ExecutionEngine_proofs` | `TypeCorrect`, `LimitsRespected`, `KillHolds`, `BreakerHolds`, `StreakLocks` | `TypeOK` is not inductive: a fill has a price only because a symbol with a position keeps its quote. `IInv` adds that (`PositionsQuoted`), that a pass holds only open positions (`PassHoldsOpen`), that no ledger entry lies in the future (`LedgerInThePast`) and that the pause reaches a full window past every breach (`PauseCoversBreaches`) |
| | `BooksKept`, `CashConserved` | each close lengthens journal, counters and streak together; the sums move by what one entry adds, which `Sums` proves without recursion (below) |
| | `EngineImplementsTradeBook` | step by step: each action is an opening, a close, a halt or its end of the abstract book, or leaves it alone |
| | `NoTradeLost`, `EngineLosesNoTrade` | what is opened is open or in the journal, once: of the abstract book (`TB!Spec`), and through the refinement of the engine |
| `RestartRecovery_proofs` | `TypeCorrect`, `EngagementHolds`, `KillRemembered`, `NothingCapturedIsLost`, `NothingSavedIsLost` | one strengthening per theorem: unless it was torn, or refused a write or a read since it was last written, the file records a controller's engagement and every running process agrees with it (`Enforced`); what memory, or after a stop the snapshot and the file together, say of the switch (`Remembered`); everything captured is in the current snapshot, in the journal, or a trade whose line was lost (`Kept`) |
| | `BooksSurvive` | the managers square with the journal while the process runs, the snapshot from the last capture of a clean stop until the boot (`Squared`) |
| | `PositionTyped`, `InsideBracket`, `TrailingEarned`, `BreakEvenKept`, `Ratchet`, `StopIsKept` (of `PositionLifecycle`) | `StopDiscipline`: before break-even and trailing the stop is the initial one, after break-even it is at the entry or beyond, and trailing implies break-even when the thresholds are in order. One lemma per stage of a visit, then one for the visit |
| | `RegimeExitsConfirmed` | the counter is the length of the adverse run at the end of the readings (`AdverseRun`, `Streak`) |
| `Failover_proofs` | `TypeCorrect`, `OnePrimary` | while calm (`Calm`: no race, no stall, and no good lease that could not be read): a running node is never late (`Punctual`), a heartbeat under way is alone and nobody else is primary (`Exclusive`), a primary's lease is in the file and no older than its heartbeat (`Backed`) |
| | `RacesAreShort` | two primaries last no longer, counted from the last blind read, than the deposed one has been without a heartbeat (`Outlived`), a primary's lease is as young as its heartbeat or being rewritten (`YoungLease`), and meanwhile one node at most is past its decision (`OneWriter`) |
| | `ServicesAreKept` (of `Supervision`) | the services of a wiring come by rank, so the engine's position in their order says what state each is in: behind a start they run, ahead they are as created (`BootIsInOrder`), and a stop mirrors it unless a restart crossed it (`StopIsInOrder`). A failure is among its causes (`FailuresAreKnown`), and a component nothing happened to answers every heartbeat (`BlamelessAnswers`), so a restart was earned |
| `BrokerReconciliation_proofs` | `TypeCorrect`, `BookIsTheAccount`, `BookKept` (for one position per symbol) | while quiet the book holds at most one position and contains the account; then the ticket a close finds is its own (`OwnTicket`) |
| | `RewritesNothing` (of `Studies`) | the neighbours of an old pivot are old candles (`NeighboursOfOld`), and its label looks back only (`LabelRead`). When the oldest candle leaves, every position moves down by one: pivots and gaps in one form for any window (`PivotsInOneForm`, `SwingsInOneForm`) slide with it (`PivotsSlide`, `GapsSlide`), and a label either is judged against the same earlier pivot or loses it (`EarlierShift`, `LabelIs`). One candle more lowers the least low and raises the greatest high since a gap (`LessIsLeft`); a vote adds a non-negative weight to its side, whatever the method (`MassGrows`, `BalanceGrows`) |
| | `VotesMirror`, `NoTradeIsLost`, `ReturnsAreRefused` (of `Studies`) | three conjuncts of `StudiesHold`. Turning every signal over swaps the two sides of each method and leaves the stakes (`TurnedOver`, `StakesTurned`). The first so many buckets are the trades up to a place (`BucketsReach`), so their deltas add up to that place's (`CvdIsTheDelta`). A block that is not mitigated was not touched by any candle after its displacement |
| | `LevelsAreInOrder` (of `Studies`) | a fraction in lowest terms is the quotient it was made from (`GcdDivides`, `FractionRead`), so levels compare as integers do (`FractionCompares`). Moving a level by a positive distance puts it on its side (`Moved`), hence `StopBehind` and `TargetAhead`; the ATR is positive (`AtrTyped`), the last close lies within what the last candles spanned (`LastInRange`) and strays from their mean to one side (`StraysOneWay`, from `SquareOfTheSum`). Then one lemma per strategy |
| | `ProfileKeepsVolume` (of `Studies`) | the shares a candle leaves over the bins telescope, each being what its range has filled up to a bin's end less what it had up to its start (`Telescopes`, `SpreadShare`); adding up the bins or the candles is the same (`ColumnsAsRows`). The value area grows by a bin at a time (`AreasGrow`) and never lets go of the point of control (`AreaHolds`) |
| | `GradesHold` (of `Studies`) | weights that add up to a hundred keep grades within a hundred (`WeighedGrades`, `ScoreWeightsAddUp`, `ConfidenceWeightsAddUp`); whatever a strategy answers is a setup for one of the two sides (`EvaluationSound`, over the twenty); a share of a whole is a grade (`ShareIsGrade`), and the winner's stake is a share of all stakes (`ConsensusGraded`) |
| `MarketStream_proofs` | `BookWhole` | the book shown has every update up to its version unless an unnumbered or lost one made that unknowable |
| | `StreamServes` | what the feed wants (`Wanted`), what the task of the connection is about to do (`TaskRuns`), what the socket has been told (`Told`) and which sockets are open (`SocketsCounted`) agree at each suspension |
| | `TapeStaysWhole` (of `MarketTape`) | trades are numbered apart (`Named`), so the candles partition those let through (`HandsApart`); candles that left a hand lie before a horizon (`InTime`), which keeps the series and what the writer takes of it in order (`InOrder`, `RowsKnown`); and every row is in one of seven places (`Placed`) |
| | `SignalsAreDecided` (of `SignalFlow`) | a decision that is never suspended consumes what asked for it before anything else runs, so nothing is ever seen alive (`Prompt`); alive is what nothing is recorded of (`Accounted`); the filter sees as many decisions as it is given, the latest (`FilterSees`), which with `Prompt` are those of now |
| `BackOffice_proofs` | `NewsArrivesInTime` | the bus: the queue is increasing, what a handler has seen is older than what waits (`BusOrder`), and what `join()` waits for is what is queued or in hand. The feature cache, whose lemmas are in `Laboratory_proofs`: what an entry tells of is no older, at its stamp, than the bands it was drawn from and the cache outside allow (`InTime`); an undisturbed key is computed by one caller since it was last found missing (`OneAtATime`, `Accounted`), and what is told only moves forward (`Ordered`) |
| | `GuardsHold` | a revoked approval survives on disk at most (`RevokedInMemory`), whatever would refuse a report that approved came after it (`ReasonsAreNewer`), and passing means measured (`PassingIsMeasured`) |
| | `ResearchIsEarned` | what is on file was earned when it was filed (`WellEarned`), and a batch is filed genome by genome, so that a cut between two of them leaves a prefix (`Filed`) |
| | `OrdersAndSizesHold` | orders: a group has one filled sibling or none (`GroupStands`), every counter is the size of a set of orders (`CountersAddUp`). Sizes: the chain of factors only reduces (`NoMoreChained`), and rounding down to the step keeps what it started from (`LeastLot`) |
| | `ModelsAreEarned` | the stack of a rollback is a chain of improvements (`Merited`), and a registered model's files answer for it (`Answers`, `RegistryStands`) |
| | `FilesHold` | `QueueInv`: each entry is on one line, told at most once unless excused, and what a failed rewrite leaves of the file is a part of it; `HistoryInv`: buffers are contiguous and what left is older than what has not; `BackupInv`: the list is the manifests, each once, and a backup in the making is nobody else's; `ConfigInv`: what is shown is what was saved over the defaults |
| | `VerdictsHold` | `MetaInv`: the failures counted are the bad verdicts at the end of the list, and activity follows their number; `TrackerInv`: what is tracked is open or ended (`OpenOrEnded`), and every later candle was looked at (`PassedByIsKnown`) |
| | `ReplaysHold` | the lemmas are in `Laboratory_proofs`. `ReplayInv`: a source holds the bars since its reset (`Feeding`), and unless two replays overlapped the one on the clock has put the wall clock away (`ClockInTurn`). `StudyInv`: the cursor stands where the player's state says (`Placed`). The judgements need their arithmetic: the folds that fit are the first so many numbers (`StepsThatFit`), a total squared is at most the number of its non-zero addends times the sum of their squares (`SquareOfTheSum`), the worst fall kept is as deep as every fall before it (`OnPath`), and a finite set of times has one time for every rank (`EveryPlaceTaken`) |
| | `StepsHold` | an action property, from the invariants above together (`StepInv`): one lemma per desk |

Two instruments are shared. A property that sums or counts over data of any
length cannot be proved by the library's induction theorems, which take an
operator as a parameter. `Sums` goes round this with sets: the lengths at which
two functions disagree are a set of naturals, a non-empty one has a least
element, and there the recursive function of `SumFunctionOnSet` contradicts it.
The fold along a simulated path (`SimulatePath`) is unrolled in the same way.
And the desks of `BackOffice` share no variable: a lemma per desk carries its
invariant through its own actions, one lemma says that the visits to the other
desks leave it alone.

What the attempts found out about the models:

* `SeriesOrdered` was false beyond the bounds TLC used: a bar that was sent and
  queued before the warm-up's fetch, and taken after it, follows a newer one of
  the history. `Overtaken` is now said of feeds of bars too.
* The validator compares a trade with the last one only when both prices are
  positive, and the tape starts from a positive price; prices now include 0,
  which is refused.
* `LevelsHold` is not said of a breakout from a range without height: the target
  of `RangeBreakout` is then its entry, and the validator refuses the signal. A
  flat chart among those of the run shows it.
* `OutOfSample` needed no hypothesis on the step: windows that overlap in their
  tests are out of sample too. It is stated without.
* `StableNeverLoses` holds for any folds, because of two conditions together: a
  deviation no larger than the mean, and three profitable folds in five. With
  the losses in two folds of five, their squares weigh too much for a negative
  total to be steady. Neither condition is enough alone.

Only model-checked:

* `StudiesHold` as a whole. `MirroredVotes`, `CvdEndsAtDelta`,
  `OnlyTheDisplacement`, `LevelsHold`, `ProfileWhole` and `StudyTypeOK` have
  their theorems. `MirroredSignals` compares eight strategies on two charts,
  through sums and fractions along eight different paths.
* Liveness: `KillFlattens`, `HoldingBounded`, `LeadershipSettles`,
  `ExternalCloseNoticed`, `SupervisionSettles`, `MarketRecovers`,
  `TapeMovesOn`, `NothingLingers`, `QueueDrains`.

## 5. Assumptions of the models

* One event loop. `EventBus.publish` enqueues and never suspends, and the paper
  broker and the MT5 calls are synchronous, so a decision and one visit of a
  pass are atomic. Errors of event publication are suppressed by the engine
  (`execution/execution_engine/engine.py:1099-1104`).
* Where the code does suspend, or runs in a thread, the model has a step on
  either side: `Supervision`, `MarketStream`, `MarketTape`, `SignalFlow`, and
  the desks `SyncQueue`, `Backups`, `Replay`, `EventBus`, `FeatureCache`,
  `HistoryWriter`.
* A boot is one step: nothing suspends between `RecoveryService.start` and the
  controller's, and the periodic jobs are registered after every service.
* `FailoverCoordinator.release` is called by nothing. A stop leaves the lease
  behind, as a crash does. The nodes' clocks agree.
* The engine's stop moves stay in its book: they are never sent to MT5.
* `BrokerReconciliation` is the default configuration without the production
  layer: a restart restores no snapshot and adopts what the account holds.
* Prices and money are integers. Rounding (of the drawdown to 4 decimals, of a
  trailed stop to 8) is left out; lots are rounded, in `Sizing`.
* Cash is modelled with the paper broker only.
* A file written by `write_text` is written, left as it was, or truncated,
  whether the process dies or the disk refuses; one line appended is written
  whole, lost or cut. A file that is replaced is replaced or left.
* An exception inside an evaluation that has already submitted its signal is
  not modelled in `SignalFlow`: it would leave the signal live until the next
  decision or its expiry. Nor is, in `Candidates`, an append that raises in the
  middle of a cycle with the process staying up: it cuts the cycle where a crash
  would, but keeps the memory that is ahead of the log.

## 6. Not modelled, and what is left

The parts at the end of section 1 stay out, and so do statistics, events that
nobody acts on, and texts. Every safety invariant that a run checks has its
theorem except `StudiesHold`, of which six conjuncts have theirs. What is left
to prove is the seventh, the mirrored indicators (`MirroredSignals`).
