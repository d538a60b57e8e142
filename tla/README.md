# A TLA+ model of the trading system

This directory models the parts of the trading system (`src/`) whose correctness depends
on the order in which things happen: locks between processes, safety checks on shared
database handles, orders that are applied while runs are cut off, threads that start and
restart processes, a ledger that is filled and summed up by runs that
overlap and die. TLC checks the models on small instances; TLAPS proves the theorems for
every value of the constants.

## 1. The system

The system is a set of Python scripts around one SQLite file in WAL mode. A
supervisor (`jobs_manager.py`, `pipeline_runner.py`) starts scripts as child
processes: daemons that poll prices and news, and one-shot jobs that turn events
into predictions, predictions into alerts, alerts into portfolio orders, and
orders into positions at a simulated or a real broker. The processes share
nothing but the database file; within a process threads share module globals.
`src/` holds no README and no test suite; the docstrings and comments quoted
below are what the code says of itself.

### 1.1 Components, their state and what makes them correct

| Component | State | Operations | Interacts through | Hard behaviour | Correct when |
|---|---|---|---|---|---|
| Job locks (`storage.py`) | rows of `job_locks` | acquire, touch, release | every job script | clock read before a 30 s wait; crash; stale takeover | leases exclude each other, only a holder frees its row, a dead holder is replaced |
| Pipeline and job locks (`jobs_manager.py`) | the same table, column `expires_ms` | `_acquire_lock`, `_release_lock` | pipeline loop, job starts | check and write in two transactions, release by name | one pipeline at a time |
| Job manager (`jobs_manager.py`) | `JobState`, `_jobs`, child processes, two kinds of `threading.Lock` | start, stop, stop_all, watchdog, output pump, list | dashboard threads | non-reentrant locks, restart against stop | no deadlock, a stopped job stays stopped |
| Connections (`storage.py`) | one handle per thread in `_TLS` | connect, close | everything | a callee closes its caller's handle | a function's handle stays open while it runs |
| Kill switch (`kill_switch.py`) | `kill_switch_state`, `kill_switch_audit` | set, clear, execution_allowed, auto expiry | monitors, brokers | fail-closed reads, expiry against a new activation | a switch that is on stops execution, each change is audited |
| Capital guard (`capital_guard.py`, `risk_state.py`) | keys of `risk_state` | trading_allowed, release, preservation mode | kill switch, portfolio | several transactions per decision | a halt lasts its cooldown, hysteresis holds |
| Execution mode (`execution_mode.py`) | `execution_mode`, audit | get, set mode, set armed | circuit breaker, stability guard, dual execution | nested use of a handle | a breach disarms |
| Monitors (`kill_*_monitor.py`, `live_stability_guard_job.py`, `health.py`) | none | read, then switch | kill switch, execution mode | a swallowed exception looks like success | a breach ends with the switch on |
| Paper broker (`broker_sim.py`) | account, positions, fills, order states, meta | apply a batch, mark to market | router, kill switch, ledger | autocommit between position and cash; repeated batches | targets are reached, nothing is traded twice, worth is conserved |
| Broker router (`broker_router.py`) | none (results of adapters) | chain, gate, slices | adapters | failover after partial execution | an order is not executed twice, ok means executed |
| Execution ledger (`execution_ledger.py`) | orders, fills, metrics | log_submit, log_fill, attribution | adapters, pollers | redelivered and partial fills | each fill counts once |
| Execution job (`broker_apply_orders.py`) | none | lock, gates, shape, route | all of the above | lock outlived | gates before orders |
| Alpha lifecycle (`alpha_lifecycle_engine.py`) | alpha rows | register, expire | execution policy | register after expiry | an expired alpha is not traded |
| Event processing (`process_events*.py`) | checkpoint, predictions | process one event | pollers, models | crash between insert and checkpoint | each event once |
| Price streams (`polygon_ws_live.py`, `poll_prices.py`) | buffer, subscriptions | connect, subscribe, flush | providers | reconnect, failed flush | wanted symbols are subscribed, ticks are stored |
| Portfolio (`portfolio.py`) | state, orders | compute_rebalance | alerts, guard | numerical | weights within limits |
| Models and promotion | registry | train, promote | predictor | statistics; `model_registry.py` does not parse | one champion |
| Dashboard, API, UI | none of its own | read, start jobs | job manager | presentation | |

`PROJECT.json` lists the components with their files and status, and the
hazards with the line at which each one bites.

### 1.2 Code that does not run at this commit

Some files do not parse: `dev_core/model_registry.py`, `train_embed_models.py`,
`calibrate_price_confidence.py`, `compute_exec_labels.py`, `label_due_events.py`,
`dev_core/clustering.py`, `dev_core/drift.py`, `dev_core/shadow_trainer.py` and
`dev_core/temporal_encoder.py`. They are not modelled, and neither is the dashboard
(`dashboard_server.py`, `api_handlers.py`, `server_boot.py`), which needs something that is
missing.

Other scripts parse but do not get past an import, because a module they import does not
parse or does not exist: the `process_events` scripts, the predictor, the embedding
regressor, `evaluate_strategies.py`, `portfolio_backtest.py`, `trade_pipeline_job.py`,
`broker_apply_orders.py`, both `execution_policy_engine` modules, and the Alpaca adapter
`broker_alpaca_rest.py`, which wants `dev_core.execution_microstructure` (line 34) while the
file is `src/execution_microstructure.py`. They are modelled as they would run with the missing
modules in place: what is said of them is said of their own code. A name that is used and defined nowhere is a statement that raises (`Mismatch`), and
so is a call with arguments that the callee does not take.

`jobs_manager.py` loads, but its `start` waits for itself before it starts a process (see
2.6). The models of jobs, monitors and brokers take their scripts as started by other
means, such as a shell.

## 2. The modules

| Module | Models | Kind |
|---|---|---|
| `Lease` | what `acquire_job_lock` promises | abstract specification |
| `JobLock` | `acquire_job_lock`, `touch_job_lock`, `release_job_lock` | implements `Lease` |
| `JobLockProofs` | | theorems about `JobLock` |
| `PipelineLock` | `_acquire_lock`, `_release_lock` around `run_pipeline` | |
| `PipelineLockProofs` | | theorems about `PipelineLock` |
| `Statements` | the statements that functions are built of | vocabulary |
| `SafetyCode` | storage, kill switch, guards, execution mode, health, monitors, preflight | 58 functions |
| `IngestCode` | pollers, providers, universe, feature jobs | 101 functions |
| `EventCode` | event scripts, predictors, alerts, rules, decision log | 86 functions |
| `ModelCode` | training, evaluation, calibration, promotion, strategies | 87 functions |
| `TradingCode` | portfolio, policy, brokers, ledger, analytics | 159 functions |
| `FunctionTable` | the functions by name | composes the five |
| `Scripts` | one thread that runs any of them on its shared handle | parameterised by the table of functions |
| `ScriptsProofs` | | theorems about `Scripts`, for any table |
| `Rebalance` | what the portfolio job is promised by the paper broker | abstract specification |
| `BrokerSim` | `apply_new_portfolio_orders` of the paper broker | implements `Rebalance` |
| `BrokerSimProofs` | | theorems about `BrokerSim` |
| `Dispatch` | what `apply_new_portfolio_orders_router` promises | abstract specification |
| `BrokerRouter` | `apply_new_portfolio_orders_router`, gate, slices, fallbacks | implements `Dispatch` |
| `BrokerRouterProofs` | | theorems about `BrokerRouter` |
| `JobManager` | `JobManager`, `JobState`, the watchdog and the pumps | |
| `JobManagerProofs` | | theorems about `JobManager` |
| `ExecutionLedger` | `execution_ledger.py`, filled by `execution_poll_and_attrib.py` | |
| `ExecutionLedgerProofs` | | theorems about `ExecutionLedger` |
| `RiskControls` | the halt and the preservation mode of `capital_guard.py` | |
| `RiskControlsProofs` | | theorems about `RiskControls` |
| `MC...` | bounds, fairness and liveness for TLC | |

### 2.1 JobLock

State: the wall clock `now`, the row of one job (`row`), and for every process
what it is doing (`pc`), the clock value it carries (`seen`) and, as a ghost, the
heartbeat it last stored (`beat`). `AcquireBegin` reads the clock; `AcquireCommit`
and `AcquireRefused` are the transaction, `AcquireError` its `except`; `TouchBegin`
and `Touch`, `ReleaseBegin` and `Release` are the other two functions; `Crash` stops
a process and leaves its row. A process may stall anywhere for any time. The
clock is assumed not to go back and to be common to the processes.

A process is *in its lease* while it runs and stored a heartbeat at most TTL ago.
`AtMostOneLease` and `OnlyHolderReleases` say what the lock guarantees, and `LeaseSpec`
that the processes in their leases behave as `Lease` allows; `LeaseHasRow` and
`HeartbeatNeverMovesBack`, on which the proofs rest, are theorems. The lock does not stop a
process whose lease ran out: nothing in the code does, and nothing here claims so.

### 2.2 PipelineLock

The same table through `jobs_manager.py`: `AcquireBegin` reads the clock, `Select`
the row, and `Insert` replaces it without a condition. `Release` deletes the row
by name. `serial` is a ghost: it stays TRUE while no two acquires overlap and no
run reaches its TTL. `SerialExclusion` and `SerialRowStays` say that the lock
works for callers that come one by one; `CrossProcessSafe`, what the comment above
the code claims, is violated.

### 2.3 Scripts and the code modules

`storage.connect` hands every caller of a thread the same handle, and almost every caller
closes it in a `finally`. Whether a function works is therefore a question about its whole
call tree: a callee, or the callee of a callee, may close the handle that a caller goes on
with, and the caller's next statement raises. What happens then depends on who catches it.

The five code modules write down, for 491 functions of the program, what each does to the
database, in order: open a handle, read, write, call, branch, loop, catch, close, return
(`Statements` has the vocabulary). What a function computes in between is left out; a
condition that is not the answer of a called function is left open. `Scripts` runs them: a
call stack (`stack`), the handle that the thread keeps for each mode (`slot`), the handles
that are open (`open`), the exception that is under way (`raising`). `DoFail` lets any
statement or request fail, `MaxFailures` times; `Elsewhere` is what other processes write.
Scripts are started with no handle (`Entry`); a function that no script reaches is started by
itself, with a handle just opened when it needs one (`Given`). `calm` stands for the data:
whether a limit is breached or something is stale. `db` keeps of the tables what a property
is about, the switch and the halt, and `owes` that a job lock was acquired.

`Scripts` does not know the functions: the table is its constant `Code`, `Parts` lists the
statements of each function with those inside of others, and `Tidy` is a set of functions that
the assumption `TidyAssumption` makes *tidy*: what a statement opens is closed by the `finally`
of the statement that follows it, each of the function's two variables is only ever opened in
one mode, and all that it calls is tidy. This is how `storage.connect` is meant to be used.
`MCScripts` gives the constants the table of this commit, and TLC evaluates the assumptions over
the whole of it: 471 of the 491 functions are tidy, and of the 153 that are started with no
handle all but 17. Those 17, and the three that some of them call (`MCUntidy`), do something
between `connect` and the `try`, or never close.

The stages of `trade_pipeline_job` that ask for `check_dual_divergence` and for
`dev_core.meta_strategy_layer` raise: both are defined nowhere in the repository.

What holds, with any one failure anywhere:

- `ScriptsKeepTheirHandle`: without failures every function outside the list `Undercut` keeps
  its handle until it is done. The 47 of the list do not, nearly all because `init_db` or
  `get_state`, which they call, close it. The property is checked by running everything;
  a change that makes a 48th function lose its handle breaks it.
- `HandlesAreClosed`: a thread never has two open handles, and none when a script ends,
  except for three scripts that never close and two that close only when nothing failed.
  For the scripts in `Tidy` the second half is a theorem that holds for every table
  (`TidyClosesAll`); the run adds the scripts that are not.
- `LocksAreReleased`: a script that acquired its job lock releases it whatever was raised,
  except for four pollers that do work between the acquire and the `try`.
- `NothingIsTraded`: `execution_allowed` and `get_health_snapshot` never answer yes and no
  script gets past them, not even when nothing is stale, halted or switched off. The system
  fails closed, and a reader should know that it does so always.
- `BreachIsRecorded`: a drift or slippage breach ends with the switch on and a drawdown with
  trading halted, when nothing fails.

The health monitor fails open: it does not switch execution off (`HealthFailureKills` is
violated). So does the live stability guard, one of the `Undercut`: `init_db` closes its
handle before the first read (`live_stability_guard_job.py:44`), so it never disarms,
against its header.

### 2.4 BrokerSim

One run of the paper broker is a record of its local variables with a program
counter; each database statement is a step, because the handle is in autocommit
mode, and `Abort` ends a run between any two of them. Prices are constant and costs
zero, so the worth of the account must not change and `AppliedMeansReached`,
`NoOvershoot`, `WorthIsConserved` and `FillsExplainPositions` relate positions, fills,
cash and targets. A LIMIT order may fill any part of a chunk.

`shared` says on what handle the broker runs; it is chosen once, from `Handles`. TRUE is
the code as it stands: the kill switch it asks before each order closes its handle, so it
never trades (`NothingIsTraded` of `Scripts`) and never finishes a batch with an order:
`broker_sim.py:489` says "Apply latest portfolio_orders", and the next statement on the
handle raises. FALSE is a handle that nobody else closes, which the function is written for.
The run `broker_sim` has both; what its properties say of trading, they say of the algorithm
on such a handle and not of the build of this commit. Left out are the limit of `max_rows`
orders (500, `broker_sim.py:620`): a batch is never cut short; and the optional mode without
margin (`broker_sim.py:946`), in which a chunk is cut to the cash or the order left.

`Rebalance` is what the portfolio job may count on, without chunks, budget, fills and cash: only
a batch newer than the last one applied is taken up; its orders have their turn one after the
other; a position moves only towards the target of the order whose turn it is, and not past
it; a batch counts as applied when the last order for every symbol is at its target, but for
the symbols the pass gave up; and a pass that is cut off leaves nothing behind but the
positions, so that the next one completes the batch. A run that is past the guard and has not
marked its batch is a pass (`Passes`, `PassOf`): its batch, its order and the symbols it cut.
`RebalanceSpec`, that `BrokerSim` implements it, holds for runs that come one after the other.

### 2.5 BrokerRouter

One call of the router is a program counter with the loop variables of its three
loops: `at` in the chain, `order` in the batch, `left` and `slice` in the order.
`GatePass`, `GateBlock` and `GateRaises` are the outcomes of the reconciliation gate,
`Plan` and `PlanAbort` those of the slicer, and `CallOk`, `CallFails`, `CallTypeError`,
`CallUnknownArgument` and `CallAlreadyApplied` those of an adapter. `NoAdapter` is the answer
that comes before any of them when the adapter or the slicer could not be imported or the
name is unknown, which may be so in any turn. An adapter may have
traded any of the orders it was given before it answers or raises; an order is a
target, so it trades the whole difference whatever the quantity of the slice.
`MaxErrors` bounds the calls that end badly after a trade, not those that fail without.

The ghosts `acked`, `traded` and `passed` say what the broker acknowledged, what each
broker traded and whose gate passed. What holds: an ok is a full acknowledgement by one
broker, a failed gate ends the call, a live broker is not reached around its gate. What also
holds, and a reader should know: all slices carry the id of the batch, so a broker that
marks batches trades one order of a sliced batch and acknowledges the others unseen
(`OneOrderPerMark`, a part of `MarkEndsTrading`). Orders without a quantity, which is what the
intents are, are passed over, and a batch of nothing else is answered ok
(`broker_router.py:162`). Trades of a broker that failed are not undone before the next one
gets the whole batch; no property denies this because no code does.

`Dispatch` is what a caller may count on, without slices, fallbacks and marks: the brokers of
the chain get one turn each and in order; a broker trades in its turn only, a live one once its
positions are reconciled; what it acknowledges stays acknowledged until its turn ends; an ok
has every order acknowledged, a blocked is said in the turn of a live broker that was not
cleared, a failed after all turns; nothing is traded after the answer. The mapping
`Dispatching` reads the turn off `pc` and `at`, the clearance off `passed`, and the orders that
are served off `acked`; that the final ok leaves them visible is what makes the mapping say
something of the quantities. In a dry run no broker is cleared and none trades.
`LiveTradesAreReconciled` follows from it and is stated and proved, but not checked once more.

### 2.6 JobManager

State: who holds the manager's lock (`mgr`) and the lock of each job (`held`), the
local state of each thread (`th`: where it is, what it does, with which job, and the
jobs it still has to visit), and the fields of `JobState`. Process number `gen[j]` of job
`j` is the one in `job.proc`; `alive` are those that run, and `pump` says how far the thread
of each has come. A lock is taken and released as the `with` blocks do; what happens
between two of them is a step, except where `append_log` takes the lock in between.

`Reentrant` says what kind of lock it is. FALSE is the code as it stands, with
`threading.Lock`: `start` waits for itself in its first `append_log`, holding the lock of the
job (`JobLocksAreLetGo` is violated), and so no process is ever started
(`NothingStarts`, a theorem). TRUE is `threading.RLock`, for which the code would work; the
run `job_manager` checks the rest of it under that assumption: `OneProcess`,
`DaemonsExclude`, `ExitIsCurrent`, `RestartsAreWanted`. `CirclesNeedList` says that two threads
block each other only when `list_jobs` meets the watchdog, whose locks are taken in
opposite orders.

`row` says which one-shot jobs have a row in `job_locks`. It is good for ten minutes
(`jobs_manager.py:461`) and nobody touches it, while `pipeline_runner.py:78` waits for a job
for twenty: `RowExpires` may come at any moment, also while the process runs, and a start then
finds no row that counts (line 124). The pump deletes the row by name, whoever wrote it.

`RestartsAreWanted`, `DaemonsExclude` and `ExitIsCurrent` each name, with a ghost, the window
that the code leaves open: a stop between the watchdog's last look and its start (`missed`),
daemons that are started together (`raced`), and a row that expires while its job is being
started or its pump has not stored the code yet (`late`). In the last one a process that ended
leaves room for a new one, and its code lands in the `JobState` of the new process.
`RestartsAreWanted` also says that the watchdog starts nothing once the window is full. What
fills the window are the counted restarts: one whose heartbeat raises (`jobs_manager.py:494`,
caught at 606) has started a process and is not counted (`Spawn` without a pump), so neither
this property nor the type of `tries` bounds the processes.

### 2.7 ExecutionLedger

The broker accepts orders and fills them bit by bit (`sent`, `filled`, external); the adapter
logs the submission or fails to. A run of `execution_poll_and_attrib` goes through phases:
log what the broker reports, measure every logged order under the time of the snapshot, find
the newest snapshot and sum it up by alert, find the newest sums and copy them, check that
every sum has its copy. `todo` holds the rows of the phase that are still to be written.
The handle is in autocommit mode, so each row is a step; any number of runs overlap, and
`Die` ends one between any two rows. `ts` is the time under which a run measures, and then the
newest time it has read. A quantity stands for the amounts computed from it. An order whose
`source_alert_id` is NULL (`NoAlert`) is measured and then skipped by the sums
(`execution_ledger.py:527`).

At this commit no path logs a fill:

- `broker_alpaca_rest.py:34` imports a module that does not exist, so the import of its poll at
  `execution_poll_and_attrib.py:148` always raises, and `main` swallows it;
- the poll of the IBKR gateway is a stub that logs nothing (`broker_ibkr_gateway.py:356`);
- the gateway's `run_execution_stream_daemon` calls `log_fill` with arguments that it does not
  take (line 383) and swallows the `TypeError`;
- the simulator never trades (2.4).

What the runs still do is measure, sum up and copy what an earlier build left in the ledger:
`Kept` is the quantity that it holds of each order. `Adapter` says whether the Alpaca adapter
can be imported: FALSE is the code as it stands, TRUE the code with the missing module in its
place, in which the order and its fills are logged.

What holds of what is logged: a logged fill never exceeds what the broker had filled
(`LedgerNeverOverstates`), and because `client_order_id` is UNIQUE the first report of an order
stands for ever (`FirstReportStands`): an order that is reported when half of it is filled
stays half filled in the ledger, in its metrics and in its attribution.

`RunsApartAgree` says what the sums are worth. Runs that meet break them: a run that is
overtaken pulls the row of an order out of the newer snapshot. Runs that die leave sums that
nothing ever copies. The property says that the next run which meets no other and does not die
makes good what was done before it: the newest sums are right, have their copies, and account
for every metric of an order that has an alert. The ghost `alone` says that the last run was
such a one, `apart` that all were; only then do the older sums have their copies too. That they
may lack them, on a ledger which holds an order and its fill, is what `PnlRowsAreAttributed`,
the "hard invariant" of the script, is violated by.

Left out: the limit of 5000 orders, signs, prices and fees, capital efficiency and the
decomposition with its residual check.

### 2.8 RiskControls

`trading_allowed`, `maybe_release_cooldown` and `update_capital_preservation_mode`, one
`get_state` or `set_state` at a time, by several processes that may die anywhere. `state` and
`stopTs` are the halt, `mode`, `modeTs` and `streak` the preservation mode; `drawdown` moves
freely and the signals of an update are bad, fair or good at will. The ghosts `haltedAt`,
`enteredAt` and `goods` say what really happened, `haltsApart` and `updatesApart` whether the
windows that the code leaves open were met.

What holds: a halt lasts its cooldown however calls of `trading_allowed` overlap
(`HaltIsServed`), and the preservation mode lasts its minimum and ends after enough good updates
in a row (`PreserveIsServed`). The windows are a release under way while a halt is decided, a
crash between the state and its time (the cooldown is then measured from the halt before),
and updates that overlap or are cut off. The functions are called here without a handle of
the caller; with a pooled one they record nothing, since `get_current_drawdown` raises on the
handle that `get_state` has closed. `maybe_release_cooldown` has no caller at this commit.

## 3. The runs

| Run | Instance | States | Shows |
|---|---|---|---|
| `job_lock` | 2 processes, TTL 1, clock to 4 | 20k | the safety properties, `LeaseSpec`, and that a dead holder is replaced |
| `pipeline_lock` | 3 processes, TTL 2, clock to 4 | 92k | exclusion for serial acquires; a crashed pipeline does not block for ever |
| `cross_process_safe` | 2 processes | | violation: two holders within the TTL |
| `scripts` | all functions, one failure, a halt from elsewhere, calm or not | 200k | handles, job locks, refusals, records |
| `health_failure_kills` | the health monitor, no failure | | violation: the monitor does not kill |
| `broker_sim` | 1 run at a time, 2 batches, 2 aborts, either handle | 1.3M | the trading algorithm; `RebalanceSpec`; batches get applied on a handle of its own |
| `broker_router` | 2 calls, 3 brokers, 3 orders, 1 error | 476k | what ok, gate and mark promise; `DispatchSpec`; each call is answered |
| `job_manager` | 2 callers, 2 daemons, a one-shot job, 2 calls, 2 starts, reentrant | 349k | the safety properties |
| `job_locks_are_let_go` | 1 caller, 1 daemon | | violation: the first start waits for itself |
| `execution_ledger` | 2 runs, a new order of 2 units, 2 kept ones, with the adapter, clock to 1 | 457k | what a fill, a metric and a sum are worth |
| `pnl_rows_are_attributed` | 1 run at a time, 1 kept order, without the adapter | | violation: sums without a copy |
| `risk_controls` | 2 processes, cooldown 1, minimum 1, streak 2, clock to 2 | 758k | the halt and the preservation mode |

The runs with a liveness property state fairness and use no symmetry; `job_manager`,
`execution_ledger` and `risk_controls` check safety only, with symmetric threads, runs and
processes.

Bounds. Three pipelines let a third one act on what two have confused. The job lock has
two, its theorems hold for any number; a takeover of a takeover, for which one of the two
comes back, needs a clock of twice the TTL plus two. A script runs in one thread
and meets others in the database only, so `Scripts` has one thread and `Elsewhere`; one failure
suffices for a path that is not cleaned up, and a second would only lead from one handler into
the next. The ledger's new order has two units, so that a report may be partial; of the two it
holds from before, one is of the same alert, so that a sum has several metrics, and one has
none; two runs overlap in every order of their rows, die and come again; time 1 is a second
snapshot and the end of the lookback. The run has the adapter; as kept orders are not listed
by the broker, the behaviours without one are those in which no order is sent. Two processes and a clock of two let a halt be served, released and
decided again while another release or update is under way. The batches of `MCBrokerSim` reverse a position, name a symbol
twice and exceed both the chunk and the budget; two aborts repeat a batch that was cut off
twice. The router's chain has a live broker that is told the id of the batch, one that is
not, and the simulator; its batch has an order of several slices, one without a quantity
and one of two units. Two calls of the job manager are a start and the stop, start or list
that meets the watchdog; two starts of a job are one and its restart. The clock bound and
`MaxAborts`, `MaxFailures`, `MaxErrors`, `MaxCalls` and `MaxStarts` are the only bounds that
cut behaviour; rows that outlive the clock bound are left out of the liveness properties.

Fairness. The clock runs (`WF` on the tick). The supervisor's loops start their jobs
again and again (`WF` on some process beginning an acquire). A transaction that is
tried for ever succeeds in the end (`SF` on the commit): SQLite's busy handler
retries for 30 s, and the holder of a write lock is in a transaction of a few
statements. For the broker, each started run takes its next step (`WF`), since a
script is a sequential program; the same holds for a call of the router. In the job
manager every thread runs (`WF` on its steps) and gets a lock that comes free again and
again (`SF` on taking it): CPython wakes one of the threads that wait, and holders leave
within a few statements. A process ends once it was told to, and its pump then runs
(`SF` on its steps, which need the same locks). No fairness is assumed of crashes, errors or aborts,
nor of calls.

## 4. The theorems

All are proved by TLAPS for every value of the constants: those about the locks for
any set of processes, any TTL and an unbounded clock.

`JobLockProofs`: `TypeCorrect`, `LeaseKeepsRow`, `MutualExclusion`, `ReleaseIsOwn`,
`HeartbeatAdvances`, `ImplementsLease`. `LeaseHasRow` is not inductive: a takeover
judges the heartbeat in the row by a clock read earlier, while the lease counts from
the holder's own last heartbeat. `IInv` adds that nobody carries a clock value from
the future, that the row of a running process holds its last heartbeat, and that what
is about to be stored is not older than what was.

`PipelineLockProofs`: `TypeCorrect`, `ExclusionWhenSerial`, `RowStaysWhenSerial`. A process
about to write its row must know that nobody runs, though it looked earlier; `IInv`
says that the row of a running process is its own and has not expired by anybody's
clock, and that while the history is serial a process past its SELECT is alone.

`BrokerRouterProofs`: `TypeCorrect`, `OkIsAcknowledged`, `LiveIsReconciled`,
`AnsweredIsOver`, `MarkIsFinal`, `ImplementsDispatch`, for any chain, batch and number of
calls. The invariant counts: what is acknowledged of the order at hand and what is left of it
are its quantity, every earlier order is acknowledged in full or `all_ok` is false; and a call
that is past the gate of a live broker has it among those that passed. `MarkIsFinal` adds
`Told`, that an adapter which knows the argument is told the id while nothing raised, and
`Marked`, that such an adapter has traded nothing without a mark and one order of a sliced
batch: the property speaks of brokers with a mark, but what they traded before they had it is
what makes it true. `ImplementsDispatch` takes the actions one by one. A call of an adapter,
the end of the loop and an exception in the gate are steps of the broker that has the turn
(`BrokerStep`), and its orders are served when its account says so; that a turn begins
uncleared needs `Turned`, that no gate passed for a broker whose turn is still to come.

`BrokerSimProofs`: `TypeCorrect` for any runs, overlapping or not; `AppliesOnce`,
`ReachesTargets`, `NeverOvershoots`, `ConservesWorth`, `FillsExplain` and `ImplementsRebalance`
for runs one after the other (`[]Serial`), which is what the lock of `broker_apply_orders` gives its callers while it
holds and what the run `broker_sim` checks; for any batches, symbols, chunks and aborts.
Between two runs cash, positions and fills balance but for what was cut off (`Settled`), a
fact about the tables. During a run part of the balance is in local variables, the cash not
yet persisted and the chunk that is traded and not yet filled (`Books`). `Fresh` says that a
run's batch is not applied yet, `Ready` that the position it read is the one in the table,
`Progress` which of its orders are behind it and met. A lemma for each step says what it makes
of the local variables, and the lemmas on the invariant are over these. `ImplementsRebalance`
goes through the statements: most change no more than the local variables and the tables that
`Rebalance` does not have, and stutter; a trade is a move because `Ready` says that the run
knows the position, and the mark is an `Apply` because `Progress` says that what was not cut is
met. The lemmas on sums say that a function that changes at one point changes its sum by the
difference. The library's induction theorems take an operator, so the induction over subsets is
done by taking the smallest subset without the property.

`JobManagerProofs`: `TypeCorrect`, `OneProcessPerJob`, `NothingEverStarts`,
`CirclesAreLists`, `ExitCodesAreCurrent`, `OneDaemon`, `RestartsAreAskedFor`, for any callers,
jobs and bounds. A thread about to start a process looked for a running one some
steps earlier; `IInv` says that whoever is inside the lock of a job holds it, that a
thread on its way to `Popen` has seen the last process of its job end, and that only the
last process can run. The others have an invariant each on top of it. `Room` bounds the
restarts that are counted and is about the watchdog alone; with `Wanted` it gives
`RestartsAreAskedFor`. `Held` says who holds a lock and that nobody but the
watchdog wants a second one there, list_jobs excepted. `Guarded` says that the row of a one-shot
job stands from its start until the pump has stored the code, so that no other process comes
between, for all jobs but those whose row expired too early, for which there is nothing to keep
(`Unguarded`). `Exclusive` says that the daemon that is being started is alone until two were started
together. `Wanted` says that a job that was started is wanted or was stopped, and that what the
watchdog has looked at is still so, because a stop needs the lock it holds. Nothing in these
proofs depends on the lock being reentrant; without it `Stuck` says that nobody gets as far as
`Popen`.

`ExecutionLedgerProofs`: `NeverOverstates`, `FirstStands`, `TypeCorrect`, `ApartRunsAgree`, for
any orders, with an alert or without, any runs and times, and whatever the ledger holds at
first. A report is
logged long after it was asked for, by a run that others have overtaken; `Inv` says that
every report a run still carries was true, which stays so because the broker's quantity only
grows, and that a metric is of the logged fill, which stays so because the first fill stands.
The types are not shallow here: that a sum is a number needs that finitely many orders are
logged, and that a newest time exists needs that nothing is from the future (`Rows`).
`RunsApartAgree` is about the moments between runs; `Apart` says what the one run under way
has brought about in each phase and which of its rows will bring about the rest: while it
measures, no sum is later than its time; while it attributes, each sum of its time is right or
among the rows it will write; while it copies, each of the newest sums has its copy or is
among its keys. Nothing of this is assumed of the runs before. What it needs of them is that
nothing is from the future, and `Rooted`, which runs that meet and die keep too: a sum is of an
alert that some measured order has, so that the run which sums up every metric writes a newer
row for every alert that has one. A
sum of metrics is the number of their units (`Total`), so the proofs need the library's facts on
cardinalities and no induction.

`RiskControlsProofs`: `TypeCorrect`, `HaltsAreServed`, `PreserveLasts`, for any processes and
durations. Neither property is inductive: the step that ends a halt or a mode relies on reads
some steps before. `HaltsKept` says that, while releases and halts keep apart, the stored time
is not before the halt and a release past that read has seen the cooldown served;
`PreserveKept` says, for each place an update may have reached, what it knows of the mode, its
time and the streak, and what is stored when no update runs.

`ScriptsProofs`: `TypeCorrect`, `OpenHandlesAreKept`, `TidyClosesAll`, for any table of
functions that satisfies the assumptions, any number of failures and a call stack of any depth.
`Typed` says what a step relies on: what is left of an active function are statements of it
and the marks of the loops, tries and finally clauses that it entered, so that whatever a
`return`, a `break` or an exception goes on with is a statement again; and an open handle is in
the slot of its mode. `TidyClosesAll` is not inductive, nor is it enough to follow one handle
with its opener: any callee may be given the same handle by `connect`, close it, and leave its
caller to open another one with the next `connect`. `Clean` says two things of a run of tidy
functions instead. Every open handle is held by *some* active function that opened it, in a
variable that it is about to close, or that a finally clause it has entered, or enters next,
will close (`Kept`). And a
variable whose handle is open holds the handle of its mode's slot (`Pinned`), so that a second
`connect` on it returns the same one and loses none. That the finally clause is entered in
time is the point of sessions: nothing can raise between the statement that opens a handle and
the `try` whose finally clause closes it.

The assumptions are the named `ASSUME`s of the modules; TLC evaluates them in the runs.

Every safety property of the locks, the router, the paper broker, the job manager, the ledger
and the risk controls that a run checks is a theorem, but for those of the paper broker that
need runs one after the other: they are theorems under that hypothesis. Of the functions on the
shared handle the type invariant is one, and what holds for every table.

Only model-checked:

- `ScriptsKeepTheirHandle`, `LocksAreReleased`, `NothingIsTraded`, `BreachIsRecorded`, and
  `HandlesAreClosed` for the scripts that are not tidy and in that a thread has one open handle
  and not one of each mode: they are about this table of functions and are false of others. TLC
  tries every path of it; a proof would go through the same paths, function by function, and
  show it for no more values;
- liveness: `DeadHolderIsReplaced`, `PipelineRuns`, `OwnHandleKeepsUp`, `CallsAreAnswered`.
  Liveness under fairness and ENABLED are out of the prover's reach;
- what a recursive function computes for every input, beyond the lemmas on the sums of
  `BrokerSim`.

## 5. The plan

Done: the locks, the router, the paper broker and what it promises, the job manager, the
functions on the shared handle, the ledger, the halt and the preservation mode; the theorems
about all of them. Left, most important first:

1. Job locks as sessions: a rule for `acquire_job_lock` and the `try` that follows it, from which
   `LocksAreReleased` follows for every table, as `TidyClosesAll` does for handles.
2. The expiry of the kill switch and the checkpoints of the event scripts: both lie behind
   `execution_allowed`, and are reached once it can answer yes.

## 6. Not modelled

- The dashboard, the API and the user interface: presentation around the job manager; two of
  the server modules do not load.
- The files of 1.2 that do not parse.
- Arithmetic: weights, sizes, scores, features, statistics, prices and costs. The order in
  which they are read and stored is in the code modules.
- The schema, WAL checkpoints and pragmas of `storage.py`, except for the functions that
  others call.
- Clocks that go back, and a database file that is lost or corrupted.
