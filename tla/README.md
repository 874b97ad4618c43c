# A TLA+ model of guvolu

guvolu trades on Japanese exchanges (GMO Coin above all). It captures market data, makes
facts of it, researches factors on them, and sends at most a few small orders an hour from a
frozen target. This directory models the parts where a mistake costs money or evidence: the
**intent ledger**, the **rounds of the live executor** that write to it, the **envelope several
markets share**, the **reconciliation** of what the exchange streams with what it answers; the
**raw segments** market data is captured in, the **active heads** that make facts of them, the
**cold disk** they move to, the **process manager** that keeps recorders alive; and the **holdout
registry** that keeps research honest. Rule numbers
such as T-05 are those of `src/SKILLS.md`; paths are relative to `src/src/guvolu/`
unless they begin with `src/`.

Contents: [1 the system](#1-the-system) · [2 the modules](#2-the-modules) ·
[3 the runs](#3-the-runs) · [4 where code and documents part](#4-where-code-and-documents-part) ·
[5 the proofs](#5-the-proofs) · [6 what is not modelled](#6-what-is-not-modelled) ·
[7 plan](#7-plan) · [8 running it](#8-running-it)

## 1 The system

### Components, their state and how they interact

| Component | State it keeps | Operations | Talks to |
|---|---|---|---|
| Intent ledger `data/intent_ledger.py`, `domain/intent.py` | an append-only JSONL file; in memory the state, order number and write-budget mark of every intent and the reverse order map | one fsynced row per transition; load with quarantine of a torn row and replay; `mark_interrupted_sends` | dispatch, recovery, limit replay, usage reconciliation, reconciliation session |
| Dispatch `execution/dispatch.py`, `trade_sender.py`, `inflight_lock.py` | a lock file per symbol | gates, SENDING row, request, outcome row | ledger, breaker, limit gate, exchange |
| Live executor `execution/live_executor.py` | the round in memory | one round a process: load, count missing usage, recover, gates, two phases, trip | all of the above, envelope files |
| Authorization envelope `execution/authorization_envelope.py` | usage file (append only), state file (overwritten whole): trip lock, failure count, baselines | gates, usage rows, save | live executor of every market |
| Timeout resolution `execution/reconcile.py`, `timeout_scheduler.py` | a queue with back-off | match an in-doubt intent with the orders and executions of the exchange | ledger, exchange |
| Risk gates `risk/` | breaker state and failure count, usage of the day; memory only | trip, count, check, commit | dispatch, soak runner |
| Dual-channel session `execution/dual_reconcile.py`, `order_state.py`, `reconcile_session.py` | order views and fills of the session, asset baseline | apply frame, snapshot rounds, backfill, asset audit | private stream, REST, ledger, breaker |
| Soak runner `execution/soak_runner.py`, `api/ws_private.py` | reconnect mark, error count, connection | the loop of rounds, reconnect | session |
| Emergency stop, kill switch | none | one bulk cancel | breaker, exchange |
| Paper, dry-run and canary executors | their own ledgers and reports | rounds that send nothing; one manual order | ledger, dispatch |
| Raw capture `data/segmented_raw.py`, `*_capture.py` | segments `.open` → sealed with manifest, checkpoint, run manifest | append, roll back, rotate, seal, finish; recovery scan and reconciliation of dead runs by other processes | materialization |
| Materialization `data/materialize.py`, `*_materialize.py`, `materialization_publication.py` | SQLite: attempts, outputs, active heads; Parquet files | scan, attempt, publish, switch head | raw capture, compaction, cold storage, research |
| Compaction `data/trade_realtime_compact.py` | heads of a day | replace the heads of a day by one, retire empty ones | materialization |
| Cold storage `data/cold_storage.py`, `storage_paths.py` | routes, plans, receipts, hot and cold copies | plan, copy, verify, activate, roll back, release, restore | materialized files |
| Process manager `ops/process_manager.py` | state, back-off and failures per process | start, adopt, heartbeat, kill, back off | capture processes |
| Governance `research/governance.py`, `holdout.py`, `frozen_forward.py` | holdout vintages, exposures, forward plans, predictions and their files | seal, abandon, expose, register, burn, open, finalize | research pipeline, market data |
| Research, strategy, search, venues, API clients, UI, scripts | artifacts | batch computation, network I/O, queries | – |

### What is hard here

- **Processes that die.** A round is a process with a 50 minute limit; the scheduler kills it.
  Everything but the files is gone, between any two steps. Recorders, materializers, cold-disk
  commands and evaluations die the same way.
- **Requests in doubt.** A reply that times out says nothing: the order may be on the book, may
  get there later, or never. The same order number must not be given to two intents.
- **Several rounds at once.** Markets start 18 minutes apart and may take 50; an orphan of a
  killed round lives on (`src/docs/2026-09-21-hourly-chain-slowdown-and-recovery.md`). They
  share ledger, usage, state and, for one market, the symbol.
- **Two channels that disagree for good reasons.** Frames are late, reordered, doubled or lost;
  three REST queries are three moments.
- **Counters that live in memory** while every round is a new process: the day's limit, the
  failure count.
- **Judged by silence.** The recovery of raw segments takes a writer for dead when its files are
  old, and publishes what it left; the process manager kills a recorder without a heartbeat, and
  the kill may fail.
- **Check, wait, act.** Cold-disk commands hash for minutes and then act; the search asks for
  permission and reads later; a seal waits for a lock with a clock it has read; a batch of
  predictions is attested long before it is scored.

### What makes each part correct

Ledger: it always loads again, memory never differs from the file, one in-flight intent per
symbol, one intent per order number. Rounds: a proposal is not overfilled, no sent order escapes
the accounting, a trip is for good, a match finds the right order. Envelope: the total holds, a
cost is counted once. Reconciliation: the picture never runs ahead of the exchange nor back, what
the stream lost is repaired, the breaker is charged only with a cause. Raw capture: what was
acknowledged stays, a manifest is true and final, what a writer leaves is published.
Materialization and compaction: every recorded trade is active, under one head, and never goes
away. Process manager: one writer of a stream, a stop holds, a dead or silent recorder is replaced
or a person called unless kills fail for ever. Cold storage: every active path resolves, the last good
copy stays. Governance: nobody sees
a sealed interval, its labels are opened once, the verdict is over the registered predictions.
`PROJECT.json` lists each hazard at its line with the property that would catch it, and those no
property covers yet.

## 2 The modules

| Module | Models | Extends / uses |
|---|---|---|
| `IntentStates` | the states and the table of moves of `domain/intent.py` | – |
| `IntentLifecycle` | **abstract**: what the ledger promises the execution chain | `IntentStates` |
| `IntentLedger` | the ledger file, the memory view, load and crash | `IntentStates`; refines `IntentLifecycle` |
| `LiveExecutor` | rounds of one market with the exchange it trades on | `IntentStates`; refines `IntentLifecycle` |
| `SharedRounds` | several rounds over the shared files and locks | `IntentStates` |
| `DualReconcile` | session, stream, exchange and runner loop | – |
| `SegmentedRaw` | one capture run: writer, recovery scan, reconciliation of dead runs | – |
| `ActiveFacts` | **abstract**: what a reader of the active heads may rely on | – |
| `TradeDays` | sealed segments to heads, and heads to days, inside the writer lock | refines `ActiveFacts` |
| `ColdMigration` | one prefix on its way to the cold disk and back, beside a materialization | – |
| `HoldoutLifecycle` | **abstract**: the life of a holdout vintage | – |
| `HoldoutVintage` | the registry and the processes that race over it | refines `HoldoutLifecycle` |
| `ProcessManager` | one entry of the process manager beside the processes of the machine | – |
| `IntentLedgerProofs`, `LiveExecutorProofs`, `SharedRoundsProofs`, `SegmentedRawProofs`, `DualReconcileProofs`, `TradeDaysProofs`, `HoldoutVintageProofs`, `OperationsProofs` | theorems; the last about `ColdMigration` and `ProcessManager`, what operators drive by hand | their modules, `TLAPS` |
| `MC*` | values of the constants for TLC | their module |

Operators introduced as "Faulty variant of" a definition are not part of a specification. Each
is a plausible bug in that definition; with it in its place the property named in `PROJECT.json`
fails.

**IntentLedger.** `rows` is the file, `torn` the fragment of a row a crash left, `sidecar` the
quarantined fragment, `entries` and `orderMap` the two dictionaries of the class. Every public
transition is an action whose row goes through `Valid` (`_validate`) and `Write`, which has three
outcomes: appended and applied, appended and then the process dies, torn. `OpenIntact`,
`WriteSidecar`, `TruncateTorn`, `ReplayRow` and `FinishLoad` are `_load` one file operation at a
time, and a crash may come between any two; the replay validates each row with the same `Valid`.
`MarkInterruptedSends` and `MarkNext` are the loop of `mark_interrupted_sends`. A write error
that leaves the process alive is not a case of its own: the callers end on it.

**LiveExecutor.** `pc` is what the round does next and `"down"` between rounds. One action stands
for what runs between two queries, requests or file writes, in the order of the source:
`StartRound`, `CountMissing` (`reconcile_usage_with_ledger`), `Prepare` (seeding failures and the
day's usage), `MarkInterrupted`/`ReadActive`/`Decide` (recovery), the verdict of the gates,
`RecordProposal`, `BeginSend`, the three outcomes of a request, `CountUsage`, polling, cancel and
its confirmation, the second phase (`RecordTaker`), the trip (`CancelAll` … `LockState`) and
`Finish`. `Kill` and `ReadFails` may end it anywhere the code can. The exchange lands, fills and
closes orders at any time. `form[i].older` holds the orders the time window of the match leaves
out; `done` counts executed lots. Up to `MaxLate` requests may reach the book after their reply timed
out.

**SharedRounds.** `rows`, `usage` and `trippedAt` are the shared files, `lock` the symbol locks;
`ledger[p]` and `counted[p]` are the copies round `p` loaded. A row is checked by its writer
against its copy, and by whoever loads the file against the rows before it: `broken` says that
these two disagreed. With `Overlap = FALSE` the rounds take turns, which is what the documents
take for granted; with `TRUE` they do not. `SaveLoaded` keeps that the state file is written
whole from the copy of the start of the round. An order buys or sells (`sells`, for the properties
only): the gate holds a buy to the total and lets a priced sell pass
(`execution/authorization_envelope.py:1119-1128`, "退出永远可达",
`src/docs/execution-chain-design.md:361`). A round that finds the total used up is refused before
that, whatever it would do (`execution/live_executor.py:1295`, "耗尽即停机",
`src/docs/execution-chain-design.md:354`), so that a sell passes the total only where the
reconciliation has just reached it, and `EnvelopeKept` says what is left of the bound: a buy fits in
beside all orders before it, and all orders exceed the total by one sell at most.

**DualReconcile.** `market` is the exchange, `wire` the frames under way, `view` and `facts` the
order store. A frame is applied whole; a round reads active orders, executions and assets in
three actions (the exchange moves on in between), then `MergeOrders`, `LookUp`, `MergeFacts` and
`Backfill` do what the synchronous code does, with a further query where the code makes one.
`InputsFail` and `QueryFails` are the errors a round may raise; `ErrorLimit` of them in a row stop
the runner. `history` is written for the properties only.

**SegmentedRaw.** The bytes of a file are the record numbers on its complete lines and whether a
torn line follows them; a SHA-256 is the content it was taken of. The writer is an object whose
methods are split at every file operation (`pc` `rotated`, `renamed`, `closing`, `unlinked`), each
of which may fail or be the last; a failed append is rolled back, and the roll-back may fail too.
The recorder around it takes an error of the disk for one of the connection and goes on, and ends
the run as complete, interrupted or failed. `scan` is `recover_open_segments` (lists, examines,
renames, publishes), `audit` is `reconcile_unfinished_segmented_runs`; both read first and act
later, both may die. `old` is what the cutoff of an hour sees.

**TradeDays.** `heads` maps partition keys to the rows of their outputs, `attempts` are the rows
of the attempt table, `job` is the holder of the writer lock with the work left to it. `Watch`
(resident, looks back `Window` segments) and `CatchUp` (the daily task) choose segments,
`StartCompaction` the past days; `Work` does the next unit, `PublishFails`, `MergeFails` and
`Kill` end it. A late segment of a merged day gets a head of its own until the next compaction
absorbs it; a merge that would hold one observation twice is refused and ends its call.

**ColdMigration.** `route` is the status in `storage-roots.json`, `hot` and `cold` the two sides,
`plans` the plan files, each a frozen catalog. A command has a beginning, where it reads and
verifies, a step per file (or, for a switch, the step under the writer lock), and an end, which
may come at any time. `Register` is a materialization that finishes where it resolved its
directory when it began. `Decay` is a cold copy that no longer has its hash. `Crossing = FALSE`
says that whoever starts commands lets no switch of the route run beside a release or a
materialization; everything else may overlap, two commands of one kind included. Initial states,
next-state relation and type invariant carry the prefix `Migration`, since `OperationsProofs` extends
`ProcessManager` too.

**HoldoutVintage.** Time counts bars. A registry transaction is one action (the registration of
a prediction two, since it replays the prediction inside the transaction and after it has written
the file), and what a process read before it – the clock, the head of the data, the rows to score –
waits in `ctx[p]`. `Development` reads a panel that must not reach into a sealed interval and
declares what it has seen, `Sealing` seals and abandons, `Forward` predicts, `Evaluation` attests,
burns, opens and finalizes. `Quit` is every refusal, exception and kill. `seen` and `openings` are
history.

**ProcessManager.** `state`, `child` (`popen`), `external` (`external_pid`), `failures`, `resume`
(`resume_at`) and `cache` (`_scan_cache`) are the fields of an entry, `proc` the processes of the
machine that run its command, started by the manager or not. Each public call polls first
(`Poll`, one disjunct per outcome of `_check_running`, `_try_adopt` and `_check_backing_off`) and then
does what it was called for (`Start`, `Stop`), in a second step: `pc` is the call that holds the lock.
Clocks appear as what they are compared with: `cache.fresh`, a `resume` that is set or due, a run
that is `stable`, one that is `silent`. `Faults` selects what may go wrong: a process outlives its
kill, somebody starts the same command, the service ends and comes back, the command cannot be
started, the scan or the log directory fails, `taskkill` hangs; each may happen again and again.
`wanted`, `company` and `late` are history.

## 3 The runs

Expected to pass:

| Run | Question | Bounds |
|---|---|---|
| `ledger` | Does the file implement the life of the intents through crashes at every file operation, does it always load again, and does memory show what it says? | 3 intents, two on one symbol, 1 order number, 6 rows |
| `live_rounds` | Does a round that may be killed anywhere overfill, mistake what became of an order, or pass a lock or a limit, also when a request lands long after its reply timed out? | 3 intents, proposals of up to 2 lots, buy side, day limit 2, failure limit 2, total 3, flatten on, 1 late request |
| `rounds_staggered` | Do two markets that take turns share ledger, envelope and trip lock soundly? | 2 markets, 4 intents that buy or sell, total 2 |
| `rounds_overlap` | What holds when two rounds of one market overlap? | 2 rounds, 3 intents, total 2 |
| `dual_one_order` | Does the session stay behind the exchange, never go back, and repair what the stream lost? | 1 own order of 2 lots, 1 lost connection, failure limit 2, error limit 2 |
| `dual_two_orders` | Is the breaker charged only with a cause, and are exactly the foreign fills unexplained? | own and foreign order of 1 lot, 1 lost connection, error limit 1 |
| `segments` | Does an acknowledged frame stay, does every manifest tell the truth for good, and is what a writer leaves published? | 3 segments, 4 frames |
| `trade_days` | Is every recorded trade active once, for good, and does a past day come down to one head? | 5 segments, 2 days, one trade recorded twice, one segment across midnight and one without trades, one kill or fault |
| `cold_migration` | Does every active path resolve and the last good copy stay? | 2 Parquet files, a manifest, a later output, 2 shells, 1 cold copy that goes bad |
| `holdout` | Is a sealed interval unseen, are labels opened once, is the verdict over the registered rows? | 2 overlapping intervals, 2 processes, 3 bars, 3 heads |
| `recorder_kept` | Is a recorder never started beside another one, does a stop hold, and is one that ended or hangs replaced? | 4 processes at a time, failure limit 5; survive, stray, service, spawn and hang, any number of times |

Bounds are constants in the guards (`MaxRows`, `MaxIntents`, `MaxDrops`, `MaxMishaps`, …) or sizes
of sets. Why they reach the cases: two intents are what a conflict over a symbol, an order number
or a match needs; a third is the retry after a failure, the flatten after both phases, or in the
ledger the one on another symbol, so that one crash interrupts two. Six rows take two intents to
ACCEPTED. Two lots are a partial fill. One lost connection with two order states lost is a gap; a
second adds the same again. Three segments are one sealed before, one open and one after a
rotation that failed. Five segments and two days give a day merged before a late segment of it, an
empty segment, one across midnight and a repeated trade that stops the second day. Two shells
and four files let one command stop half way and another go on from there. Four processes are the
one the manager holds, one that outlived its kill, one that another has started or the service has
left, and room for the next; five failures are the limit of the code, and how often something goes
wrong is not bounded.

Deadlock is checked but for three runs. `segments` may be over for good (the run is published and
closed), `holdout` ends with the last bar, and `cold_migration` may come to a route that is active
with a changed catalog, which no command takes on (section 4). A session after its last failed
round is the explicit action `Stopped`, as `RefuseRound` and `Refuse` are for an envelope that is
locked. `ReplayRow` has a disjunct to `"corrupt"` that the runs cannot take because `NeverCorrupt`
holds, and it is proved to be dead.

**Fairness.**

- `DualReconcile`: `WF_vars(RoundStep)`. `run_soak` starts a round whenever the last one returned
  and the wait is over; a round is synchronous code over queries with a time limit, so it goes on
  or raises, and a failed query is a `RoundStep` too. Nothing is assumed of the stream, the
  connection or the exchange. Both leads-to properties have `Halted` on the right: after
  `ErrorLimit` failed rounds in a row the runner gives up, as `ROUND_ERROR_LIMIT` makes it.
- `SegmentedRaw`: the pipeline script runs the recovery at each start
  (`src/scripts/start_marketdata_pipeline.ps1:789`) and a guard task starts the pipeline again and
  again, hence `WF` of listing and of ageing and `SF` of the steps of the scan: a scan may be killed,
  but not each time at the same step. Nothing is assumed of the writer.
- `TradeDays`: `WF` of the work inside the lock and of the retry that comes due after an hour, `SF`
  of the two daily tasks, which find the lock taken on some days and free on others. Nothing is
  assumed of the resident materializer: the daily task alone must catch up.
- `ProcessManager`: `WF` of the poll while the polling thread lives (every `POLL_INTERVAL_SECONDS`),
  of the rest of a call that has polled (synchronous code), and of the passing of time (a scan gets
  old, a back-off ends, a run becomes stable, silence adds up). Nothing is assumed of the processes
  or of people. The code calls nobody when kills fail for ever (section 4), and `CollectsAgain`
  leaves that case out in so many words: `[]<><<KillFails>>_vars \/ HungIsReplaced`. Finitely many
  failed kills, however many, are in.
- `LiveExecutor`, `SharedRounds`, `IntentLedger`, `ColdMigration` and `HoldoutVintage` state none: the
  scheduler may kill every round, and nobody is obliged to start a command.

## 4 Where code and documents part

One run ends in a counterexample, a finding of `PROJECT.json` with the quoted lines:
`overlap_breaks_ledger` (`LedgerReplays`). Recovery of one market marks the live SENDING of
another; both append a move out of SENDING and the file no longer loads.

Other expectations that TLC refutes are kept as definitions at the end of their module. They are
part of no run; to see one, put it (alone) in the named configuration in place of its properties:

| Property | In | Behaviour |
|---|---|---|
| `UsageOnlyForWrites` (INVARIANT) | `MCLiveExecutor.cfg` | An intent that was only recorded, or rejected by a gate, has no budget mark; `consumed_write_budget` calls that consumed, and the next round charges it to the envelope. |
| `PlanStartsResolved` (INVARIANT) | `MCLiveExecutor.cfg` | A send times out and the query fails; the intent is SEND_TIMEOUT and no longer SENDING, so the next rounds do not ask about it and the symbol stays busy. |
| `FailuresCarried` (PROPERTY) | `MCLiveExecutor.cfg` | The failure count is saved only by a round that gets to its end. |
| `TripLocks` (PROPERTY) | `MCLiveExecutor.cfg` | A query of the flatten fails after the cancel: the round ends with no trip lock saved. |
| `TotalRespected` (INVARIANT) | `MCLiveExecutor.cfg` with `EnvelopeTotal = 2` | The gate sees the size of the proposal; the two phases are two usage rows. |
| `NeverOverfilled` (INVARIANT) | `MCLiveExecutor.cfg` with `MaxLate = 2`, `DayCountMax = 3`, `Lots = 1` | Two requests of one proposal are late: the first lands while the second is queried, is taken for it and cancelled; the taker phase is sent for the whole proposal, and then the second one lands too. `NoOverfill` says it for at most one late request. |
| `AnswersAreTrue` (INVARIANT) | `MCLiveExecutor.cfg` | A request lands after its intent was judged FAILED; its order is on the book, or is taken for that of the next intent in doubt. |
| `NothingInDoubt` (PROPERTY) | `MCSharedRoundsOverlap.cfg` | The symbol lock is freed with the timeout row; an overlapping round with an older copy sends. |
| `EnvelopeKept` (PROPERTY) with `EnvelopeTotal = 1`, `TripIsForGood` (PROPERTY) | `MCSharedRoundsLedger.cfg` | Overlapping rounds buy beyond the total or count an order twice, and write an old state over the trip lock. Both hold when the rounds take turns. |
| `GapNotCounted` (PROPERTY) | `MCDualReconcilePair.cfg` | A round that audits while the connection is down charges what it lost. |
| `RealignAfterReconnect` (PROPERTY) | `MCDualReconcile.cfg` with `Lots = 1` | The reconnect mark is cleared before the queries; one raises and the next round audits. |
| `OwnTradesExplained` (PROPERTY) | `MCDualReconcile.cfg` with `Lots = 1` | An own fill between two queries of one round is unexplained for that round. |
| `ClaimsAreTrue` (INVARIANT) | `MCSegmentedRaw.cfg` with `MayPause = TRUE` | A writer that is silent for the whole cutoff and then goes on writes to a segment the recovery has published. |
| `EveryCleanDayMerges` (PROPERTY) | `MCTradeDays.cfg` with `TradesOf <- RepeatsFirst` | The compaction stops at the first day it refuses; the days after it stay in pieces. |
| `HeadsResolve` (INVARIANT) | `MCColdMigration.cfg` with `Crossing = TRUE` | Activation verifies, a materialization that started before registers its output on the hot side, the route is switched: the head's path leads to the cold disk, which has no such file. The same with a release beside a roll back. |
| `CanBeTakenBack` (INVARIANT) | `MCColdMigration.cfg` | An output is registered under an active prefix: every command refuses the old plan ("必须重新规划", `data/cold_storage.py:358`) and `create_plan` needs a planned route, so no command serves that prefix again. |
| `BurnedVerifiedAll` (INVARIANT) | `MCHoldoutVintage.cfg` | A prediction registered after the batch was attested is not in it when the vintage burns (`src/docs/strategy-research.md:298`); finalize refuses, and the vintage is spent. |
| `FilesMatchRows` (INVARIANT) | `MCHoldoutVintage.cfg` | Two runs of one decision time: the second writes its file over the registered one and is then refused (`research/frozen_forward.py:923-925`; `src/docs/2026-09-23-compaction-task-failure-and-prediction-artifact-repair.md` tells of it, and of the lock around the caller that now keeps the runs apart). |
| `StopIsFinal` (PROPERTY) | `MCProcessManager.cfg` | A recorder outlives its stop; the next poll adopts it, and when it ends after all it is started again ("停止进程并取消自动重启", `ops/process_manager.py:321`). |
| `HangsAddUp` (PROPERTY) | `MCProcessManager.cfg` | A run is silent after 420 s and stable after 300 s, so that a hanging recorder always fails for the first time and no person is called ("连续失败达上限转「须人工」", `ops/process_manager.py:9`, `src/docs/runtime-ops.md:88`). |
| `HungIsReplaced` (PROPERTY) | `MCProcessManager.cfg` | Every kill of a hanging recorder fails: what `taskkill` answers is not read (`ops/process_manager.py:58-73, 459`), the survivor is adopted again, which clears the failures (`:413`), falls silent again, and so on; nothing collects and no person is called (`:9`, as above). `CollectsAgain` says it for kills that do not fail for ever. |
| `ThreadLives` (INVARIANT) | `MCProcessManager.cfg` | `taskkill` runs out of its time; `TimeoutExpired` is no `OSError` and ends the polling thread ("判活失败不终止守护线程", `ops/process_manager.py:368`). |
| `BackOffIsTimed` (INVARIANT) and `CollectsAgain` (PROPERTY) | `MCProcessManager.cfg` with `Faults <- AllFaults` | The log directory cannot be made after `resume_at` is cleared: the entry backs off for ever. `CollectsAgain` also fails with `"scan"` alone added: scans that fail again and again take an adopted, hanging recorder for dead before it is silent, and the next good scan adopts it and clears the failures. |
| `SpawnsAlone` (PROPERTY) | `MCProcessManager.cfg` with `Faults <- AllFaults` | A scan fails and counts as one that found nobody: the adopted recorder is taken for dead and a second one is started. |

## 5 The proofs

TLAPS proves the following for every value of the constants: any number of intents, symbols,
order numbers, rounds, rows, segments, days, artifacts, shells, vintages and processes.

**IntentLedgerProofs.** `LedgerInductive`: `LedgerInvariant` is inductive. It says that every
row of the file is justified by the rows before it (`LogJustified`), that memory reflects the
rows seen so far, all of them in a ledger in use and the first `pos` of them in a replay
(`Reflects`), and where a recovery stands (`RecoveryInOrder`). Neither `NeverCorrupt` nor
`MemoryIsDurable` is inductive alone: that a replay accepts row `n` needs that the row was valid
when written, for a memory that showed the rows before it, and that the replay has rebuilt just
that memory. The two lemmas at the centre are `ValidRowJustified` (what the writer accepts is
justified) and `JustifiedRowValid` (what is justified the replay accepts). From it follow
`LedgerTypeCorrect`, `LedgerAlwaysLoads`, `LedgerOneInFlight` (which no run checks by itself; the
refinement does), `LedgerMemoryDurable`, `LedgerOrderUnique`, the action property
`LedgerFragmentsKept`, and the refinement `LedgerImplementsLifecycle`: the complete rows of the
file, read as states and owners, take a step of `IntentLifecycle` with each append, and a stutter
with everything else. Assumptions: `SymbolAssumption` (every intent has a symbol),
`NoOrderAssumption` and `NoIntentAssumption` (the markers are not values). `MaxRows` bounds the
file for TLC and the proof asks nothing of it.

**LiveExecutorProofs.** For any number of intents, lots, late requests and failures:
`RoundsInOrder` (`ExecutorInvariant` is inductive) and from it `RoundsTyped`, `EveryWriteIsSeen`,
`LockStays`, `AnswersHold`, `ProposalsFit` and the refinement `RowsAreLegal`: what the rounds write
is a behaviour of `IntentLifecycle`. A round is one place in a long function, so that most of the
invariant says what is known at each place: what the ledger shows of the intents before and behind
the one in hand (`LedgerInOrder`, `StateByPlace`, `OneInFlight`), what the exchange may have of
them (`ExchangeInOrder`), which intents the plan of the recovery holds (`PlanByPlace`), where the
breaker stands (`BreakerByPlace`), what the day's counters and the usage file already contain
(`DayIsCounted`, `UsageIsComplete`) and what the state file says of the lock (`LockIsKnown`). The
part that matters for money is the accounting of the two phases: `DelaysAreCounted` and
`MistakesNeedDelays` say that a match can take an order for another only if a request was late,
one late request for each mistake, and `PhasesFit` bounds what both phases of a proposal can have
executed, mistakes included. `ProposalsFit` follows for `late <= 1`; section 4 has the behaviour
with two. Assumptions: `BoundAssumption`, `OptionAssumption`.

**SharedRoundsProofs.** For any number of overlapping rounds: `RoundsTyped`, `RoundsOneSender`
(at most one request of a symbol is out) and `RoundsGatesSeeLoaded` (no round passes its gates
without the cost of what its ledger shows as sent). `RoundsInvariant` adds to the types that who
sends holds the lock of its symbol alone (`SenderHoldsLock`), that an intent a round has marked
is in its copy (`MarkedAreKnown`, without which a row it appends could bring an uncounted intent
into the copy), and that everything in the copy is counted, sent or not (`GatesSeeCopy`, since
recovery turns what is interrupted into what is sent). `StepBeside` carries the interleaving: a
step of one round leaves the memory of the others alone. If rounds take turns (`~Overlap`, a
hypothesis of each theorem), also `TurnsReplay`, `TurnsKeepEnvelope` and `TurnsKeepTrip`: the ledger
always loads again, no buy passes the total and all orders pass it by one sell at most, a trip is
for good. What the rounds write together is then a
life of every intent along the table (`TurnsFollowTable`), with one intent of a symbol in flight or in
doubt (`TurnsOneInDoubt`) and no send beside one in doubt (`TurnsNothingInDoubt`, which section 4
refutes for overlapping rounds; TLC finds the other two violated there as well, and all of them true
when rounds take turns). `TurnsTellTheTruth` (what the ledger calls refused or failed is no order)
holds of this module, where no request lands late; `AnswersAreTrue` in section 4 has those. They rest
on `WritesTruth`: every row a round appends, on the strength of its copy, is one of six that the
files and the exchange bear out. `TurnsInvariant` says how a turn makes them
true: one round is alive (`OneAtATime`) and its copies are the files (`CopiesCurrent`), so that the
move it checks against its copy is the move the replay checks; what it marked is in doubt in the file
(`MarkedInDoubt`), it sends its own proposal only (`SendsOwn`), a cost is counted for an intent of the
file (`CountedAreKnown`) and once (`CountedOnce`), a round that buys has room for one more unit
(`RoomForOne`), and one that trips does nothing after it but save (`TrippedIsLast`). The bound on all
orders, sells included, needs the rows of usage that are not written yet: only the last intent may
lack one (`OneUncounted`, since a round that decides has counted what it loaded), so that a round
which starts below the total finds no more intents than the total and adds one (`RoomToExit`). The usage is a fold over the file; that
adding one row adds its cost is shown by a smallest set for which it fails, since the strict
inclusion of finite sets is well founded. Assumptions: `BoundAssumption`, `OverlapAssumption`.

**SegmentedRawProofs.** For any number of segments and frames, on two levels. Whatever the clock
does, `FramesInductive` and from it `RunTyped` and `FramesAreKept`: an acknowledged frame stays on
a complete line of one of the files, through failed appends, failed roll-backs, rotations and
recoveries that stop anywhere. `FramesInvariant` follows the bytes: what the writer's handle, the
open file, the renamed file and the sealed one hold of each other at every place of writer, scan and
audit. For `~MayPause`, `ClaimsInductive` and from it `RunClaimsAreTrue` and `ManifestsStay`: a
manifest says what its segment holds and is never replaced by another. `ClaimsInvariant` adds what each
actor has read and may still rely on (`HandleFits`, `RenamedFits`, `SealsFit`, `TerminalFits`,
`ScanFits`, `AuditFits` over `FilesFit`), and `AgesFit`, which carries the argument: without a pause a
file as old as the cutoff has no living writer, so that a recovery past its examination is alone
with the segment. With a pause it is not, and section 4 shows what happens then. Assumption:
`BoundAssumption`.

**DualReconcileProofs.** For any orders, lots, connections and failed rounds: `SessionTyped`,
`StoreIsReal`, `StoreAdvances` and `AuditIsExact`. `SessionInvariant` (`SessionInductive`) says that
whatever is used was true once and still bounds the present: of a frame (`WireIsPast`), of the list of
open orders, read three queries before it is merged (`ListedFits`: it is ahead of the store, and what
the store holds open and the list lacks is closed), of the orders that are looked up (`StaleFits`), of
executions and balances (`ReportedFits`, `BalanceFits`), of the expectation of the asset audit
(`BaselineFits`: the foreign lots of the baseline and the own fills explained since). With `StoreIsPast` it
gives one relation between an order before and after any step (`Follows`), from which both `ViewIsReal` and
`ViewOnlyAdvances` come. `ViewIsReal` alone is not inductive: an old list could reopen an order, or an
empty answer close one that stands. The audit compares lots (a fold over balances) with fills (a
cardinality); `TotalCounts` shows that they agree. That `ForeignIsUnexplained` asks for no own fill
between two reads that must agree is the race of the code, see `OwnTradesExplained` in section 4.
Assumptions: `OrderAssumption`, `LimitAssumption`.

**TradeDaysProofs.** For any stream of segments: `DaysTyped`, `DaysActiveOnce` and the refinement
`DaysImplementFacts`. The invariant `DaysInductive` keeps (`HeadsInvariant`) says, beside types
and disjoint heads, how attempts, heads and the work of the lock holder hang together: the rows of
a completed attempt are active somewhere, a segment's head holds its rows, a day's head holds rows
of that day's segments. `CycleIsDue` says that what a materializer has in hand has no completed
attempt, so publishing it adds no row that is already under another head; `CompactionTakesDays`
that the members of a merge are the active heads of that day, so replacing them loses nothing.
Assumption: `StreamAssumption`.

**OperationsProofs, ColdMigration.** For any artifacts and any number of shells: `ColdTyped` and
`ColdCopyStays` whatever crosses whatever, and `ColdHeadsResolve` for `Crossing = FALSE`.
`HeadsResolve` is not inductive: a switch acts on what was verified minutes before.
`MigrationInvariant` adds that while a switch is pending nothing that could undo what it verified
runs (`SwitchIsAlone`), and that a release or a materialization works on the side the route shows
(`WorksOnRoute`). The theorem names the condition under which the code's checks are enough; the
configuration in section 4 shows that without it they are not. Assumptions: `FilesAssumption`,
`DecaysAssumption`.

**HoldoutVintageProofs.** For any intervals, predictions and number of processes: `HoldoutTyped`,
`HoldoutSealedUnseen`, `HoldoutLabelsOnce`, `HoldoutVerdict` and the refinement `HoldoutImplements`
of `HoldoutLifecycle`. What a process read before a transaction may be out of date when it acts, so
`HoldoutInvariant` says for each place of a process what is still true of what it holds
(`ProcessHolds`), that no two processes hold the burning of one vintage (`BurnersAreAlone`), that
what was used had happened (`UsedHasHappened`, without which an interval could be sealed that a
reader with a later clock has seen), that vintages in force do not overlap (`AliveAreApart`), and
that labels are open from one opening on, after the burning and before the verdict
(`OpeningsAreOrdered`). Assumptions:
`VintagesAssumption`, `ProcsAssumption`, `BoundsAssumption`.

**OperationsProofs, ProcessManager.** For any number of processes and failures and any
selection of faults, each any number of times: `ManagerTyped`, `ManagerStopHolds` whatever goes wrong,
and `ManagerSpawnsAlone` if scans do not fail; section 4 shows that they must not. `ManagerInvariant` ties what the manager holds to the scan it made: a
fresh scan shows everybody but the child and what was started since (`ScanShows`), a child was
started after a scan that found nobody (`HeldIsScanned`), a stop has looked (`StopFindsNobody`), and
after a stop nothing is left to adopt (`StoppedIsOver`). What
outlives its kill is in no scan made while it was the child; the proof rests on `Terminate`, which
then waits for longer than such a scan stays fresh. Assumptions: `FaultAssumption`, `LimitAssumption`.

Every safety property of a passing run is proved. **Only model-checked** is liveness (`ClosedIsSeen`,
`FillsAreSeen`, `AbandonedIsPublished`, `SealedIsActive`, `DaysMerge`, `CollectsAgain`), which is out of
the prover's reach, as is `ENABLED`; so are the absence of deadlock and the properties of section 4,
which are false. Induction over data is out of reach in that the induction theorems of the library
take an operator; what is said of folds above goes by a smallest counterexample.
No module declares a RECURSIVE operator.

## 6 What is not modelled

- *IntentLedger*: lineage fields, schema versions other than their missing mark, the text of a
  row, two processes on one file (`SharedRounds` has them, without torn rows). In particular the
  truncation of a torn row against another process's append is not modelled.
- *LiveExecutor*: all prices are equal, so a size is a notional; one trading day; one process; one
  symbol. Price pause, loss baselines and the first-order canary are a free verdict. The window
  of the latest executions holds every fill. An order carries the number of its intent.
- *SharedRounds*: one order of one unit a round, a buy or a sell; recording and the gate's or lock's
  verdict on it one step; no day limit; a trip is a free choice; usage and state are read in one
  step at the start. No flatten: its market sells have no price, no row in the usage and no gate, and
  are outside the bound of `EnvelopeKept`.
- *DualReconcile*: a query answers with what the exchange has at that moment; fills of one lot at
  one price and side; orders are mapped from the start; the wait, the maintenance pause, the
  observer and the reports are left out; the bulk cancel of a trip is a cancel that may happen.
- *SegmentedRaw*: POSIX semantics of a rename are assumed (the handle stays on the file; on
  Windows it fails instead); the file that vanishes between `.exists()` and `.stat()`
  (`data/segmented_raw.py:979-982`) is a scan that dies. Nothing in the repository calls
  `reconcile_unfinished_segmented_runs`, so it is possible and not fair; a run whose
  writer dies between the removal of the checkpoint (`:923`) and its run manifest is closed by
  nobody, which no property denies.
- *TradeDays*: one normalization version; raw files that do not change; a corrupt manifest, which
  stops a cycle; the reuse branch of `compact_day`, which a plan never reaches; the 120 s limit of
  the lock is a failure. An `orphan` is the `running` row of a process that died.
- *ColdMigration*: hot copies do not go bad; temporary files (several copies of one plan racing on
  one `.partial` name, left-overs that make `create_plan` refuse); receipts and the progress file;
  the check of roots, and a cold disk that is off, which is a command that fails; the file an
  output writes before it is registered; the restore of pairs of order-book files.
- *HoldoutVintage*: one market and one candidate set; a lock is waited for less than a bar;
  exposures are their furthest bar; evidence files, receipts, families and suites are what a plan
  or a preflight says of them; only intervals in `Planned` get a forward plan.
- *ProcessManager*: entries that do not restart or have no heartbeat (none are registered), a system
  without the Windows process list, where a scan finds nobody; a number that is given to another
  process; a scan that takes longer than it stays fresh; a second query service; the event file; a
  `popen.terminate()` the system refuses (`PermissionError`), which ends the call with nothing changed
  but the failures of a stable run; refused for ever, it is one more way to hang and not be replaced.
- Components with `not_modelled` in `PROJECT.json` carry their reason there: numerical research
  code, network I/O and parsing, read-only reports, or a place in the plan. Most of the
  repository's lines are of that kind (factor expressions, tensors, features, heat maps, parsers
  and format conversions, reports): they keep no state that two actors share and have nothing a
  state space shows.

## 7 Plan

Done, in this order: `IntentStates`, `IntentLifecycle`, `IntentLedger` and its proofs;
`LiveExecutor`; `SharedRounds` and its proofs; `DualReconcile`; `SegmentedRaw`;
`HoldoutLifecycle`, `HoldoutVintage` and its proofs; `ActiveFacts`, `TradeDays` and its proofs;
`ColdMigration` and its proofs; `ProcessManager` and its proofs; the proofs of `LiveExecutor`, of
`SharedRounds` under turns, of `SegmentedRaw` and of `DualReconcile`.

1. Refinements to state and prove: that `SharedRounds` under turns implements `IntentLifecycle`, as the
   ledger and one market's rounds do, once recording and sending are two steps of it (what it asks of
   the rows is proved: `TurnsFollowTable`, `TurnsOneInDoubt`); an abstract picture of an order (unknown, standing, closed, with
   lots that only grow, behind the exchange) that `DualReconcile` implements.
2. `TimeoutQueue` with `RiskGates` – back-off queue over the ledger, limit gate over several
   days, tightening and seeding, as a refinement of "every in-doubt intent is queued".
3. `HeadPublication` – the unknown outcome of a commit of a head, for books and klines.

## 8 Running it

In this directory, with the TLA+ tools and the community modules on the path:

    tlc -workers 2 -config MCIntentLedger.cfg MCIntentLedger
    tlapm IntentLedgerProofs.tla

The largest runs are `live_rounds` with 4.5 million states, two minutes, and `holdout` with two
million.
