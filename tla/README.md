# TLA+ verification of the paper-trading bot

This directory models the Go program of this repository (`cmd/paper-bot`,
`internal/`): a research bot that discovers new Solana pools, judges them,
opens *paper* positions under a quota, watches them and closes them. The state
lives in PostgreSQL, the work is done by one goroutine on two tickers, and
every external call may fail, be late or be lost with its effect done.

- `MCx.tla` and `MCx.cfg` are instances of module `x` for TLC.
- `xProofs.tla` holds theorems about `x` for every value of its constants.
- Comments in the modules name the code, by file and line where it matters.

## 1. Inventory

| Component (source) | State it keeps | Operations | Correct when |
|---|---|---|---|
| Admission ledger (`postgres/admission_repository.go`) | `daily_results.daily_admitted_count` per UTC day, decisions, positions | `Admit`, SERIALIZABLE, retried on 40001 | quota and slots hold under any interleaving; one decision per key; rejected or failed calls spend nothing |
| Paper positions (`postgres/positions.go`) | position row, marks, events | `Open`, `RecordMark`, `RecordNoRoute`, `ListOpen` | filled once, ended once, never changed after the end; the streak of missed routes is the true one |
| Exit policy (`domain/exit.go`, `money.go`) | none | `NewExitMark`, `Decide`, `RealizedPNLMicros` | integer rounding never moves an exit; a position loses no more than it cost |
| Position manager and paper broker (`application/position_manager.go`, `paper_broker.go`) | none of their own | a pass over open positions; a simulated fill | every open position is looked at and exits |
| Cadence (`application/split_cadence.go`) | two tickers | scan, monitor, retry, one after another | no job is shut out; cancellation ends the process |
| Market retry queue (`postgres/market_retry_repository.go`, `application/market_retry.go`) | five `bot_states` rows | `Schedule`, `ReserveDue`, `Complete` | bounded, spaced, fair; expiry stands |
| Future pool watches (`postgres/future_pool_watch_repository.go`) | five `bot_states` rows | `Watch`, `TakeDue` | a pool taken at its launch is evaluated; a full store gives up the nearest launch only |
| Production scan (`application/production_scan_job.go`) | activity records | `RunOnce`: take due watches, discover, watch or evaluate and maybe open | nothing taken is forgotten; errors are contained |
| Discovery (`application/discovery.go`, `two_source_pool_discovery.go`, `postgres/candidate_repository.go`) | candidates, watermark, coverage gap | `Run` over provider pages | the watermark never passes a pool that was not persisted |
| Automation wiring (`cmd/paper-bot`) | activity log, reports | start, stop, `runScanAndReport`, `runPositionMonitorWithActivity` | the process stops; no pass is on record as ended without its start; records go on after a clock is set right |
| Daily results (`postgres/daily_result_repository.go`, `application/daily_reporter.go`) | realised result per UTC day and strategy version, a report file per day | `Reconcile`, `List`, `Write` | a day's result is the sum of the returns its positions ended with; a report lacks only what ended after it |
| Dashboard activity (`postgres/dashboard_activity_repository.go`) | two bounded newest-first lists | `Append`, `AppendReviewed` | ordered and bounded, so that they can be read back |
| Social evidence (`postgres/social_evidence_repository.go`, `application/social_analyzer.go`, `domain/social.go`, `social_policy.go`) | request count per UTC day | `Reserve`, `Save`, the metrics, the score, the thresholds | budget kept; every admission paid for; the counts add up |
| Candidate policy (`domain/policy.go`, `money.go`, `percentage.go`) | none | rule evaluation in fixed point, judged again at admission | exact at every boundary; what is eligible can be admitted |
| Verdicts, HTTP clients, configuration, HTTP API, dashboard, ORM | see section 8 | | |

How they interact. `main.go` starts the HTTP server and one automation
goroutine. `SplitCadence` calls the scan, then the monitor, then the retry, and
from then on whichever ticker is ready. A scan takes due watches, runs
Discovery, and for each candidate stores a watch, skips it, or evaluates it:
market evidence (whose absence schedules a retry), social evidence, a verdict, a
quote, `Admit`, and the broker's `Open`. A retry reserves one queued pool and
evaluates it the same way. A monitor pass quotes each open position, and records
a mark, a close or a missed route. After a scan the day's result is reconciled
and reported. Components share the database only, and the goroutine is the
only writer in production; the repositories are nevertheless written for
several processes, and are modelled so.

What is hard: transactions of two writers between load and conditional update;
serialization failures and lost acknowledgements; a failure between two calls
of one job, each of which is committed on its own; jobs cut off by their
timeouts or by a restart; select's random choice between ready tickers; five-row
queues at their limit; pages that shift while they are read; UTC midnight;
truncating integer division. `PROJECT.json` lists each hazard at its line
with the properties that would catch it.

## 2. Modules

| Module | Models | Properties |
|---|---|---|
| `PaperLedger` | rows and states that admission reads | |
| `Admission` | abstract: an admission in one atomic step | (specification) |
| `AdmissionTx` | `Admit` statement by statement; `Begin`, `Reserve`, `Check`, `Commit`, `CommitUnacknowledged`, `Fail`, beside `Reconcile`, the other writer of `daily_results` | `QuotaAccounted`, `OpenPositionsCapped`, `AdmittedOnce`, `AttemptsPaidFor`, `AdmitsAtomically` |
| `PositionRows` | rows, marks | |
| `Positions` | abstract: the life of a position, one atomic step per observation | (specification) |
| `PositionTx` | the three transactions at READ COMMITTED: `Load`, `LoadMarks`, `Update` or `Conflict` | `StreakCounted`, `LifeRecordedOnce`, `ExcursionsAreReal`, `FrozenAtTheEnd`, `ImplementsPositions` |
| `FixedPoint` | truncating division, rounding to basis points, P&L of a return | |
| `ExitPolicy` | net output, return in basis points, decision | `ExitsAreExact` (in `Policies`) |
| `CandidatePolicy` | the rules of `CandidatePolicy.Evaluate`, the guard of admission | `RulesAreExact` (in `Policies`) |
| `SocialPolicy` | metrics, score and thresholds of posts | `MetricsAreConsistent` (in `Policies`) |
| `Policies` | the three together, asked one thing at a time | `ExitsAreExact`, `RulesAreExact`, `MetricsAreConsistent` |
| `PositionMonitor` | positions from admission to close under the one goroutine; uses `ExitPolicy` | `OldestFirst`, `PassesAreThorough`, `EveryPositionExits`, `PendingReplayed` |
| `Cadence` | tickers, jobs that take time, select, cancellation | `MonitorBetweenScans`, `MonitorIsPrompt`, `StopsPromptly`, `MonitorKeepsRunning`, `CancelledStops` |
| `MarketRetry` | the queue and the jobs that use it | `TurnsAreFair`, `ExpiryStands`, `RetriesAreSpaced`, `OnlyTheOldestGivesWay` |
| `FutureWatch` | `TakeDue`, `Watch` and the scan around them, row by row | `DueAreEvaluated`, `OnlyTheSoonestGivesWay` |
| `Discovery` | pages, merge, candidates, watermark, coverage gap | `NoSilentHole`, `WatermarkAdvances`, `BehindForGood` |
| `DailyBook` | abstract: a position is booked once, a day's result is the sum of what is booked there | (specification) |
| `DailyResults` | marks and closures with their times, `Reconcile`, `List`, `Write` at the end of a scan | `ImplementsBook`, `OnlyTheTailIsMissing`, `TerminalReturnsAreTyped` |
| `Automation` | the goroutine's jobs call by call: activity log, social budget, admissions | `LogStaysReadable`, `PassesArePaired`, `RefusalsEnd`, `BudgetPaysForAll` |

How the modules compose. `PositionMonitor` uses `ExitPolicy`'s operators and takes each
repository call as one step, which `AdmissionTx` and `PositionTx` justify: they implement
`Admission` and `Positions`. `Automation` has the whole way of a candidate through one scan,
from the social request to the fill, beside the log that all jobs share; what happens
inside its steps is in `AdmissionTx` (`Admit`), `PositionMonitor` (`Open`) and
`DailyResults` (`Report`). `Cadence` shows that passes and scans alternate at all, which
`PositionMonitor` assumes as fairness.

How state and actions correspond to the code:

- **AdmissionTx.** `quota`, `ledger` and `today` are the committed rows and the
  clock; `rowLock` is the lock that the counter's conditional UPDATE takes; `call`
  is what a transaction has read: its day and its snapshot. Serializable
  isolation is modelled by what PostgreSQL guarantees: an UPDATE of a row that
  moved since the snapshot fails (`CounterMoved`), and so does a commit whose
  reads another committed transaction has outdated (`Overtaken`). A commit
  may take effect without its caller learning of it. A reconciliation
  (`daily_result_repository.go:96-112`) writes the day's row as well and leaves the counter
  alone: `missed` holds that one did so since the snapshot, and `reconciled` counts them.
- **PositionTx.** Each statement sees what is committed when it starts. `local`
  holds the row as loaded and the returns of the marks as loaded; the WHERE clause
  of the update is `RowStillMatches`. From the update on the row is locked, so
  update, event and commit are one step.
- **PositionMonitor.** One job at a time; a repository transaction is one step,
  as `PositionTx` and `AdmissionTx` show. `held` is a position's age, `heldAt` its age
  at the manager's `Now`. Any failure but a missing route ends the pass.
- **Cadence.** A step of `Elapse` is one unit of time. `longest` is how long each job
  takes at most in this behaviour; a job may end any time before. A ticker's
  channel holds one tick.
- **MarketRetry, FutureWatch.** A row is a key's entry. `jobNow` is the job's `Now`,
  which stays where it was when the job began while the clock goes on. A tombstone
  is an entry that is not active. `tried` is the real time at which a pool was reserved or found
  without evidence, and how long the job had run by then, since the code counts the interval
  from the job's start (`production_scan_job.go:155`). A scan that fails on a pool takes no lease
  and leaves the queue as it is (`Abort`).
- **FutureWatch.** `unread` are the rows that the loop of `TakeDue` has yet to look at; a
  failure between the eviction and the save of `Watch` is a step of its own. Equal launch
  times leave the choice to the order in which rows are read, which is left open.
- **Discovery.** `listed` is what GeckoTerminal knows, which grows at any time and in
  any order of creation; a page (`GeckoPage`) is a slice of it at the moment it is fetched.
  `Hints` are the pools that DexScreener resolves: any few, listed by GeckoTerminal or not, and
  with a time of creation of its own (`DexAt`). The merge is of records, a pool and its time
  by one source; DexScreener's account of a pool comes first (`Union`), then age and identity
  order them and the cap cuts (`Merge`). A watermark is the time and address of such a record, so
  it may be of a pool that only DexScreener has, and never be met again.
- **DailyResults.** A mark bears `Stamp`, what the repository's clock reads at its commit;
  `closedAt` is stamped by the same transaction. A scan goes through `reconcile` and `write`
  with the UTC day of its `jobNow`; `Abort` is an error, a timeout or a restart at any of
  these points, and a `Reconcile` may commit without being acknowledged. Where two marks
  have the latest time, `LatestReturns` holds both.
- **Automation.** `stage` is where `evaluateAndMaybeOpen` is with the candidate at hand. The
  log is changed by `AppendActivity` only, which reads, checks, prepends, cuts, checks and
  saves. Scan records are best effort (`TryAppend`); a monitor's STARTED is a condition of
  its pass. Everything a job writes bears its `jobNow`.
- **Policies.** Evidence and posts are records of what the rules read. A ratio is the
  pair of its integers; a percentage that is parsed from text is a fraction.

## 3. Runs

| Run | Question | Bounds and why they are enough |
|---|---|---|
| `admission` | can any interleaving break quota, slots or the key, and is it an atomic admission? | 2 callers, 3 keys, 2 days, 1 slot, quota 2, 3 attempts: both callers compete for the last slot on one day and across midnight, the quota fills up while a position closes, and a caller can lose as often as admissions and reconciliations commit; 1 reconciliation (`MaxReconciles`) |
| `positions` | do two writers keep streak, events, excursions and the frozen end? | 1 position (rows of different positions share nothing), 2 writers, 4 marks, a limit of 3 missed routes: a streak may start, break and end under a rival |
| `policies` | does rounding ever move an exit or a rule, and do the social counts add up? | exits: 3 costs, two of them not divisible, fees 0 and 7, every output up to beyond take-profit, holding time below and at its limit; candidates: every pair of up to 4 buys and 4 sells around a limit of two thirds, every price change from below its lower to above its upper limit in halves and thirds, seven defects; posts: every sequence of 3 out of two authors, two minutes, three texts, replies and reposts |
| `monitor` | is every pass thorough and does every position exit? | 3 positions and slots, 2 missed routes, time limit 2, one restart; quotes for stop-loss, hold and take-profit |
| `monitor_collapsed` | the same with a quote not above the exit fees: **violated** | 2 positions |
| `monitor_pending` | does a PENDING position leave that state? **violated** | 2 positions, one restart |
| `cadence` | how long may a monitor pass be kept waiting, and does the process stop? | units of 5 s: production's intervals of 60 and 6; two brisk workloads, one at the very limit of `Brisk` and one with scans shorter than a round of monitor and retry, and production's, whose jobs take up to their timeouts |
| `market_retry` | is the queue bounded, spaced and fair? | 3 pools on 2 rows, retries every 2, expiry after 5, age limit 7, 6 units of time: the queue overflows, entries expire, leases end |
| `future_watch` | are taken pools evaluated and evictions right? | 5 pools, two launching together, on 3 rows, a cap of 3 candidates, expiry after 2, evaluated for 2 units after launch, 7 units of time: rows expire, fill up and are taken in every order |
| `discovery` | does the watermark ever pass a pool unseen? | 6 pools, several of one age, two of them mints of one address, two dated differently by the two sources, pages of 3; production's configuration (one page, any one pool of DexScreener beside it, a cap of 2) and the tests' (two pages of one source) |
| `daily_results` | is a day's result the sum of what ended on it, and what can a report lack? | 2 positions of two strategies, 2 marks each, two days of 2 units, one clock set back: a position may end on either side of midnight, and before, during and after a scan |
| `automation` | does the log survive, are passes paired, is every admission paid for? | 2 pools, a log of 3 records, 2 requests a day, two days of which the second has begun, one clock set back: the log overflows, a record is refused, the budget is spent by two jobs |

Constants that stand for the clock or a counter (`MaxDay`, `MaxTime`, `MaxMarks`,
`MaxReconciles`, `MaxCrashes`, `MaxWait`, `MaxBack`, `MaxSetBacks`, and the input
bounds of `MCPolicies`) bound the instance only and are named as bounds where they
are declared. Symmetry is used for callers, writers and (in `automation`)
pools, in runs without liveness.

### Disagreements with the documents

The two runs marked *violated* check what a document says:

1. `context/workflows.md:17`, "Recovery replays pending paper-position state
   idempotently". Nothing reads PENDING rows back. A failure or restart between
   `Admit` and the fill leaves the position PENDING for good; its key is taken, and
   it holds one of the slots.
2. `context/architecture.md:35`, exits at -20% and at 45 minutes. A quote that does not
   exceed the exit fees gives a net output of zero, which `RecordMark` rejects
   (`positions.go:141`): the worst losers are never closed.

Two more statements of design documents do not hold, and the properties that do hold
were stated around them. The retry design's "hard expiry 10 minutes after the first
scheduling opportunity": the first expiry lives in the row, so when the row is cleared or
reused, a scan that meets the pool again begins ten new minutes; `ExpiryStands` holds an
expiry while the pool is queued. The two-source plan's "evaluated exactly once at/after
launch": a scan that fails after `TakeDue` drops the pool, and one that also discovers it
evaluates it twice; `DueAreEvaluated` speaks of scans that end without an error.

Further limits that the properties document rather than refute. With jobs that
use all of their timeouts two scans may run back to back any number of times, and
only select's random choice lets the monitor in; `MonitorBetweenScans` holds for
workloads that are `Brisk`: monitor and retry together take at most half their interval. It is
not enough that they take less than the interval. With an interval of 4 of which they may use 3,
rounds that follow each other without a break hold up a scan (of 4, every 13) for so long
that the next one's tick is there when it ends, and two scans follow one another. A market whose quotes always fail ends each pass
before the younger positions are reached; `EveryPositionExits` assumes that failures
end. In production a discovery that starts five pools behind never meets its
watermark again (`BehindForGood`). Nor does one whose watermark is DexScreener's, of a pool
that GeckoTerminal does not list or dates otherwise, once the profiles no longer show it: each
scan then records a coverage gap. `NoSilentHole` speaks of pools that are younger than the watermark
by both accounts of their age (`Younger`); by GeckoTerminal's alone TLC finds a hole, a pool that
DexScreener dates below the watermark and the cap cuts. The comment on `Watermark`
(`domain/candidate.go:62`) calls it the oldest pool of a complete scan; it is the newest.
A retry counts its interval from the start of the job that found no evidence, so after a scan
that had run for 30 seconds by then it may follow at once; `RetriesAreSpaced` bounds how early it
comes, and a scan whose evaluation fails promises no spacing at all. A position that ends after the last completed scan of its
UTC day is in no report (`OnlyTheTailIsMissing` says that nothing else is). With a clock set
back while a position is open, the mark with the latest time may not be the last one, so
`ImplementsBook` and `TerminalReturnsAreTyped` hold while times are in order; and records of
the activity log, with them monitor passes, are refused until the clock is where it was
(`RefusalsEnd`).

## 4. Fairness

- `Cadence`: time passes and jobs end at their timeouts (weak fairness), and select,
  which picks uniformly among the ready cases, does not pass one over for ever
  (strong fairness per case). Nothing is assumed of cancellation.
- `PositionMonitor`: passes start again and again (which `Cadence` shows), a running job
  ends, time passes, and a position asked about again and again is answered some
  time (strong fairness: failures are transient). Nothing makes the broker
  succeed and nothing admits a candidate.
- The other modules state safety only.

## 5. Proofs

Every invariant and action property that a run checks and that holds is a theorem here, for
every value of the constants that meets the assumptions named in the modules. Where `TypeOK` is
an invariant of no run it is a theorem all the same (`TypeCorrect`). None of the properties is
inductive by itself; what had to be added says what a job or a transaction in flight
may rely on.

- `AdmissionTxProofs`: `QuotaAccounted`, `OpenPositionsCapped`, `AdmittedOnce`, `AttemptsPaidFor`, and that
  `AdmissionTx` implements `Admission`, for any set of callers and keys, finite or not.
  An attempt is paid for by an admission or a reconciliation that committed since the one before.
  `CallerInv` is about a transaction in flight: its snapshot is a prefix of the ledger as far
  as rows go; once it has passed the counter's UPDATE it holds the row lock and the counter
  still has the value of its snapshot, below the limit; once it has counted the active
  rows of its snapshot they were below `MaxOpen`. The commit's serializability check turns
  the snapshot's count into the ledger's. The module begins with lemmas about counting rows
  of a ledger that grows or changes one state.
- `PositionTxProofs`: `StreakCounted`, `LifeRecordedOnce`, `FrozenAtTheEnd`, `ExcursionsAreReal`, and that
  `PositionTx` implements `Positions`. After `Load` a writer may rely on its own copy of the
  row only (`WriterInv`): an update changes the row only when state and count are as loaded,
  so its own count is the streak at that moment. For the excursions it suffices that the
  returns a writer has read stay recorded (`PriorInv`), and that a finite set of integers has
  one highest and one lowest element.
- `MarketRetryProofs`: `ExpiryStands`, `RetriesAreSpaced`, `OnlyTheOldestGivesWay`, `TurnsAreFair`. The invariant adds
  that no expiry lies beyond the pool's age limit, that there are retries only if an entry
  can outlive its first wait, and that a pool that was tried waits for the interval, counted from
  the start of the job that tried it, or has no time left for another lease (`Spaced`). For the turns: as often as a live pool has
  been passed over, and as many pools as are still before it, together are fewer than the
  rows (`FewBefore`). A retry that passes it over takes a pool that was before it and leases
  it to a later time; a pool that is scheduled or leased comes after all that were passed.
- `DiscoveryProofs`: `NoSilentHole`, `WatermarkAdvances`, `BehindForGood`, for any two accounts of the pools'
  ages and any pools that DexScreener shows. A page has no hole above any of its records
  (`Dense`). With one page: if a listed pool younger than a record the cap leaves in were not on
  GeckoTerminal's page, a full page of records would be as young as it (`PageIsFull`), of which
  DexScreener can replace its own part only, so that more than the cap would come before that
  record (`PageReachesDown`); hence it is on the page, the merge has a record of it above that one
  (`YoungerPrecede`) and keeps it, and such pools are fewer than the cap (`YoungerAreKept`, `Short`).
  With several pages of one source, which no cap cuts (`PageUncut`), everything up to the
  current page is a candidate (`Covered`), because pools that are listed meanwhile only push
  others back.
- `FutureWatchProofs`: `DueAreEvaluated`, `OnlyTheSoonestGivesWay`. `TakeDue` returns no more pools than
  there were rows (`TakingFits`), so the cap on candidates cuts none of them; each is
  evaluated or still ahead while the scan goes on (`DueAreHandled`).
- `AutomationProofs`: `LogStaysReadable`, `PassesArePaired`, `RefusalsEnd`, `BudgetPaysForAll`. The newest record lies
  behind the running job's time by no more than the clock was set back, and a running
  pass has its STARTED on top of the log (`NewestIsPast`); between `Reserve` and `Fetch` there
  is a request left to send, and between `Fetch` and `Admit` one that has paid for nothing
  (`LedgerInv`).
- `TradingProofs`, of `PositionMonitor`: `TypeOK`, `OldestFirst`, `PassesAreThorough`. What a running pass
  has yet to ask about and what it has marked are apart and together all it listed (`PassInv`);
  who was marked with the time up is closed or had no route (`TimeIsUp`). The list is in the
  order of `opened`, which a position joins once (`OpenedOnce`).
- `TradingProofs`, of `Cadence`: `CadenceTypeOK`, `StopsPromptly`, `MonitorIsPrompt`, `MonitorBetweenScans`. After a
  cancellation what is left of the running job fits in what is left of `PersistTimeout`
  (`DyingJob`). The rest relates the tickers to what is left of a round of monitor and retry. A
  round holds up one tick of the monitor at most, and the round that follows none
  (`OneTickARound`), so a scan that is due waits for two rounds at most (`ScanIsHeldUp`); with at
  least two intervals left after the longest scan its own ticker is then far enough off that
  the monitor comes first (`NextScanIsFar`). `Ages` turns this into a bound on `waited`. Here the
  attempt to prove corrected the model: `Brisk` had asked for too little (see section 3), and
  `MonitorIsPrompt` had left out that scans may be shorter than the first round, before which
  there are no tickers.
- `FixedPointProofs`, of `DailyResults`: `TypeOK`, `TerminalReturnsAreTyped`, `OnlyTheTailIsMissing`, and that it
  implements `DailyBook`. While the clock goes forward marks are in order (`ClockOrders`) and a
  position ends with its last mark (`EndIsFinal`); what a scan is about to write is the sum of
  the ends of its day (`Reconciled`); each report shows a set of positions that has all which
  ended before it was written (`TailInv`). That a sum over a finite set of positions exists and is an
  integer (`SumIsInteger`) is proved for the fold of the community modules: among the subsets of a
  finite set on which it would not there is a smallest one.
- `FixedPointProofs`, of `Policies`: `ExitsAreExact`, `RulesAreExact`, `MetricsAreConsistent`, for any limits and any
  input of the right type. Truncated division reaches a positive limit, or the negative of
  one, exactly when the ratio does (`QuoReaches`), and a rounded ratio is within half a unit of
  the exact one (`RoundedIsNear`). Social counts are cardinalities of subsets of the counted posts:
  originals, reposts and replies partition them (`KindsPartition`), and each repeated text has
  two posts of its own (`RepeatedTwice`, an injection).

The assumptions are types and signs of constants, and three that carry weight. `BeforeAssumption`:
the string comparison that breaks ties between rows is a total order. `SetupAssumption`: a
configuration of discovery reads one page, which holds no fewer pools than the cap and
DexScreener's part together (5 and 5 against GeckoTerminal's 20), or reads one source and keeps
whole pages. Production's is the first, the tests' the second; without it, with a shorter page or
with several that the merge cuts, `NoSilentHole` is false. That no pool is listed under two mints
(`List`) and that a page of GeckoTerminal is by age are properties of that service, taken from how
the code uses it. `WatchAssumption`: the store of
watches is no larger than a scan's cap on candidates (both are 5), and a pool is not too old
when its watch expires (30 minutes after launch, against a `MAX_POOL_AGE` of 90 minutes by
default; with less than 30 a scan would take launched pools and skip them).

`BookAssumption` and `MonitorAssumption` ask that the positions are finitely many. A brisk workload
is no assumption but a premise inside the two properties that speak of one.

Only model-checked: liveness under fairness (`EveryPositionExits`, `MonitorKeepsRunning`,
`CancelledStops`), which is beyond this prover, and the two runs that expect a violation.

## 6. Plan

Done: admission, positions, exit policy, monitor, cadence, retry queue, watches, discovery,
daily results, activity log and social budget, candidate and social policy, with every
invariant and action property that their runs check proved. Next:

1. `Automation` as an implementation of the steps that `PositionMonitor` takes for granted (admission
   followed by a fill or by PENDING for good).
2. The step of a `PositionMonitor` pass as an observation of `Positions`, so that its rows are rows
   of the abstract life of a position.
3. `ImplementsBook` for any clock: what a book would have to promise when it is set back.
4. `VerdictPolicy.Accepts` and the list of reviewed candidates.

## 7. Running

    tlc -config MCPositionTx.cfg MCPositionTx.tla
    tlapm PositionTxProofs.tla

`PROJECT.json` names each run with its module, configuration and properties, for each
property a changed definition that breaks it (the definitions marked *Mutant* in the
modules), and the source lines of every definition.

## 8. Not modelled

- `ent/` is generated from the schemas in `ent/schema`: 45,000 of the 53,000 lines of Go
  outside tests. Its builders set and read columns and have no behaviour of their own; unique
  keys and nullable columns appear in the modules where they matter. The share of the
  implementation that `map` covers is therefore small by the nature of the repository: the
  hand-written program has some 7,700 lines, of which the components above take most of what
  changes state.
- The HTTP clients: parsing and validation of responses. How pages and quotes arrive,
  fail or repeat is in `Discovery` and `PositionMonitor`. Production makes one attempt per
  request, so the client's retry loop is idle.
- Configuration, logging, the read-only HTTP API and the dashboard: no state that a
  property needs. What `main.go` decides at start is in the constants.
- Verdicts: `Reject` of `Automation` is a free choice, the acceptance threshold is not evaluated.
- The list of reviewed candidates (`AppendReviewed`): the same read, check, prepend, cut and save
  as the activity log, but its failure ends nothing.
- Texts: whether a post names the mint or warns, token names, and the observations that the
  rules report are fields or left out.
- `HintMatchedPoolDiscovery` and `fresh_scan_job.go` are not wired in production.
- Snapshots and other append-only evidence rows.
- Numbers beyond 64 bits: amounts and ratios are multiplied as `big.Int`, a ratio that does not fit
  its int64 of basis points counts as none, and the social sums are plain int64 of counts.
- A second strategy version beside the first in admission: quota counters are per version, slots
  are shared. `DailyResults` has several versions.
- Corrupt rows (undecodable `bot_states`) and operators editing the database.
