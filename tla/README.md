# BlackGold in TLA+

A verification project for BlackGold, a research and shadow-trading system: a
core process (`packages/core`) that ingests market data point-in-time, runs
scheduled jobs, keeps a hash-chained event ledger, evaluates strategies against
a pre-registered protocol and takes shadow decisions, and a broker gateway
(`packages/broker-gateway`) that is the only way from an order intent to a
broker.  Both keep their state in SQLite through `packages/shared/src/db.ts`,
whose `transaction` is the unit of atomicity everywhere below: one action of a
model is at most one transaction, or the code between two awaits when several
transactions run without giving up the thread *and* nothing can be lost between
them.

The modules are checked with TLC on small instances, and the theorems are proved
with TLAPS for all values of the constants.  `PROJECT.json` lists the runs, the
source lines each definition stands for, a plausible slip of the code that each
property catches, the hazards, and what was found.

## 1. Inventory

| Part | State it keeps | Operations | Talks to | What is hard |
|---|---|---|---|---|
| Order lifecycle (`state-machine/transitions.ts`) | none: the table of legal transitions | `isLegalTransition`, `isTerminal` | order store | which late message may still move an order |
| Order store (`state-machine/store.ts`) | `order_intents`, `order_states`, `order_transitions`, `broker_events_seen` | `persistIntent`, `transition`, `applyBrokerEvent` | gateway | duplicated, reversed and overtaking events |
| Gateway (`guards/gateway.ts`) | none in memory that matters; calls in progress | `submit`, `cancel`, `reconcile`, `onBrokerEvent` | store, broker adapter | awaits, lost answers, crashes between two transactions |
| Hard caps (`guards/hard-caps.ts`) | none | `assertHardCaps` | gateway | a second copy of limits that must not drift from the first |
| Synthetic broker (`adapters/synthetic`) | orders, event queue, fault plans | `submit`, `cancel`, `orderStatus`, `events` | gateway | races of fills with cancels, answers lost after acceptance |
| Scheduler (`scheduler/scheduler.ts`) | `job_runs` and its ledger events | `detectMissedRuns`, `tick` (`claim`, `execute`) | event ledger, job handlers | several processes on one database, crashes, handlers past their deadline |
| Serve loop (`serve.ts`, `main.ts`) | `ticking` flag, one `now` per tick | `tickOnce`, job registration, one-shot commands | scheduler, all jobs | a `now` that grows old during a tick |
| Event ledger (`ledger/ledger.ts`) | `ledger_events`, `ledger_seals` | `append`, `sealDaily`, verification | every job | stamps captured before a seal, order of stamps against order of sequence numbers |
| Point-in-time repository (`data/pit/repository.ts`) | `observations`, `pit_snapshots` (append-only) | `append`, `asOf`, `markArtifactMissing`, `createSnapshot` | adapters, research, decisions, verification | corrections, revisions and quarantines against reproducible decisions |
| Artifact store (`data/artifacts`) | files by hash, usage and budget | `put`, `get`, verification | ingest, repository | crash between file and row, usage counted per process |
| HTTP client (`data/http.ts`) | token buckets | `get` with retry and redirects | adapters | allowlist, retries, deadline and rate in one request |
| Ingest (`ingest/run.ts`, `serve.ts`) | what the repository holds | incremental range, per-source runs | adapters, repository, ledger | overlap after an outage, actions before bars, one source failing |
| Corporate actions (`data/corporate-actions*.ts`) | curated file, signature, report | reconcile, sign, ingest | repository, owner | one-sided, late and contradicting sources, edits after a signature |
| Availability (`data/lag-rules.ts`, `calendar/*`) | none | instants a fact is known from | adapters, research | holidays, weekends, disasters, delayed releases |
| Entity map (`market/entity-map.ts`) | `entity_symbols` | `register`, `close`, `applyActions`, `resolve` | shadow decisions | reused symbols, actions applied again every week |
| Halt machine (`risk/halt.ts`) | none: a function of the recorded state, the faults and a re-arm | `evaluateHaltState` | shadow decisions | stickiness, staged re-arm |
| Limits and compliance (`risk/*`, `compliance/*`) | none | checks of a book, of orders, of a candidate | shadow decisions | a limit that blocks a reduction, holdings out of order |
| Shadow loop (`decision/shadow-*.ts`) | `decision_records`, fill and reconcile events | seal, fill, reconcile, halt, re-arm | ledger, repository, scheduler | late seals, deferred fills, recurring breaks |
| Strategy (`strategy/*`, `features/*`) | none | features, candidates, weights, shares | research, decisions | a look ahead; incumbents against newcomers |
| Research (`research/*`) | registry of experiments and trials | register, evaluate, record, open, cite | repository, ledger | a holdout read too early, a verdict on windows not measured |
| Analyst (`analyst/*`) | call log, breaker | one run: packet, attempts, assessment | model, research | an answer that was not earned, spending past a budget |
| Health (`health/*`) | last full verification | probe, weekly verification | ledger, artifacts | what the cheap probe no longer covers |
| Config, status page, notifications, migrations, backup, scripts | files | parsing, rendering, delivery | all | I/O |

What makes each of the modelled parts correct:

* **Gateway.** One client order id is one broker order at most, whatever is
  retried or resubmitted; the record is on disk before the broker hears of the
  order; a row never claims more than the broker holds; PROTECTED means the
  protection covers all that is filled; terminal rows are final.
* **Scheduler.** No run's handler is called twice, across processes and crashes;
  row and ledger agree; every scheduled instant gets a row; every claim is
  settled.
* **Ledger.** A sealed day's root never changes; a job whose stamp is no staler
  than the grace window is not refused; a backlog is sealed by a later run.
* **Repository.** A snapshot's answer never changes; a decision taken before a
  quarantine reproduces, one taken after it (and the processing delay) never
  gets the quarantined artifact.
* **Data plane.** The disk never holds more than one budget for each process that
  writes to it (the hard cap itself is not kept, see section 3); what a crash
  left half done is healed when the same bytes come again; the cursor of a
  symbol leaves no session behind; a bar is never there before the actions of
  its day.
* **Corporate actions.** Only what the owner signed is stored; no record in
  scope disappears without a name; what was signed can be ingested; "two
  sources" are two publishers.
* **Entity map.** One holder of a symbol on a date; a later sync does not
  disturb an earlier decision; what ended stays ended.
* **Shadow loop.** Halts are sticky; a break nobody acknowledged holds the book;
  outcomes come in order; a deferral is not a break and a gap is reported.
* **Research.** What is cited was earned; the holdout stays sealed until it is
  opened; a rejection rests on measurements; no ranking looks ahead, and a
  decision that no later fill and no later revision reaches is the one that
  would have been taken on its day (others are not, see section 3).

## 2. Modules and how they correspond to the code

### Gateway

| Module | Models |
|---|---|
| `OrderLifecycle` | `ORDER_STATES`, `LEGAL_TRANSITIONS`, `TERMINAL_STATES` |
| `OrderStore` | the store: `row` is `order_states` joined with its intent, `seen` is `broker_events_seen`, `flagged` the orders with a `reconciliation_needed` record |
| `SyntheticBroker` | the adapter: `held` the broker's orders, `queue` its undelivered events, a fault plan per call |
| `Gateway` | composes the store and the broker, with the calls in progress (`call`) and the thread (`running`) |
| `OrderContract` | the abstract promise: record, then send at most once, then never again |
| `GatewayProperties` | the invariants and the refinement mapping |
| `GatewayProofs` | the theorems |

The gateway is asynchronous code on one JavaScript thread.  `running` names the
call that holds it; a call is split at its `await` on the adapter and, because a
crash may come between two transactions, at every transaction.  Between an
await and its continuation other calls and event deliveries run.
A broker call is one action with its effect at the broker and the outcome the
caller will see (an answer, or nothing when it is lost).  `reconcile` keeps the
status it awaited (`call[c].truth`) and uses it later, as the code does.
Intents are their kind, as `store.ts` distinguishes no more: a BUY with a
protective stop, a BUY without, a SELL.  Caps and allowlist are one choice
(refuse or pass); the caps by themselves are in `DecisionGate`.  Prices and
broker order ids are left out: nothing branches on them.  The grace period of
`reconcile` is a choice too.  External parts: the crash (losing what was drained
from the queue and not applied, if `LossyCrash`), and a sender of
`unknown_timeout` events (`Watchdog`): the store handles that event kind
(store.ts:324-327) and tests send it, no code in the repository does.

### Scheduler

`Scheduler` models a pass of a process: `detectMissedRuns` (look each instant of
the missed window up, insert what is absent; select the stale rows once, then
mark each), then `tick` (claim, start, handler against deadline, finish), with
one action per transaction.  `pass[p].now` is the single `now` of `tickOnce`.  A
run is an idempotency key with a given instant: the calendar is left out.
`covered` and `crashes` are history variables: how far contiguous completed
passes have looked, and how many processes died.

### Ledger

`Ledger` keeps `events` (an event is its instant, its sequence number is its
position: the hash chain is this order) and `seals` (a seal is the set of
sequence numbers its root was computed from).  Writers capture an instant and
append with it later, as jobs do with `ctx.now`; the seal job lists its backlog
and seals one day per transaction, then records what it did with the captured
instant; the seal command seals a day by hand.

### Point-in-time repository

`PointInTime` keeps `rows` (the id is the position) and `snaps`.  One source and
one (entity, effectiveAt) are modelled: they are the keys the repository treats
independently.  Locator, vintage, availability, artifact and flags are kept;
`given` is the flag set as it was passed to `append`, which is what the value
hash covers, whereas `flags` may also hold the CORRECTED that `append` adds.  An
artifact stands for its content: equal artifacts give equal values.
`PointInTimeProofs` has its theorems.

### Data plane

| Module | Models |
|---|---|
| `Ordered` | a finite set in an order: what a sort of distinct rows returns |
| `ArtifactStore` | files, their rows, the budget and the usage a store instance counts; pruning of backups |
| `DataPlane` | the ingest job of the serve loop and the seed from the command line, each a sequence of runs, with the store, the observations, the events and the verification |
| `HttpClient` | a request: allowlist, retries and their delays; the token bucket |
| `Calendar` | the exchange's and the agencies' calendars by rule, and the instants a fact is known from |
| `DataPlaneProofs` | the theorems about `DataPlane` |

`DataPlane` takes one step per transaction and per await: plan, fetch, file,
row, parse and commit, event.  A content is the set of sessions it carries.  The
plan is `nextIngestRange` with the cursor of each symbol, `latestAvailableAt`;
a listing is taken in its order by `Ranked`, the set of its rows with their
ranks.  `AutoActions` is the option `--actions` of the serve job; without it no
action is fetched and none is promised before a bar.
The serve job and the seed hold stores of their own, each with its count of
usage.  A crash, a failed request or a lost file may come at any step, bounded
by `MaxFaults`; a verification marks what it cannot read as missing and
quarantines its observations.

### Corporate actions

`CorporateActions` has the records of the sources and the curated file;
`Reconcile` compares vendor and publishers into entries with named
discrepancies; `CorporateWorkflow` runs the owner's cycle over them: ingest of
the vendor's rows, a run with its report, an edit of the file, the signature
over its hash, the ingest of what was signed.  Values and documents are opaque.
`Reconcile` takes the code's loops over sorted keys as choices over sets
(`Chosen`, `InKeyOrder`).  `CorporateProofs` has the theorems.

### Entity map

`EntityMap` keeps the ranges of `entity_symbols` and runs the weekly sync as the
transaction it is: on a copy, one action at a time, committed or dropped.  A
range that a later row closes keeps the instant from which its close is known,
so that a decision resolves what it could have known.  Left out: actions with
corrected rows, and seeding or registering by hand, which only tests do (the
production map starts empty).  Decisions are synced for in their order, as
weekly instants lie further apart than the lookback of the job; an action is
known no earlier than it takes effect, as the repository refuses otherwise.
What is promised to a decision is promised while it is `Undisturbed`: nothing was
backfilled under it, and nothing known later takes effect between two of the
actions it had seen (section 3 has what happens otherwise).

### Shadow decisions

| Module | Models |
|---|---|
| `HaltMachine` | `evaluateHaltState`, the faults and the floor they demand |
| `ShadowHalt` | the halt inputs read back from the ledgers: the last sealed state, the re-arms since, the breaks by occurrence |
| `Nav` | the fill simulator and the portfolio after fills |
| `Construct` | weights, caps, whole shares, and the orders of a rebalance |
| `ShadowFills` | the replayed book and the outcome of a decision's orders |
| `ShadowLoop` | composes sealing, filling, reconciling and re-arming over sessions, with late, lost and crashed runs |
| `DecisionGate` | compliance, look-through, limits of a book and of orders, and the gateway's caps |
| `ShadowProofs` | the theorems about `ShadowLoop` |

`ShadowLoop` runs the jobs of a session in the scheduler's order; a decision job
may be overtaken by the fill job of another process, both may be lost, and one
that finds its charter file replaced under the process fails.
A ledger is a log in the order of its instants; what the code finds by a scan
(the newest sealed state, the first report of a break) is the greatest or least
place in the set of places that match, and what it folds over a log
(`haltInputOf`, the record of a run's outcomes) is a function on `0..n`.
Bars may be thin or absent.  A decision's target book is one of a given set: how
it is selected is the matter of `Candidates`, which the research run exercises; how
it becomes orders and fills are the same `Construct` and `Nav` in both.

### Research

| Module | Models |
|---|---|
| `Features` | raw and total-return series as a decision sees them, and the features over them |
| `Candidates` | membership by date, selection with hysteresis and clusters |
| `Benchmarks` | blend and volatility-targeted series, placement of a weight, metrics |
| `Backtest` | decisions, fills, book and comparator over a calendar, and the evaluation of one window |
| `Aggregate` | windows pooled into the two prongs, promotion, the variations of parameters and their grid |
| `Leakage` | the auditor: what a read may have seen and what evidence it may carry |
| `Evaluate` | the charter's rules, the walk-forward plan, the evaluation, its falsifiers and report |
| `Research` | the registry over time: register, evaluate, view, open the holdout, record, cite |
| `Analyst` | one run of the analyst, its log and budget, and what an overlay arm does with it |

`Research` is a state machine over the append-only log of experiments and
trials.  An evaluation has no state of its own: it is a function of a registered
definition (`Evaluations`), computed by the pure modules and read by the action
that records its trials.  What a decision may have known is asked by running the
same loop again, ended on the day of the decision over the rows and actions known
by then (`OnTheDay`), and comparing the two decisions (`InHindsight`): nothing in
the comparison is rebuilt by hand.  The replay of either arm may throw, which
ends the run (`Thrown`).  The properties of the protocol, and of what it
computes, stand at the end of the module; what they ask of the data is in
`MarketAssumption` (the rows of an instrument are finite and numbered) and
`ScheduleAssumption` (a charter's windows lie within the calendar).  Money is exact in parts of `Scale`; levels and returns are integers in
parts of `Level` or `One`, rounded down.  The bootstrap (`Interval`) and the
volatility estimate are given functions.

The values of constants for a small instance stand at the end of the module
itself (`Scheduler`, `PointInTime`, `DataPlane`, `EntityMap`,
`GatewayProperties` for the gateway) or, where they are many, in an MC module.
Where a module is a pure algorithm, MC modules also hold the assumptions that compare it with a reference definition over bounded inputs
(`ASSUME`s of `MCData`, `MCShadow`, `MCResearch`, which TLC evaluates in their
runs).  Definitions marked `Slip:` are wrong variants of the definition they
precede; no action uses them.  They are what each property is tried against, to
see that it would catch such a slip.

## 3. What is checked

| Run | Instance | Shows |
|---|---|---|
| `gateway_concurrent` | 1 order, 2 callers, 10 fault plans, watchdog, crashes that lose events | no overstatement, protection covers, a rejected order is not held, refinement of `OrderContract` |
| `gateway_sequential` | 1 order, 1 caller, watchdog, crashes that lose no event | a canceled order is settled or flagged; missing fills are on their way or flagged |
| `scheduler` | 2 processes, 2 runs at successive instants, 1 crash, fairness | no second invocation; row, ledger and outcome agree; nothing slips between the windows; every claim is settled |
| `ledger` | 2 writers, the seal job, the seal command two days back, 1 crash, 3 days, fairness | seals hold for ever, the grace window holds, a backlog is sealed |
| `pit_decisions` | 2 locators, 2 artifacts, a revised and an unrevised vintage, delay 1, 3 rows, 1 snapshot | the past reproduces, a quarantine keeps it and excludes the future |
| `data_plane` | 2 symbols, 2 sessions, a budget of 2 files, 1 seed, 1 fault, 1 verification | how far the budget is overrun, healing of half-done writes, cursor, actions before bars |
| `ingest_cursor` | 1 symbol, 3 sessions, 1 fault, 1 verification | **refutes** that a symbol is caught up from its earliest missing session |
| `corporate_actions` | 1 fund in scope and 1 out, 3 sources, 3 days, some sixty curated inputs, 1 run, 1 edit | stored was signed, nothing dropped, what is reconciled can be ingested, two sources are two publishers |
| `entity_map` | 3 symbols, 2 entities, clock to 4, 3 actions | one holder; ended stays ended and earlier decisions stand, while undisturbed |
| `shadow_loop` | 6 sessions, weeks of 2, 2 entities, 2 troubles, 1 re-arm | the seven properties of the shadow loop |
| `research_protocol` | 4 definitions over rising, thin, holed and revised markets, 60 days, 2 experiments, 2 trials | the seven properties of the research protocol |
| `look_ahead` | the definition over the thin market | **refutes** that nothing in the loop reads a later session |

Three runs also evaluate assumptions about pure operators over bounded inputs:

* `data_plane`: the exchange closes on weekdays only and once a day, over all
  supported years (`HolidaysAreWeekdays`); the session before and the one after
  are inverse (`SessionsAreInOrder`); filings of an evening wait for the morning
  (`FilingsWaitForTheMorning`); reports come in their order and within their
  bounds (`ReportsComeInOrder`); retries and rate are bounded
  (`RetriesAreBounded`, `RateIsBounded`); pruning keeps the newest copy
  (`PruningKeepsTheNewest`).
* `shadow_loop`: no limit stands in the way of a reduction
  (`ReducingIsNeverBlocked`); the newest holdings decide in whatever order they
  came (`NewestHoldingsDecide`); the gateway's caps never let through what the
  core refuses (`CapsAgree`).
* `research_protocol`: an assessment is earned and spending is bounded
  (`AssessmentIsEarned`, `SpendingIsBounded`); an overlay only vetoes
  (`OverlayOnlyVetoes`); the leakage auditor is clean exactly of reads that saw
  nothing early, over every sequence of three (`AuditorSeesEveryLook`); membership never looks ahead
  (`MembershipNeverLooksAhead`); the grid of variations is the product
  (`GridIsTheProduct`); prongs and falsifiers agree (`VerdictsAgree`); a sound
  charter plans, and its point is registered (`SoundBoundariesPlan`,
  `SoundPointIsRegistered`).

### Where the code does not do what a comment or a test says

`ingest_cursor` and `look_ahead` each check one such sentence; `PROJECT.json`
quotes them.  The others follow from the models and have no run of their own.  The checked properties are
stated so that they hold of the code as it is.

* **Entity map.** Once the open range of a renamed or spun-off symbol was closed
  because another entity took the symbol over, applying the same actions again
  throws SymbolRangeConflictError in every later weekly sync
  (entity-map.ts:105-119), although market-entity-map.test.ts:143 calls the
  re-sync idempotent.  Shortest trace: SYMBOL_CHANGE of e from A to B at 2, then
  SPINOFF of f as B at 1.
* **Entity map, earlier decisions.** "Syncing for a later decision never disturbs
  an earlier one" (entity-map.ts:247-248; also 14-15) fails when a later known
  action takes effect between two that the decision had seen.  A range closed
  since is not recognised as the same, so a sync opens it again (105-138) and
  the later known action closes the new copy, with its own instant, before the
  one the decision knew gets to it.  Shortest trace: e is renamed from A to B at
  2, known at 2, and delisted at 3, known at 3; the decision at 3 resolves B to
  none after 3.  A merger of e at 3, known at 4, sorts before the delisting: the
  sync at 4 leaves B from 2 to 2 closed as of 4, and the decision at 3 now finds
  e under B on 4.
* **Gateway.** Reconcile writes the totals it awaited even when events moved the
  row further meanwhile (gateway.ts:132-144 against the comment at 117).  A fill
  delivered between a cancel request and its confirmation leaves CANCEL_PENDING,
  and the confirmation is recorded and dropped (`CanceledIsSettled` speaks of
  rows that did become CANCELED).  A fill that overtakes its acknowledgement is
  consumed without effect (`FillsAccounted` requires the flag).
* **Scheduler.** A run another process finished after `detectMissedRuns` selected
  it is still marked missed: the update has no condition on the status
  (scheduler.ts:246 against 207-208).  A run recorded missed can still be started
  by the process that had claimed it (`InvokedOnce` allows the one call).
* **Ledger.** The tail the probe rehashes starts after the anchor of the newest
  seal by sequence, which can skip an unsealed event of a newer day
  (ledger.ts:164 against 139-140).  An event is refused already when it is
  little more than one day stale, if its stamp lies at the end of its day
  (`GraceHolds` promises one whole day).
* **Repository.** When a value was corrected and the artifact of the *old* value
  fails verification, the old row is copied with its flag on top of the good one
  (repository.ts:197 against 188-189).  When a source goes back to a value it had
  corrected, deduplication against *any* earlier row drops the append
  (repository.ts:99 against 163-164).  A quarantine reaches decisions a
  processing delay after the detection (`QuarantineExcludes` starts there).
* **Artifact store.** "The cap is a hard cap on every write" (store.ts:12-14), and
  the store "refuses, before writing, any artifact that would carry it past the
  configured cap" (docs/DATA_PROVENANCE_SPEC.md:168): each store instance counts
  the usage it measured at its first check and its own writes since
  (store.ts:132-136), and the serve process and a command hold instances of
  their own.  Shortest trace: both measure an empty disk, then each writes a
  budget of files; the instance reaches 4 files at a budget of 2.
  `OverrunIsBounded` is what is left of the cap: one budget for each writing
  process.
* **Ingest.** Actions published between the job's fetch of actions and its fetch
  of bars are behind the cursor from then on (serve.ts:104-107); the command
  `ingest universe --actions tiingo` ingests bars first (main.ts:216-220).
  Verification always samples from offset 0, and no job runs it daily.  A file
  that is present but corrupt makes `put` deduplicate and `get` throw.  Two
  processes that put the same bytes: the second insert conflicts and fails its
  run.  Token buckets are per process where http.ts:9 says across processes, and
  a full bucket lets twice the rate through in its first second.
* **Availability.** The instant a filing is known from is not monotone in its
  acceptance: one accepted at 05:00 is available at once, one of the evening
  before at 06:00.
* **Shadow fills.** The fill job replays the book to the decision's session, so
  that overlapping orders of two decisions spend the same cash; the replay then
  throws InsufficientCash in every later run (shadow-fill-job.ts:150 against
  136).
* **Backtest, looking ahead.** "Nothing in the loop reads a later session"
  (backtest.ts:25-26) fails in two ways, and `look_ahead` refutes it by the first.
  - The fills of an order are booked into cash and held as soon as its decision
    is worked, whatever their sessions (backtest.ts:630-653): an order that is
    worked past the next decision has moved the cash and the book which that
    decision is sized with.  In the thin market the order of session 19 fills at
    21, 23 and 25, in a week shortened by a holiday; the decision of 23 counts
    all of it, finds a cash of 339200 where that of the day is 364400, and sells
    11 shares where the book of the day holds 8.
  - Closes are read from series loaded as of the end of the window
    (backtest.ts:478-491), "used for marking NAV and for simulated fills, both of
    which happen strictly after the decision" (476-477), and are also what the
    decision is valued and sized with (576-586).  In the revised market the
    decision of session 19 buys 8 shares of b at the close that became known at
    28; at the close known on the day it would have bought 10.

  What does hold is checked: no ranking and no weight looks ahead
  (`RankingsNeverLookAhead`, proved), and a decision is the one of its day unless
  a later fill of an earlier order, or a later row or action about the sessions
  up to it, reaches it (`UndisturbedDecisionsStand`).
* **Backtest, the rest.** The comparator is placed on a bar without volume, or
  beyond the fill window, where the simulator would skip (backtest.ts:357); a
  window whose last decision moves the target weight stays unplaced and withholds
  the second prong.  The passive arm buys as many shares as its cash divides
  into, before the commission it is then charged (backtest.ts:906-910): with a
  commission above zero its replay throws InsufficientCash (nav.ts:103) and ends
  the run whenever the rest of the division does not cover the fees.  The
  charters of the repository charge none (etf-trend-vol/charter.yaml:275, 285,
  295).  A split between two decisions leaves what is held unadjusted in the
  loop; only the replay applies it.
* **Registry.** A grandchild of an opened holdout may offer it again unopened
  (registry.ts:314-318 against research-registry.test.ts:134).  A trial with a
  blocking label recorded after a citation leaves it cited.
* **Walk forward and aggregation.** The comment at walkforward.ts:67-75 ("no
  calendar day is ever both designed on and evaluated in") is false for rolling
  windows: the next design window reaches over days the previous evaluation
  window covered.  Nor do the evaluation windows tile, as aggregate.ts:346-348
  and research-walkforward-stats.test.ts:42 ("non-overlapping") have it: the gap
  is counted in days and the roll in months, clamped to their ends, so that two
  successive windows may share a day or leave one out at a short month.  What
  keeps a day from being pooled twice is the refusal at aggregate.ts:374, and it
  is what `HoldoutStaysSealed` and its proof rest on.
* **Analyst.** Each command builds a breaker of its own with a threshold above
  its attempts, so that it never opens; `perCallUsd` is never compared; what a
  failed or timed-out attempt cost is not logged.
* **Backups.** No command prunes, and a copy whose integrity check failed counts
  as the newest of its day.

### Bounds, and why they are enough

* `Qty = 3` and the fault plans of `MCPlans`: no fill, one partial, two partials,
  complete in one and in two fills, over-fill (a plan can do that, 2 + 4 > 3),
  each outcome of the submit, of the protection and of the cancel, duplication,
  reversal.  A call may use any plan, so plans combine across calls.  One order
  suffices: rows, events and calls of different orders share only the thread.
  Without the crash a queue has at most the events of one submit and
  the cancels, and cancels are bounded by the states.
* Scheduler: two processes, two runs at the first two instants and a clock to 5.
  A due window of 1 instant, a missed window of 3 and a deadline of 1 give every
  order of "due", "missed", "expired" and "out of the window".  `MaxCrashes`,
  `MaxTime` and `Calm` are bounds.  `Calm` with `HoldsTimeUp`: passes begun before
  `Calm` finish before time goes on, so that the bound on the clock does not cut
  off the pass that settles a claim; before `Calm` time moves freely inside a
  pass.
* Ledger: two instants a day, so that a stamp can lie at the start and at the end
  of it; the clock to 6 covers the day of the event, the grace day and the day
  of the seal; one process seals in TLC, several and any days by hand in the
  proofs.  `MaxEvents`, `MaxCrashes` and `MaxTime` are bounds.
* Repository: three rows are an observation, its correction or revision and a
  quarantine; two locators make rows with a vintage collapse across locators
  and rows without one stay apart.  `MaxRows`, `MaxSnaps` and `MaxTime` are
  bounds.  Locators and artifacts are symmetric; callers are in the gateway.
  Runs with liveness use no symmetry.
* Data plane: two symbols differ in their cursors, two sessions make one of them
  lag, and a budget of 2 files is reached by what one run writes, and doubled by
  two.  `MaxSeeds`, `MaxFaults`, `MaxChecks` and `MaxSession` are bounds.
* Corporate actions: three sources are the fewest with two publishers and a
  vendor; the curated inputs cover every kind of discrepancy; one edit after the
  signature and one run show what a second would repeat.  `MaxRuns`, `MaxEdits`.
* Entity map: three symbols and two entities give reuse, renaming back and a
  chain; three actions in any order of dates, instants and rows, a rename, an end
  and a later known end among them.  `MaxRows` and
  `MaxTime` are bounds, `Floor` and `Open` stand for the open ends.
* Shadow loop: six sessions are three decisions, so that the orders of two
  overlap and a third sees both; two troubles are the fewest that make a break
  clear and recur; one re-arm.  `MaxTrouble`, `MaxReArms`, `Sessions`.
* Research: the four markets differ in what the properties turn on: leaders that
  change while all rise, so that books are full, capped by their clusters and
  held over; volume that defers fills; sessions without a bar; closes revised
  after a decision.  An order is worked for 3 bars in weeks of 3 sessions, as the
  code's 5 bars are in weeks of 5; one week has a holiday, and in it an order is
  worked past the next decision.  The commission is 0, as in the repository's
  charters: with any other the passive arm ends most runs (above).  Two
  experiments are a parent and its descendant.  `MaxExperiments`, `MaxTrials`
  and `MaxLog` are bounds.

### Fairness, and why the code justifies it

* `scheduler`: `WF(PassStep(p))`, because `serve` polls on an interval
  (serve.ts:337-340) and the code of a pass runs on by itself; a crashed process
  is restarted by its container and polls again.  `WF(Advance)`: time passes.
  The handler has *no* fairness: it may never return, and the deadline race
  settles the run.
* `ledger`: `WF(SealJob(s))`, because the scheduler runs the seal job every day
  and a missed day's run is followed by the next day's, with the whole backlog
  (serve.ts:66-72).  A crash is not fair and bounded.
* No liveness is claimed for the gateway (nothing in the repository calls
  `reconcile` or drains the broker's queue on a schedule), nor for what waits on
  the owner: signatures, re-arms, the opening of a holdout.

Runs with `CHECK_DEADLOCK FALSE` are those of histories that end: a calendar of
sessions, a log or a number of runs that is spent.

## 4. What is proved

Each theorem holds for every value of the constants that satisfies the named
assumptions, with the invariant's three obligations (initial, preserved by each
action, implies the property) as separate steps.

* `GatewayProofs`, assuming `NobodyAssumption`, `SwitchesAssumption` and the
  typing of plans and quantity.
  * `TypeCorrect`: `TypeInv`, that is `TypeOK` and "a call in progress is about a
    recorded order", which `TypeOK` needs because rows have fields only when
    recorded.
  * `AtMostOneBrokerOrder`, `RecordComesFirst`: `SendInv`.  "At most one copy"
    is not inductive, as nothing in it forbids two callers on their way to the
    broker with one order.  `SendDiscipline` does: a submit before its send
    holds the thread, its row is exactly where its own last transaction left it,
    and the broker has no copy.  It is preserved because no other action is
    enabled while a call holds the thread, and a crash ends the call leaving a
    row that `persistIntent` refuses.
  * `GatewayImplementsContract`: every step of the gateway is a step of
    `OrderContract` or stutters, under the mapping `PhaseOf`.
  * `NoOverstatement`, `ProtectionCovers`, `RejectedNotHeld`: `TruthInv`.  None
    of the three is inductive: a row is only as true as the event or the awaited
    answer it is written from.  So the invariant says of every queued event
    (`EventsAreTrue`), every answer a call holds (`AnswersAreTrue`) and every row
    (`RowsAgree`) what it claims of the broker's order, and claims nothing that
    growing totals could falsify (`Grows`, `TruthLasts`): a partial total is a
    lower bound, only a complete fill is exact, and a refusal, or a status that
    found nothing, means an order that is past its only send (`NeverHeld`, which
    lasts by the refinement above).  Duplicates and reversals keep an event's
    claim, so the lemmas on `Emit` need not know the order; a stale snapshot is
    an old lower bound.  `RequestHolds` covers the step between the FILLED write
    of a reconcile and its request of protection.
  * `CanceledRowsAreSettled`, `FillsAreAccounted`: `FillsInv`, assuming that no
    crash loses a drained event (`~LossyCrash`).  It adds to `TruthInv` that the
    last fill of an order that its row lacks is queued and not yet seen
    (`FillsAreQueued`), that an identifier names one event (`IdsNameEvents`) and
    what the broker has yet to number is unseen (`AnswersAreFresh`), so that
    being seen before never swallows a fill; and that a confirmed cancel has no
    fill behind it in the queue (`CancelIsLast`).  The first theorem holds for
    any callers, the second for one (`Alone`): with two, a reconcile may write a
    status it awaited over the totals of an order that a raced cancel filled
    meanwhile, which is the exception `Settling` names; such an order was not
    confirmed canceled, so the first is not harmed.
* `SchedulerProofs`, assuming `RunsAssumption`, `BoundsAssumption`.
  * `TypeCorrect`, `RowAndLedgerAgree` (inductive with typing).
  * `NoDuplicateExecution`: `OnceInv` adds that a run without a row was never
    invoked, that a claimed run in hand was not yet invoked, and that no two
    processes have the same claimed run in hand.
  * `NoInstantSlips`: `SlipInv` says of every pass which instants it is past
    (`Passed`) and that they have rows; rows never go away.
* `RecordProofs`, about what is kept on record.
  * The ledger, assuming `DayAssumption` and `BoundsAssumption`.  `TypeCorrect`;
    `SealsHoldForEver` (inductive, as appends to sealed days are refused in the
    transaction that writes).  `GraceWindowHolds`: `GraceInv` adds that what is
    sealed, or listed to be sealed, ended the grace window ago, and that stamps
    lie in the past.  The arithmetic of days is in lemmas on `DateOf`.
  * `CitationsAreEarned`, assuming `DefinitionAssumption`: `RegistryInv`.  The
    property speaks of the log, the operations of the rows, so the invariant ties
    them: every flag of an experiment has its entry and the flag it requires had
    its entry before (`CitationsKept`, `MarksKeep`); the trials are, one to one,
    the entries of trials, with the labels that were logged (`PairingKept`); a
    parent is older than its child.  From the last the walk up the parents ends
    within as many steps as there are experiments (`WalkFinds`), at the least set
    closed under the parents that the log has (`WalkEndsAtAncestors`), and the
    pairing makes the two counts equal (`CountsAgree`).
  * `HoldoutIsSealed` and `RejectionsAreMeasured`, assuming further
    `MarketAssumption`, `ScheduleAssumption`, `SessionsAssumption`,
    `CalendarAssumption` and the units.  The invariant `HoldoutInv` is
    `RegistryInv` and that a trial of the holdout is of an experiment whose
    holdout is open, which lasts because nothing closes one.  The rest is about
    every definition (`EveryDefinitionKeepsApart`, `EveryRejectionRests`), in the
    order of the computation: the bars of an execution series are rows of the
    market that were not carried forward (`BarsAreRows`), an exact comparator
    runs from the first to the last session (`ExactSpans`), a run without a gap
    is measured (`RunMeasures`); the plan leaves the gap and stays off the holdout
    (`PlanLeavesTheGap`); the pool is an order of the walk-forward runs and of
    nothing else (`ForwardLists`, `OrderedLists`), whole when it rejects
    (`RejectsWhole`) and refused when a session would count twice (`PoolErrs`).
    The recursion of the schedule and the sorts are handled by the existence of
    the finite functions they are (`WindowsRoll`, `RankedByLists`).
  * `BooksKeepTheRules`, `ComparatorsFillWithUs` and `RankingsAreOfTheDay` also rest on
    `HoldoutInv` and speak of every definition.  Each fold of the code is a
    function on `0..n` in the model, and its lemmas come in pairs: that the
    function exists (`SortingsExist`, `FillingsExist`, `RunsExist`, ...) and what
    each of its values satisfies, by the least place that does not.
    - The rules, under `NamesAssumption`, `RanksAssumption` and
      `UniverseAssumption`: a ranking names each name once (`RankingLists`);
      slots are given to incumbents first and never taken back
      (`IncumbentsKeepTheirSlots`, `BackfillStaysWithin`); what is cleared keeps
      the cap of every cluster (`ClearedKeepsCaps`).  `CandidatesAreRuled` joins
      them for any features and any book.
    - The comparator, under `FillBarsAssumption` and `ScheduleAssumption`: over
      bars in the order of their days, the instant at which `AcquisitionInstant`
      places a weight is that of the first fill of an order of one share
      (`ComparatorTakesTheFill`, by the bars that were skipped before it).
      Decisions are listed in the order of their days (`DecideProceeds`,
      `RunGoesThrough`), so that a weight is one decision's.
    - The rankings, under `MarketAssumption` and `ScheduleAssumption`: each
      decision of a run, and of the run ended on the day, is the rules' choice
      from the features of its own session (`Selects`, which `RunGoesThrough`
      carries along the loop); what the store showed on the day has all that
      those features read (`TheDayShowsAsMuch`); and a ranking is of the features
      alone, whatever is held (`RankedByFeatures`).
* `EntityMapProofs`, assuming `ActionsAssumption` and `BoundsAssumption`.
  * `OneHolderAlways`: the invariant is that of the run, for the committed table
    and the copy of the sync, with typing and "every range ends by `Open`".  The
    work is in lemmas about the operators: closing open ranges keeps holders
    apart (`CloseKeeps`), registering refuses what overlaps unless it gives way
    (`RegisterKeeps`), and so does each kind of action (`ApplyKeeps`).
  * `LaterSyncsDisturbNone`: a decision resolves by the table as seen at its
    instant, while each sync applies *all* actions anew, which opens again what
    was closed.  `Applied` says what the actions a decision saw made of a table:
    every renamed symbol is known (`Named`), every opened range lasts at least to
    the first of them that closes it (`Held`), and none is open past one of them
    unless opened after it (`Over`).  In the middle of a sync `Midway` relates
    its table to the one it started from: what the decision lost is still to be
    opened again (`Kept`, with `Ended`), what it gained still to be closed
    (`Gained`).  `Effect` is what one action does to a table, whatever its kind;
    `MidwayStep` has both cases, an action the decision saw and one it did not,
    and there the second half of `Undisturbed` is needed.  With no action left,
    `Midway` means equal answers (`MidwayResolves`) and `Applied` again
    (`MidwayEnds`).
  * `EndedEntitiesStayEnded`: `EndsInv` adds where each range and its close come
    from (`Traced`) and that a range which gave way to another entity did so
    before its own entity ended, or was opened again since (`Outlived`); the rest
    of a new decision is `Over`, and older ones keep what they had by the theorem
    before.
* `PointInTimeProofs`, assuming `SourceAssumption`, `BoundsAssumption`.
  * `TypeCorrect`: `PitInv`, that is typing with `SnapsPast` (a snapshot is of
    rows there are), `RowsDistinct` (append keeps one row of an identity and a
    content) and `MarksFollow` (a row with the missing flag is a correction of an
    earlier row, made available no later than the clock).
  * `PastIsReproduced`: an answer depends on the candidates alone, and what a
    step appends is no candidate of a snapshot, nor of a decision before the
    quarantine reaches it.
  * `QuarantineHolds`: after `markArtifactMissing` every row of the artifact that
    a later decision could see is superseded.  `RowsDistinct` is what lets a
    correction that exists already stand for the one that is not written again,
    and `MarksFollow` says that the one that exists is available in time.
* `DataPlaneProofs`, assuming `PlanAssumption`, the assumptions of the store, and
  in particular that the budget holds what the seed put there.
  * `TypeCorrect`: typing and `ShapeInv`: what a run holds at each of its steps
    belongs to its first request and its files are there (`RunShape`); an answer
    is the range up to some session, and what was read has no hole within the
    range (`RunContiguous`).  `OrphansAreHealed` follows.
  * `BudgetIsHeld`: `BudgetInv`.  `OverrunIsBounded` is not inductive, as a write is
    admitted by the usage a store instance *counts*.  The invariant bounds that
    count by the budget and the disk by the sum of the counts, where a process
    with no store open counts as a full budget (`Used`): it may leave that much
    behind.  A write adds the same to the disk and to the writer's count; a store
    that measures anew counts all there is.
  * `CursorIsSound`: `CursorInv`.  `RunStarts` says of every request for bars that
    no session before its range is missing, for the symbols no verification
    quarantined; rows are never removed, so a plan that grew old may fetch a
    session again but skips none.
  * `ActionsAreFirst`: `ActionsInv`.  `RunPairs` says that a request for bars comes
    right after its request for actions, or that the actions published when
    those were asked for are stored; `RunGathers` that until then each of them is
    still to be asked for, in hand, or stored.
* `CorporateProofs`, assuming `AutomatedAssumption`, `SourcesAssumption` (what the
  sources offer is typed and finite), `OptionsAssumption`.
  * `OnlySignedIsStored`, `NoRecordIsDropped`, `WrittenIsReadable`,
    `SourcesConfirm`: `WorkInv`, typing of what lies on disk with the four
    promises of the workflow.  The work is in the lemmas on `Reconcile`: every
    record in scope ends in an entry, or in a named discrepancy, or in a skip
    (`NoRecordIsDropped`); an entry that is written has the fields the parser of
    the ingest requires; an entry's sources are publishers whose own records
    agree with it.
* `ShadowProofs`, assuming `ThresholdAssumption`, `FillsAssumption`,
  `WeekAssumption`, `SessionsAssumption`, and of the market `EntitiesAssumption`
  (finitely many instruments) and `SplitsAssumption` (the splits are a list).
  * `LedgersAreWhole`: the inductive invariant, `LoopInv /\ Promises`.  `LoopInv`
    is `TimeInv` (no instant in a log lies ahead), `RunInv` (a run that did not
    succeed left nothing), `SealInv` (both arms of a decision are sealed, or
    neither) and `LogInv` (logs are in the order of their instants, and each
    place names what it may).  `Promises` are the properties below in the form
    that is inductive.
  * `HaltsStaySticky`: the fold that reads the halt input back relaxes by at most
    one step for each re-arm since the last sealed state, by an induction along
    the log inside the proof (a least counterexample).
  * `BreaksHoldTheBook`: a break is one occurrence, whose first report is unique;
    an acknowledgement before it does not count.
  * `OutcomesStayInOrder`: what the fill job records, it records oldest first,
    and it stops at the first it must defer; the invariant of its pass says so of
    every prefix.
  * `DeferralsAreQuiet`: the reconcile asks for an outcome only where the fill
    job would by then have recorded it.
  * `GapsStayReported`: the promise as the run states it depends on the clock,
    and is not inductive; `GapsAreKnown` says of each reconcile, at its own
    instant, that it named every decision then missing.
  * `FrozenStaysFrozen`: the invariant adds `MarketInv` (bars arrive in lists,
    each of its session) and `FillsKeepTheGate`.  A pass of the fill job records
    only what a simulation of a sealed decision gave (`OutcomeIn`), one decision
    of an arm and session is sealed (`SealedOnce`), and before any outcome of its
    session.  Of every simulation `FillsAreAllowed` says that the gate bounds the
    fills: the orders that pass it are finitely many, each worked into finitely
    many steps of its own side (`StepsOfAnOrder`), and the steps, sorted
    (`InOrderIsLog`) and applied one after the other (`StepsKeepTheGate`), record
    nothing that the gate forbids.
  * `UpcomingIsSealed` (an action property): the decision sealed in a step is the
    one the status named before it.

### Only model-checked

* Liveness (`ClaimsSettle`, `BacklogIsSealed`), which TLAPS' backends do not
  reach.
* Of the research protocol `UndisturbedDecisionsStand`: that two runs of the loop
  agree up to a decision follows along all the orders and fills before it, each
  worked over another series, and no invariant of the run that is short enough to
  prove says so.
* All other pure operators that fold over data, which the runs compare with a
  reference definition over bounded inputs.

## 5. What is not modelled, and why

* Parsers of external formats, rendering, configuration, notification text:
  formats and I/O.
* The estimators (`stats.ts`: bootstrap, volatility) and the coverage of factor
  tags: decimal statistics, given functions where their results matter.
* Prompts and the transport to the model: an answer is one of a small set.
* Tampering with the database file: the ledger's chain detects it, and no model
  here has an actor outside the program.
* SQLite itself: a transaction is atomic and durable.  Migrations run once,
  before any other use.
* The freshness of the weekly full verification, notification and status jobs.
* The gateway process around the gateway, and the scripts of the repository.
* Of parts that are modelled: what `PROJECT.json` notes under each component.

## 6. Plan

1. *(done)* Gateway, scheduler, ledger, repository, with their proofs.
2. *(done)* Data plane, corporate actions, entity map, shadow decisions, limits
   and compliance, research, analyst.
3. *(done)* One holder per symbol, and that a row never overstates the broker,
   proved.
4. *(done)* Repository, data plane, corporate actions and shadow loop proved, the
   fate of each fill in the gateway, and what decisions resolve by the entity map.
5. *(done)* The research protocol: citations are earned, the holdout stays
   sealed and rejections are measured, for the evaluation as it is computed.
6. Models: the weekly verification and its freshness, composed with `Ledger`;
   corrected rows in the sync of the entity map.
