# Verification of polyflip

polyflip trades binary prediction markets. Strategies decide, an outbox stores
what they decided as `execution_requests`, and one worker process per mode
(PAPER, SHADOW, LIVE) carries the requests out at the venue. A filled PAPER entry
may be released as a LIVE one under a trading session with limits. Two jobs
protect open positions. Beside this, the AI Lab plans and runs research steps,
lets an external agent propose and decide experiments, and deploys models after a
human's approval.

This directory models the concurrent, stateful core of these parts, model-checks
it with TLC, and proves every safety property the runs check with TLAPS.

## 1. Inventory

| component | state | operations | talks to | hard behaviour | what makes it correct |
|---|---|---|---|---|---|
| outbox (`execution/outbox.py`) | request rows, reservation, position | enqueue_open, enqueue_close, finalize_request | called by everything below | several writers, lookup and insert are two steps | one live request per key; exposure reserved exactly while an entry is live |
| execution worker (`execution/worker.py`) | request rows, attempts, fills; in memory the request in hand and the loaded batch | claim, preflight, submit, apply, reconcile, auto-resolve, rebuild accounting | gateway, outbox | crash between commits, lost answers, late fills, timeouts, rollback | never submits twice by itself, never forgets a fill, outcomes are final, every row is decided |
| order strategies (`execution/order_strategies.py`), gateways | the orders of one request; the venue has the rest | FAK_RETRY, GTC_TTL, maker limit, cancel, look up | venue, quotes | a book that moves, lost answers, trades listed late | no price outside the mandate, one execution, "rejected" means nothing is left at the venue |
| operator API (`api/execution_api.py`, `execution/manual_review_service.py`) | the same rows | requeue, mark failed, reconcile, close, close-all, reconcile-resolution | outbox | races with the worker | an outcome stands; a request the venue knows is not sent again |
| settlement (`scheduler/jobs.py`, `execution/*settlement*`) | positions | settle PAPER, mark LIVE resolved | positions | races with CLOSE requests | shares and fills agree |
| stop-loss / take-profit workers | status columns of the trade | expire, post a GTD exit, queue a CLOSE | outbox | rows held across a quote, two jobs and the worker on one position | sells what is held, unless its row is old; protection is not lost; a stop that stays hit sells |
| mirror worker, release gate | candidates | mirror, defer, reject, release | outbox, sessions, limits | several queries per decision, advisory and row locks | released under an active session only |
| live sessions, risk limits, exposure | sessions, switches, limits | create, ready, activate, stop, finish, kill | release gate, worker | checks and writes are apart, with a quote awaited in between | money at risk grows only within the limit; the kill switch stops what is queued; a finished session has no entry in flight |
| trading cycle (`trading/engine.py` and what it calls), CT reservation | trades, SKIPPED rows, reservations | guard, decide, validate, reserve, enter, skip | outbox | one transaction per cycle, overlapping processes | a market is entered and decided once |
| AI Lab queue | steps, jobs, leases | schedule, claim, run, persist, retry, recover | adapters | no heartbeat in long runs, stale session rows, crashes | a step runs once at a time, retries are bounded, the queue drains, a cancellation holds |
| AI research agent | lease, proposals, results, decisions | claim, propose, wait, decide, complete, requeue | AI Lab API, LLM | lost and delayed requests, take-over, operator | one proposal per iteration, one decision per result, budget, the run finishes |
| model deployment | revisions, approvals, is_active | propose, approve, reject, roll back, activate, delete | model registry | READ COMMITTED snapshots, row locks, the order of a flush | no revision live without approval; what a revision calls ACTIVE serves |
| collectors, crypto data, training, research, backtests | time series, artefacts | collect, train, replay | exchanges | reconnects; otherwise numerical | not modelled, see section 5 |
| presets, settings, dashboards | settings rows | apply, read | all | readers hold old settings | not modelled, see section 5 |

The components, modelled or not, are listed with their sources in
`PROJECT.json`, and so are the hazards: each names the line at which it bites and
the properties that would notice.

## 2. Modules

Execution path:

- `ExecutionStates`: the sets of `execution/states.py` and the index predicates
  of `db/execution_models.py`, kept apart as the code keeps them apart.
- `ExecutionLifecycle`: the specification. One action per database transaction or
  per answer of the venue; the properties are at its end.
- `ExecutionInvariants`: the inductive invariants `IInv`, `PositionInv` and
  `EntryEvidence`.
- `ExecutionContract`, `ExecutionRefinement`: the abstract specification and the
  mapping under which the detailed one implements it.
- `ExecutionProofs`: the theorems, in five parts (types, requests, positions,
  entries, refinement).

Around it, each a module of its own that reduces its neighbours to what it sees of
them:

- `OrderStrategies`: what happens inside the one submission of the lifecycle.
- `ExitProtection`: the two jobs and the CLOSEs of a position.
- `LiveRelease`: from a filled PAPER entry to a LIVE order, sessions and limits.
- `TradeCycle`: from a loaded market to an entry or a SKIPPED row.
- `ResearchQueue`, `ResearchAgent`, `ModelDeployment`: the AI Lab.

`MC<module>` is the instance TLC runs, with one `.cfg` per question;
`<module>Proofs` holds the inductive invariant, the lemmas and the theorems of each
of the seven.

### ExecutionLifecycle: state and actions

A request is `<<trade, k>>`: `k = 0` is the OPEN (key `OPEN:trade`), `k > 0` the
k-th CLOSE (key `CLOSE:trade:v(k-1)`; `version` is `position_version`, counted
from 0). An order is an attempt of a request, a fill one share of an order, so
that quantities are cardinalities. `age` stands for `updated_at` against the two
thresholds the code has (60 s, 900 s), `expired` for `expires_at`.

| code | actions |
|---|---|
| `execute_and_record`, `enqueue_open_request` | `EnqueueOpen` |
| `close_live_position` | `EnqueueClose`, over a current row |
| stop-loss, take-profit, close-all: load rows, enqueue later | `CallerLoads`, then `CallerEnqueues` over the loaded shares, or `CallerDrops` |
| `claim_one` | `ClaimExpired`, `Claim` |
| `process_ready_requests` up to the SUBMITTING commit | `PreflightReject`, `PreflightReview`, `PreflightRequeue`, `BeginSubmit` |
| the call of the gateway | `PaperAnswer`, `LiveNotPlaced`, `LiveTraded`, `LiveResting` |
| the rest of `process_ready_requests` | `ApplyRejected`, `ApplyConfirmed`, `ApplyPending`, `FinishSubmitException` |
| `reconcile_active_requests` | `ReconcileTimeout`, `ReconcileRequeue`, `ReconcileFills`, `ReconcileGtdExpired` |
| `_auto_resolve_stuck_manual_reviews` | `AutoResolveScan`, then per row `AutoResolveFilled` or `AutoResolveRejected` |
| process death | `Crash`: `pc`, `cur`, `answer`, `got`, `batch` are lost |
| operator endpoints | `OperatorRequeue`, `MarkFailedNoFill`, `OperatorReconcile`, `OperatorSettle` |
| settlement job | `SettlePaper`, `SettleLive` |
| clock | `Expire`, `Age` |
| venue (external) | `MarketEnds`, `MarketResolves`, `VenueTrade`, `VenueDrop`, `VenueList` |

`finalize_request` is `Finalize` with `PosAfterFinalize` and
`ReservationAfterFinalize`; `rebuild_trade_accounting` is `Rebuilt`;
`_enqueue_gtd_take_profit_after_fill` is the `withTakeProfit` case of
`FinalizeFilled`, in the same transaction as the fills, as in the code.

### The other modules: actions and code

| module | code | actions |
|---|---|---|
| `OrderStrategies` | price guard of the worker | `WorkerGuards` |
| | `execute_fak_retry` and the edge policy | `FakMatches`, `FakMisses`, `FakRefused`, `FakAnswerLost`, `FakRefreshes`, `PaperEdgeLost` |
| | `execute_maker_limit` | `MakerQuotes`, `MakerRests`, `MakerCrosses`, `MakerFails` |
| | GTC_TTL | `WaitSeesFill`, `WaitEnds`, `Cancels`, `FinalFills`, `FinalStatus` |
| | book and venue (external) | `BookMoves`, `Matches`, `Lists` |
| `ExitProtection` | one cycle of either job | `JobLoads`, `JobExpires`, `GtdUnbound`, `GtdPosts`, `JobQuotes`, `JobEnqueues` |
| | the ends of a CLOSE in worker and outbox | `EndsUnaccounted`, `EndsRejected`, `Fills`, `GoesPending`, `NeedsReview`, `GtdExpires` |
| | operator, settlement, clock, book | `OperatorCloses`, `Settles`, `TimePasses`, `BidMoves` |
| `LiveRelease` | mirror worker | `PaperFilled`, `MirrorBatch`, `SignalAges` |
| | release gate | `GateSnapshot`, `GateLock`, `GateReadsSession`, `GateReadsReservations`, `GateChecksRisk`, `GateReleases`, `GateDefers`, `GateRejects` |
| | worker, as far as limits count it | `WorkerChecks`, `WorkerCompares`, `WorkerSubmits`, `WorkerLetsGo`, `EntryFails`, `EntryNeedsReview`, `EntryFills`, `ExitRequested`, `ExitEnds`, `Resolve` |
| | session and switch endpoints | `Create...`, `UpdateLimits`, `Readiness...`, `Activate...`, `StopSession`, `Finish...`, `KillSwitch`, `MirrorSwitch`, `SetReleaseMode`, `Approve...` |
| `TradeCycle` | `trade_worker_cycle` | `CycleBegins`, `Guard`, `DecideSkips`, `DecideActs`, `ValidationRefuses`, `CtReservesSkip`, `Execute`, `ExecuteRejects`, `Raises`, `WalkEnds`, `Commit`, `Lost` |
| | around it | `RequestEnds`, `TimePasses`, `OperatorSwitches` |
| `ResearchQueue` | scheduler job, endpoints | `SchedulerBegins`, `LeasedBegins`, `UnleasedBegins`, `NextBatch`, `BatchEnds`, `LeaseExpires` |
| | `execute_next_step` | `Claims`, `ClaimsInvalid`, `ClaimsNothing`, `Persists`, `PersistFails`, `Crashes` |
| | `recover_stale_jobs`, operator | `SchedulerRecovers`, `GrowsOld`, `Pause`, `Resume`, `Cancel` |
| `ResearchAgent` | the agent's loop | `Claims`, `Looks`, `Proposes`, `SeesResult`, `WaitTimesOut`, `Decides`, `ThinkingFails`, `GivesUp`, `TimesOut`, `Crashes`, ... |
| | the API's handlers | `Proposal...`, `Decision...`, `Complete...`, one per outcome |
| | lease, queue, operator | `LeaseRunsOut`, `HeartbeatsFail`, `QueueLoads`, `StepsStart`, `QueueStops`, `StepsEnd`, `StepsRetry`, `LateResult`, `OperatorReads`, `OperatorWrites`, `Iterates` |
| `ModelDeployment` | propose, approve, reject, roll back, activate, delete | one action per statement that waits or reads by predicate, named after it; `RequestApproval` for any target |

### Decisions a reader should know

Transactions and sessions:

- PostgreSQL runs READ COMMITTED. A transaction is split where it reads something
  another commit can change before it writes (`LiveRelease`, `TradeCycle`,
  `ModelDeployment`); SELECT ... FOR UPDATE, advisory locks and unique keys are
  guards, or waits that end when the other transaction does.
- A SQLAlchemy session keeps rows it has loaded (`expire_on_commit=False`), and
  a locking SELECT does not refresh them without `populate_existing`. The jobs of
  `ExitProtection`, the callers of `ExecutionLifecycle` (`row`), the workers of
  `ResearchQueue`, the queue sessions of `ResearchAgent` (`batch`) and the approvals
  of `ModelDeployment` (`seen`) therefore carry the copies they loaded, and test
  and write those.
- Where a property holds except in one named situation, a history variable records
  that situation and the property names it: `blind` (an answer was lost, or a row
  was loaded while a CLOSE was pending), `raced` (two cycles overlapped), `late`
  (recovery gave a live attempt away), `overtaken`, `refused`, `iterated`,
  `meddled`, `stale` (a CLOSE was queued from an outdated row). `afterKill` counts the
  orders sent since LIVE trading was switched off. No action reads them, except to
  pass them on.

The execution path:

- What the worker reads from outside (quotes, risk limits, allowance, the text of
  an error) is a nondeterministic choice among the outcomes the code tells apart.
- In `ExecutionLifecycle` orders are FAK, the default of `LIVE_ORDER_MODE`, except
  the native GTD take-profit of a filled LIVE entry. The other order modes are in
  `OrderStrategies`.
- `enqueue_close_request` uses the session's row. `ExecutionLifecycle` has one such
  row per trade, and a new CLOSE clears it: the new CLOSE has moved
  `position_version`, so the key of the old row is taken. What stays possible is a
  row loaded while a CLOSE was under way, whose fills are booked before the row is
  used. `ExitProtection` has the rows of both jobs with their versions.
- In `LiveRelease` the worker reads the switch, the limits and the cost at risk
  (`WorkerChecks`), then the reservations (`WorkerCompares`), awaits a quote and
  commits SUBMITTING (`WorkerSubmits`). It is one process: with a request in hand it
  books no fills. Everybody else may commit in between.
- In `OrderStrategies` an entry carries the edge policy under every order mode that
  an entry can have, since SMART_MAKER builds it too; the worker's guard may then raise
  limit and cap to the fresh ask before the maker strategy starts. That strategy
  looks at the cap only, so its order may rest below the policy's least price.
- One worker per mode, as `docker-compose.yml` deploys it. A CLAIMED row met by an
  idle worker can then only come from a crash, so the length of the lease is left
  open.
- `reconcile_active_requests` is atomic per row, although it loads its rows once.
  Meanwhile only the operator's reconcile can touch such a row (it sets
  RECONCILING, the state the row is in or comes from), and each result of the
  stale write is one of the atomic steps taken in another order. Auto-resolve, by
  contrast, may find its rows closed by the operator, and is modelled in steps.
- The branch of reconcile that follows `get_order` changes nothing in the rows
  that the model keeps: for LIVE it only sees the default `settlement_state`
  "PENDING", and a PAPER order never stays pending.
- `is_deterministic_rejection` is False at every call.
- ACCEPTED, UNKNOWN and PARTIALLY_FILLED are in the sets of `states.py`, but no
  code writes them to a request.
- In `ExitProtection` STOP_LOSS_ENABLED and TAKE_PROFIT_ENABLED are on. The branches
  for a market missing from `live_markets` and for a missing percentage are not
  taken: nothing deletes a market, and the price that selects a row is computed from
  the percentage.
- A settled trade is not undone by a chain reorganisation after `pending`.
- The venue sells no more of an outcome than the account holds. Orders of one
  request are matched at most up to what was asked for.

## 3. Runs

All runs switch off the deadlock check: when every market is resolved and every
row ended, or the bound on calls is used up, the modelled part of the system
really has nothing left to do.

| run | instance | shows |
|---|---|---|
| `paper_lifecycle` | 1 trade, 2 shares, 2 CLOSEs, 5 attempts, 1 crash | the inductive invariant of the proofs (types, exposure, uniqueness, fills, submissions), shares agree with fills |
| `live_partial_fills` | 2 shares, 2 CLOSEs | fills and success coincide, shares agree with fills, a failed entry bought nothing, only a CLOSE from an old row oversells, no orphaned exit |
| `live_operator` | 1 CLOSE, 1 requeue, 1 nudge, 3 attempts | final outcomes, exposure through reviews, submissions bounded by requeues, refinement of the contract |
| `live_progress` | 1 share, 1 CLOSE, 1 crash, approvals | entries are decided, closes end |
| `live_release` | 2 signals, 2 sessions, 1 gate, 2 operators, 4 calls | one order at most after a kill; risk grows within the limit; releases under an active session; no entry in flight in a completed one |
| `order_strategies` | 3 ticks of 2 units, 3 attempts, 2 repricings, 2 shares, 2 faults | prices within the mandate, one execution, a rejected request is gone |
| `exit_protection` | 1 position of 2 shares, 2 exit attempts, 1 close by the operator | a CLOSE asks for what is held, protection is not disarmed, a stop that stays hit sells |
| `trade_cycle` | 2 engines, 1 market, 3 SKIPPED rows, 2 changes of mode | one CT entry per reservation, one combined entry, one CT decision |
| `research_queue` | scheduler, a leased and an unleased worker, 2 steps (1 invalid), 2 attempts, 1 fault | exclusive execution, bounded attempts, finished steps stay, the queue drains, when a cancellation holds |
| `research_agent` | 2 agents, 1 queue session, budget 1, 4 phases per claim, 2 troubles | one proposal per iteration, one decision per result, the budget, who can undo a final status, the run finishes |
| `model_deployment` | 2 callers, 4 models, 2 assets, 2 runs, 5 calls, 1 of them outside the deployments | a revision that is or was live has an approved request; what a revision calls ACTIVE serves |
| `confirmed_entry_lost` (violation) | 1 trade, `ListingLag` | CONFIRMED with an empty trade list ends REJECTED |

The bounds are chosen by what has to happen: two shares make a fill partial, two
CLOSEs make a position be sold again after a failed or partial sale, five PAPER
attempts exceed the three the code allows plus one per crash (so `SubmitBound` is
not met by the bound), three LIVE attempts exceed one plus one requeue, one crash
can fall between any two commits. Orders of two shares under an exposure limit of
three make the limit bind, and a partial fill makes room again; four calls are two
sessions created and activated at once, or one session and two calls against it.
Limit prices that are no multiple of a tick make rounding matter. Two exit attempts
let the jobs give up; two engines, two callers and two agents are what it takes to race;
four models are a live one, two candidates and one that a trainer adds.
Five deployment calls are two proposals, two approvals and a rollback.
`live_release`, `trade_cycle` and `model_deployment` use symmetry, of signals,
sessions, operators, engines, markets and callers; none of them checks liveness.

`confirmed_entry_lost` is a disagreement between code and comment: the comment at
`execution/order_strategies.py:509` describes exactly this loss and guards against
it in GTC_TTL only. `FailedEntryBoughtNothing` passes with `ListingLag = FALSE`
(`live_partial_fills`) and fails with `ListingLag = TRUE`. Section 4 proves it from
`~ListingLag` alone, for any number of crashes: the lag is the only way the worker
loses an entry by itself.

`ImplementsContract` says that a key has one live request; the runs have one trade,
so two OPENs that meet on one market are the theorem's part (`Implements`, for any
number of trades and markets). The properties of `model_deployment` are about
revisions: the dashboard's activation switches a version on without an approval.

`CancelTakesHold` says when a cancellation holds, which is not always: see
`RunAfterClaim` below. `FinalUnlessReadBefore` says the same of every final status,
as the agent's run has it.

The seven modules around the execution path define `TypeOK` as the typing of their
variables; their runs spend their time on the properties above.

Every property of a passing run has a mutant in `PROJECT.json`: a definition of
the model changed as a plausible bug would change the code, under which TLC finds
the property violated. The mutants stand before the definitions they replace.

### Seen while modelling

These disagree with a comment, docstring or document, or leave a gap that a
property has to name. Paths are under `src/polyflip/`.

- `db/execution_models.py:90`: a request in review blocks a new one, by the unique
  index and the ON CONFLICT of the insert, although `execution/outbox.py:66`, `:232`
  and `execution/states.py:49` say that MANUAL_REVIEW_REQUIRED does not block.
- `api/execution_api.py:648`: a requeued request keeps its TTL and expires instead
  of being tried again, as the docstring at `:607` says it is.
- `execution/outbox.py:401`: a CLOSE that fails after settlement reopens a final
  position; `api/mrf_api.py:10` calls CLOSED terminal.
- `execution/worker.py:1867`: auto-resolve rejects a CLOSE that was executed when
  its answer was lost (the comment at `:1548` says that unknown is not the absence
  of a trade), and overwrites an operator's verdict from a stale row.
- `execution/outbox.py:119`: nothing ends AWAITING_APPROVAL.
- `execution/worker.py:1550`: a resting GTD take-profit goes to review after 900 s,
  although the comment at `:1685` lets it rest until the market closes.
- `execution/gateways/polymarket.py:324`: `get_order` never sets
  `settlement_state`, so a cancelled LIVE order waits for the 900 s as well.
- `execution/worker.py:1636`, `:1865`: a partly listed exit ends while its rest
  stays on the book; auto-resolve leaves `filled_shares` at 0.
- `api/execution_api.py:655`: a requeue of an entry whose answer was lost may buy
  it again.
- `execution/release_gate.py:808`: a temporary risk limit rejects a candidate for
  good. `api/execution_api.py:443`: approving a candidate reads it without a lock and
  may turn RELEASED back into ELIGIBLE; the gate then takes it up again, and only the
  unique idempotency key keeps the order single. `:1278`: a fill
  between the two queries of finish leaves a position in a completed session.
- `execution/worker.py:702`: the kill switch and the limits are not read again after
  the quote, so one order may go out after a kill, and within a limit that has been
  lowered since.
- `execution/order_strategies.py:604`: FAK_RETRY may buy twice after a lost answer.
  `:488`: a partly filled GTC order keeps resting. `execution/worker.py:726`: a
  crossed LIVE exit is not repriced, as it has no quote client.
- `execution/outbox.py:216`: a row loaded while a CLOSE is pending can sell again
  what that CLOSE sold. The position then goes to review (`execution/worker.py:1340`),
  or, if it is final already, stays CLOSED with more sold than bought. `execution/worker.py:460`: a CLOSE that ends without
  accounting leaves the protection QUEUED.
- `trading/engine.py:359`: a refused CT entry is the market's decision for good.
- `ai_lab/jobs.py:177`: a long research step is executed twice when its heartbeat
  is late, against `src/docs/ai_lab_phase7.md:41`. `:209`: the sweep of orphaned steps
  can leave a step no worker may claim. `scheduler/jobs.py:107`: the scan takes the
  five oldest runs, so five stuck ones keep a sixth from being scheduled.
- `ai_lab/orchestrator.py:864`: the claim writes RUNNING from the copy of the run its
  session loaded (`:843`), so that a run cancelled or finished meanwhile is running
  again; the endpoint has answered that it is cancelled.
- `api/ai_lab.py:1832`: pause and cancel can take a run out of a final status.
  `:1787`: /iterate can keep a run from finishing.
- `ai_lab/service.py:1046`: rejecting a second request for a live revision marks
  that revision REJECTED, while its model serves. `:956`: two approvals, of two
  assets, can leave two ACTIVE revisions. `:986`: the run's status is tested on the copy
  loaded at `:875`, so an approval may write ACTIVE over REJECTED or leave
  PENDING_APPROVAL. `api/analytics.py:331`: an active version can be deleted.
- `ai_lab/service.py:1194`: a rollback does not bring an older version back.
  `src/docs/ai_lab_phase9.md:19` promises "Instant Rollback", which "reverts active model
  pointers to the parent revision". Both flags of the asset change in one flush, which
  updates the rows in the order of their ids, so the older version is switched on
  first and the partial unique index refuses it (`IndexRefuses`): an IntegrityError,
  which the endpoint does not catch. `ActiveRevisionsServe` rests on this: without
  changes by hand the version that serves an asset moves to higher ids only
  (`OnlyForward`). A rollback to a parent that belongs to another asset does pass:
  it calls the current revision ROLLED_BACK while its model keeps serving. The index
  is in migration `d9f3a1c2e8b4` and not in `db/models.py`, so tests on a database
  made from the metadata do not meet it.

### Fairness

`execution_worker_loop` runs process, reconcile and auto-resolve in turn, for
ever, and survives exceptions. Hence weak fairness for carrying on with the
request in hand and with the loaded batch, and strong fairness for claiming, for
reconciling each row and for the auto-resolve scan, which are enabled only while
the worker is idle and whose turn comes in every loop. Clocks run: TTLs, ages and
the end of markets are weakly fair. Nothing is assumed of strategies, operator,
settlement job, resolution or venue. Claiming is fair for the queue, not for each
row: `claim_one` has no ORDER BY. With the one trade of the progress run each
key has one live request, and a take-profit and its entry are never queued
together.

`ExitProtection`: both jobs run every 30 s,
and the worker moves every CLOSE, which is what `CloseEnds` of the lifecycle
shows; the bid, the operator and the settlement owe nothing. `ResearchQueue`: the
scheduler's trigger fires, a started batch goes on, an adapter returns or raises,
time passes; nothing is assumed of endpoint calls, operator or faults.
`ResearchAgent`: the agent's loop and the API run, the HTTP client has a time-out,
the lease of a dead process runs out, the queue drains (`QueueDrains`) and a
started operator call ends. The other modules state safety only.

## 4. Proofs

TLAPS checks every theorem for all values of the constants: any number of trades,
markets, signals, sessions, gates, engines, agents, callers and steps, and any
bounds. The assumptions are the named ASSUMEs of the modules. They say that bounds
are numbers, that "none" is no member of a set, that the trades and the signals of
the database are finitely many (their shares are counted and summed), and that each
research run of `ModelDeployment` has a candidate of its own. TLC evaluates them in
every run.

| module | theorem | statement |
|---|---|---|
| `ExecutionProofs` | `TypeCorrect` | `Spec => []TypeOK` |
| | `Inductive` | `Spec => []IInv` |
| | `ReservationIsExact` | `Spec => []ReservationExact` |
| | `FillsMeanSuccess` | `Spec => []FillsIffSuccess` |
| | `SubmissionsAreBounded` | `Spec => []SubmitBound` |
| | `OutcomesAreFinal` | `Spec => OutcomeIsFinal` |
| | `PositionsMatchFills` | `Spec => []PositionMatchesFills` |
| | `ExitsAreUnderWay` | `Spec => []ExitRequestedHasClose` |
| | `FailedEntriesBoughtNothing` | `~ListingLag` entails `Spec => []FailedEntryBoughtNothing` |
| | `Implements` | `Spec => ImplementsContract` |
| `OrderStrategiesProofs` | `PricesWithinMandate`, `ExecutedOnce`, `RejectionsAreClean` | `Spec => []P` for `PriceWithinMandate`, `NoDoubleFill`, `RejectedIsGone` |
| `LiveReleaseProofs` | `KillSwitchStopsOrders`, `CompletedSessionsAreQuiet` | `Spec => []P` for `OneOrderAfterKill`, `CompletedHasNoEntryInFlight` |
| | `ReleasesNeedAnActiveSession`, `RiskIsLimited` | `Spec => P` for `ReleasedUnderActiveSession`, `RiskGrowsWithinLimit` |
| `ExitProtectionProofs` | `ClosesAskForWhatIsHeld`, `ProtectionIsNotLost` | `Spec => []P` for `AsksForWhatIsHeld`, `QueuedMeansExiting` |
| `TradeCycleProofs` | `CtTradesAreReserved`, `CombinedEntersOnce`, `CtDecidesOnce` | `Spec => []P` for `CtEntersOnce`, `EntersOnceUnlessRaced`, `CtDecidedOnceUnlessRaced` |
| `ResearchQueueProofs` | `StepsRunExclusively`, `RetriesAreBounded` | `Spec => []P` for `ExclusiveUnlessLate`, `AttemptsBounded` |
| | `FinishedStepsStay` | `Spec => FinishedStepStays` |
| `ResearchAgentProofs` | `IterationsHaveOneProposal`, `ResultsAreDecidedOnce`, `RunsStayInBudget` | `Spec => []P` for `OneProposalPerIteration`, `OneDecisionPerResult`, `BudgetRespected` |
| | `FinalStatusStays` | `Spec => FinalUnlessReadBefore` |
| `ModelDeploymentProofs` | `LiveModelsWereApproved`, `ActiveRevisionsServe` | `Spec => []P` for `LiveWasApproved`, `ActiveRevisionServes` |

### The execution path

Types need one fact about the worker (`AttemptInHand`: a request that is being
submitted has an attempt), else `CurrentOrder` is no order.

The invariants on requests hold by induction over `IInv`, which adds to them what
the worker relies on across its awaits: the row in hand is still CLAIMED or
SUBMITTING (`InHand`; nobody else selects those states), the fills in hand are its
own (`AnswerInHand`), a stored `provider_order_id` belongs to the last attempt of a
row that has left the queue (`ProviderIdFinal`, which is what keeps a row
the venue knows from being requeued), the batch of auto-resolve holds CLOSEs only
the operator may have moved (`BatchOfCloses`), the next CLOSE does not exist yet
(`NextCloseAbsent`), and the number of attempts is within a budget that depends on
where the row stands (`WithinBudget`). TLC checks `IInv` in `paper_lifecycle`.

The proof separates the table from the worker. `TableStep` says what any step
does to `state`, `reservation` and `fills`: nothing, one row moved (`TableMove`),
one row inserted, or one row filled with or without a take-profit behind it
(`TableFill`). Each action is shown to be such a step once; that such steps keep
`TableInv` (exposure, uniqueness, fills) is shown per kind of step and not per
action. `HandInv`, the rest of `IInv`, goes by groups of actions. The refinement
reuses `TableStep`: each kind is an action of the contract, and the unique index
(`Disposition`) gives the contract's `KeyFree`.

Positions are a second induction, over `PositionInv` on top of `IInv`. That shares
agree with fills survives a rebuild only because a live CLOSE asks for no more than
is left unless it was queued from an old row (`CloseFits`), a loaded row belongs to
a filled entry (`RowFollowsEntry`), the venue trades no more than was asked (`WithinRequest`), a
CLOSE follows a filled entry (`ClosesFollowEntry`), no request is filled before its
end (`UnfilledUntilSuccess`), and a position that is final before settlement was
sold to the end (`FinalIsFlat`).

`FailedEntriesBoughtNothing` is a third, over `EntryEvidence`: until an OPEN was
sent, and after each answer that claims so, the venue has nothing of it. `~ListingLag`
enters in one place, where a CONFIRMED answer has to find its fills listed; the
run `confirmed_entry_lost` shows that it cannot be dropped.

### The modules around it

- `OrderStrategies` (`SInv`): not only the prices sent but the next one is within the
  mandate, through the rounding to ticks; everything but the last order is gone, the
  last one too while the strategy may still submit (`EarlierGone`, `AllGone`), and a
  cancelled order no longer trades (`CancelledIsDead`).
- `LiveRelease` (`LInv`): past its session query a gate works for a session that is
  ACTIVE and that no endpoint holds locked (`GateOnActive`), a call in progress found
  the row it will write (`CallsInProgress`), an entry in flight has its reservation
  (`EntryInFlight`). The limit needs sums over signals; they are cardinalities of
  disjoint unions, and lemmas say how one signal's step moves them. `HandWithin`
  carries the worker's comparison to its commit: what it read bounds what is at
  risk then, because only the worker itself adds to it. The same invariant says that
  with trading off nothing but the request in hand goes out.
- `ExitProtection` (`PInv`): a loaded row whose version is current, and which was
  loaded without a pending CLOSE, still tells the truth (`RowFits`); until
  resolution, shares and fills agree (`Accounts`); what is armed or queued was
  switched on (`Watched`), so that every rebuild re-arms it. The invariant is kept
  per position: a step of one position disturbs a loaded row only if it raises the
  version (`TradeMoves`).
- `TradeCycle` (`CInv`): what the guard saw still holds unless a commit has marked
  the market (`FreshOrStale`), and an uncommitted reservation is the only one of its
  key (`HoldsKey`).
- `ResearchQueue` (`QInv`): an executing worker owns both rows unless recovery gave
  the step away (`OwnsRows`), attempts carry different numbers (`AttemptsDistinct`),
  and every claim beyond the budget is paid for by an overtaken attempt
  (`ClaimsPaidFor`), from which the general bound `2 * MaxRetry - 1` follows.
- `ResearchAgent` (`AInv`): under a good lease every proposal of an iteration, sent,
  about to be sent or stored, carries one id (`NowKey`, `AgentFits`, `MessageFits`),
  since `known` and `tries` of whoever claims are what they were for the process
  before; a decided proposal is done, and an undecided one leaves room in the
  budget (`DecidedOnce`).
- `ModelDeployment` (`MInv`): the row locks and the index entries that calls hold
  exclude each other (`LocksExclude`), and `TxOK` says per statement what the call
  has locked and what it will switch off. `ActiveRevisionsServe` adds `RInv`: while
  an approval holds the asset's index entry, the ACTIVE revisions it will supersede
  are the ones its switch takes out of service, and a version that serves is only
  followed by one with a higher id (`OnlyForward`).

TLC checked each of these invariants on a small instance before it was proved.

### Only model-checked

The liveness properties (`EntryIsDecided`, `CloseEnds`, `StopLossSells`,
`QueueDrains`, `CancelTakesHold`, `RunFinishes`): fairness and ENABLED are out of
the prover's reach. `TypeOK` of `ResearchAgent`, `ExitProtection` and
`ModelDeployment` is stated for readers; their proofs use a typing of their own,
`Typed`.

## 5. Not modelled

The map covers about a tenth of the repository's implementation lines. It is the
part that keeps state several processes share. What is left out, and why:

- the decision logic of the strategies (`combined_voting`, `weighted_policy`,
  `ct_policy`, sizing), features, trainers, replay and backtests: floating-point
  functions of their inputs without state that others share. Their answers are free
  choices in `TradeCycle`;
- prices, fees and PnL outside `OrderStrategies`, hence DAILY_LOSS_LIMIT;
- collectors: I/O and parsing. They append time series that only readers use;
- presets, settings and dashboards: rows of key and value and queries over them;
  the one effect modelled is a change of trading mode between two cycles;
- SHADOW mode, which answers without a venue;
- a second worker of one mode, and a second release gate in the checked instance
  (`LiveRelease` is written for any number of gates);
- the legacy `agent_runner`, the endpoints that claim a step without a job, the
  operator's results (POST /runs/{id}/results, `api/ai_lab.py:1227`), which can close
  a running step, and, in `ResearchAgent`, the operator's /plan;
- the tools of the LLM, shadow assignments, permissions;
- alembic migrations, scripts, notebooks and front end.

## 6. Plan

1. `TradeAccounting`: PnL and partial exits of `rebuild_trade_accounting` and of
   settlement as functions, checked against a reference; INVALID outcomes.
2. Two workers of one mode during a restart, as a variant of the lifecycle.
3. Abstract specifications of the release gate (a ledger that never exceeds its
   limit) and of the research queue (a step done at most once), with refinements
   from `LInv` and `QInv`.
