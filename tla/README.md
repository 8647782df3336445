# Verification of mini-hedge

mini-hedge is the back end of a hedge-fund platform: a FastAPI process
(`src/app`) of some twenty-five modules that share PostgreSQL, Kafka and Redis,
a mock exchange (`src/mock-exchange`) that plays the vendors, and several
browser front ends. This directory holds TLA+ models of the parts of the back
end in which several activities change shared state, TLC configurations that
check them on small instances, and TLAPS proofs of the main safety properties
for every instance.

Everything runs in one asyncio process. What makes the code hard to test is
where it gives up control: at every `await` of a database call, an HTTP call or
a Kafka call, another task may run, and every repository call commits on its
own (`src/app/shared/repository.py`) unless a session is passed along. The models
therefore have one action per stretch of code between two such points.

## Inventory

| Component | State | Operations | What is hard | What makes it correct |
|---|---|---|---|---|
| Circuit breaker (`shared/circuit_breaker.py`) | state, failure times, opening time | admit, success, failure | calls in flight across state changes; window edges | opens on enough recent failures only, stays shut for the timeout, starts afresh |
| Order lifecycle (`orders/services/order.py`, `orders/core/state_machine.py`, `adapters/*_broker.py`) | order rows, fill rows, trade events, reports topic | create, gate, send, submit, fill, cancel | read, await, write unconditionally; retried POSTs; repeated and lost reports; restarts | never overfilled, state and quantity agree, no fill taken back, nothing unapproved at the broker |
| Algo execution (`orders/core/algo_engine.py`, `algo_runner.py`) | parent and child rows, runner task, fill event | start, slice, submit, fill, roll-up, cancel, recover | five activities on the same rows; lost wake-ups; restart | one child per slice, parent equals its children, cancel stops everything |
| Slice strategies (`orders/core/algo_strategies.py`) | none (pure) | compute_slices of TWAP, VWAP, Iceberg | rounding, zero, the last slice | slices add up to the order, the loop ends |
| Position aggregate (`positions/core/aggregate.py`) | quantity, cost basis, P&L, lots | buy, sell, split, dividend | long, flat, short histories | lots carry the position, P&L is conserved, FIFO |
| Position store (`positions/core/trade_handler.py`, `event_store.py`, `position_projector.py`) | event log, read model, topics | apply a posted or delivered trade, retry, publish | READ COMMITTED races, redelivery, own events coming back | each trade applied once, read model equals the log |
| Event bus (`shared/kafka.py`, `shared/dlq_manager.py`) | topic, offsets, failure counts, dead letters | publish, poll, handle, commit, dead-letter, replay | commit after failure, rebalance, restart, partial replay | no readable message passed over, dead letters only after the limit, none taken off unsent by a replay |
| Idempotency middleware (`middleware/idempotency.py`) | cached response, lock | get, lock, handle, store, unlock | check before lock, expiry of lock and answer, failing Redis calls, process death | one effect per key and day, lock always freed |
| Block allocation (`orders/services/allocation.py`) | allocation and leg rows, published shares | create, check legs, execute, distribute, cancel | one commit per row; a cancel between any two; rounding of percentages and shares | no execution without every leg's approval, what is distributed is what was executed up to rounding and negative legs, a finished allocation is complete |
| End of day (`eod/core/orchestrator.py`) | run and step rows, what the steps write, `step_data` | run, rerun, fail, die | overlapping runs, a check that looks at the latest run only, faults that are passed over | a success is final, a successful run left everything behind, a rerun can close the day |
| Corporate actions (`corporate_actions/services`) | processed actions, published adjustments | fetch and process, posted or in a run | publication before the record, unknown types | each action adjusts once, or the second time shows |
| Cash management (`cash_management/services/cash.py`) | balance row, journal, settlements | credit, debit, settle, retry | row read in one transaction and written in another; a settlement booked before it is marked | row and journal agree, nothing is marked that was not booked |
| Capital accounts (`capital_accounts/services/capital_transaction.py`) | snapshots, capital transactions | subscribe, redeem | three commits per request, the latest snapshot may be stale | cash moves only for a recorded request, and once; amounts are carried on |
| Investor operations (`investor_operations`) | subscription and redemption requests | submit, validate, gate, execute, pay, cancel | repositories that flush and never commit | see Not modelled |
| Mark to market (`positions/core/mtm_handler.py`) | market value of the read model | price update | stale quantity written after a trade | see Not modelled |
| Compliance (`compliance`) | rules, violations | pre-trade, post-trade checks | decisions that the orders wait for | a free choice in the models that ask for a decision |
| Authentication, audit, realtime, market data, analytics, user interfaces | see `PROJECT.json` | | | |

Components call each other in the process (orders call compliance and the
broker gateway, which is behind a circuit breaker; a block allocation creates an
order; an end-of-day run calls corporate actions, accruals and capital accounts;
capital accounts call cash management) and through topics: a fill becomes a
`trades.executed` event, which the position store applies, from which cash
management makes a settlement, and from which exposure and risk are recomputed.
`PROJECT.json` lists every component, with the reason for those that are not
modelled, and the hazards with the properties that are about them.

## Modules

Each module is one component; the module comment says which files it models and
`PROJECT.json` maps every definition to its lines. Definitions named as
mistakes (`KeepFailures`, `GateIgnored`, `SoldLifo`, ...) stand in front of the
definition that they distort; they are not part of any specification and serve
to show that a property depends on the code behaving as it does.

**CircuitBreaker.** The three critical sections under the `asyncio.Lock` are
`Admit`/`Refuse`, `OnSuccess` and `OnFailure`; `call[c]` remembers in which state
a call was admitted. Time is a logical clock that a recorded failure advances, so
the list of failure times is a set.

**OrderLifecycle.** `state` and `filled` are the order row; `booked` sums the fill
rows and `traded` the trade events. `pc` and `rec` are the create request and its
snapshot of the row, `cpc` and `crec` those of the execution-report callback,
`canceller` a cancel request. Guards look at snapshots and `UpdateState` writes
the row, as `apply_transition` and `update_state` do. `Transition` is the pair of
them; a transition that is not valid ends the request. The mock exchange accepts
every POST as a new order (`Accept`), fills it once, in full or in part, and
reports; quantities are whole units, for which the exchange's `max(fill, 1)` never
exceeds the order (an order of less than one unit, which it would overfill, is left out); for the orders in `InProcess` the broker is the in-process one, which acks
"filled", and the request itself processes the fill. `Poll` and `AutoCommit` are the vendor consumer with
`enable_auto_commit=True`: what was handed out may be committed before it was
processed. `RequestFails` ends a request at any await; `Crash` ends all of them
and resumes the consumer at the committed offset.

**AlgoExecution.** One parent with `NumSlices` slices, `algo` (time-driven as TWAP
and VWAP, or Iceberg) and `broker` chosen at the start. `starter` is
`create_algo_order` after the gate, `rpc` the runner task, `fpc` the processing of
a child's fill up to the parent, `kpc` a cancel request. With the in-process
broker the fill is processed inside the runner's task, so a cancel ends it too.
The state of a child and its filled quantity are written in one step with its
fill row, because OrderLifecycle is about what happens between these; here the
interleavings are those between parent and children. `Recover` is
`recover_active_algos`; nothing in the repository calls it, so the restarts of
the model show what it would do.

**SliceStrategies.** The loops of the three strategies, one step per slice, in
units of the quantum 0.00000001. `Quantize` is `ROUND_HALF_EVEN`; a VWAP share is
computed from a quotient cut to 28 digits, so an exact tie may go either way.
`volume_profile` holds any numbers, since nothing validates it: weights may be negative
(`Profiles`), and a profile whose sum is zero falls back to TWAP. That quantities are
positive is a premise; `CreateOrderRequest` has no validator for them either.

**PositionAggregate.** `Buy`, `Sell`, `Split` and `Dividend` with the lots of the
code. A lot is kept under the number of the event that opened it, which is the order
`_apply_sell` sorts by as long as the timestamps of a position's events grow. The FIFO
loop is given in closed form: `Sold(q, k)` is what the loop takes from lot `k`.
The code divides prices as Decimals of 28 digits; in the model prices are in units so
small that any splits within the bound divide them (`Exact`).

**PositionStore** and **PositionLog.** `PositionLog` says what the event store
promises: one event at a time at the end of the log, a fill of another component at
most once, a corporate action at most once until two transactions overlapped
(`contended`), and a read model rebuilt from a beginning of the log and the new
event. `PositionStore` implements it (`ImplementsLog`, with `view <- projected` and
`contended <- overlap`). An action is published to its own topic and, by the
adjustment, to `trades.executed`; either consumer, or both, may be handed it under the
same key, more than once too (`Send`), while a fill is sent to the trades consumer once. A
task (a posted trade, the trades consumer, the corporate-actions consumer) goes through
`Check` (opens the session, looks up the key), `Load`, `ReadMax` and `Commit` or
`Abort` in one READ COMMITTED transaction. An event is the trade and its key; the read
model is the sequence of events that was projected. `Lots` folds events to open lots
because their primary key, derived from the trade id, is what makes a redelivered
buy conflict.

**EventBus.** One partition of one topic. `Poll`, `SkipPoison`, `CallHandler`,
`SettleOk`/`SettleRetry`/`SettleDlq` and `Commit` are the stages of
`_consume_loop`; `Resume` is what a new assignment does, with
`auto_offset_reset="latest"` before the first commit. The replay of the
dead-letter manager has a step per message: `ReplaySend` puts it in the buffer of the
replay's producer (`outbox`), from which `Deliver` takes it to the topic or
`DeliverFails` drops it (`lost`), before or after the offsets are committed; the next
replay starts when `producer.stop` has emptied the buffer.

**IdempotencyMiddleware.** The requests with one key. A response is the number
of the handler execution that it reports, so a replayed answer can be told from
a second execution. The lock's expiry under a running handler, process death and
calls of Redis that raise, with or without having done what they were asked for
(`RedisFails`), are counted as faults; expiry of a dead holder's lock and of a cached
answer after its 24 hours (`CacheExpires`) are not.

**BlockAllocation.** One block. `pc` and `k` are the place of
`create_block_allocation` and its loop over the legs: `InsertLeg`, `CheckLeg` and, from
`allocate_fills`, `SkipLeg`, `UpdateLeg` and `PublishLeg` are one commit or one publish
each. `Execute` is the create request of the execution order with any answer it can
give, and `OrderFills` the reports that fill it later. A cancel request reads the
allocation, cancels the order, reads the legs and writes them one by one from what it
has read (`seen`). `Share` is the code's distribution: `quantize` with
ROUND_HALF_EVEN for every leg but the last, which gets the remainder, with percentages
as the column `Numeric(8, 6)` stores them. A leg may ask for less than nothing or more
than everything, since only the sum of the percentages is checked.

**EndOfDay.** The runs of one fund and date and the posted corporate-action requests.
A run checks for an earlier one, inserts its row and goes through `STEP_ORDER`; each
step's effect is what later steps, reruns or readers can tell: snapshots, accruals,
calls that move capital. Corporate actions are worked off pair by pair (`Found`,
`Lookup`, `Publish`, `InsertRecord`). `stepData` is the dictionary that `_run_step`
passes on, with the effect of `step_data or {}`. `StepFails` (at any of the steps that
have no handler of their own, report generation included), `Dies` and `FeeSkipped` are the failures that the code handles, with part of the step done.

**CashLedger.** One balance row, written by the handler of `trades.executed`, by
runs of `process_due_settlements` and by capital requests, each with `ReadRow` and
`WriteRow` as the two transactions that they are. A delivery of a trade makes a
settlement of its own. A capital request appends a snapshot to what it read as the latest
one, inserts its transaction and books its cash; whether a redemption's price and shares
pass their checks, which refuse before anything is written, is a free choice (`Accepts`).

**Proof modules.** `InfrastructureProofs` (CircuitBreaker, IdempotencyMiddleware,
EventBus), `OrderLifecycleProofs`, `AlgoProofs` (AlgoExecution, SliceStrategies),
`PositionProofs` (PositionStore, PositionAggregate), `CashLedgerProofs`,
`BlockAllocationProofs` and `EndOfDayProofs` extend the components they are about; where
one of them is about several, the definitions of the smaller components carry their
names (`BreakerNext`, `KeySpec`, `SliceInit`, `AggregateTypeOK`, ...). `SumTheorems`
has the facts about sums over finite sets that the others cite.

## Runs

Bounds are the constants of the `.cfg`; the numbers are distinct states.

| Run | Instance | Shows |
|---|---|---|
| `circuit_breaker` | 2 callers, threshold 2, window 3, timeout 2, 9 ticks | `TripNeedsWindow`, `BackoffRespected`; time enough for two openings, a failed probe and a recovery |
| `order_lifecycle` (418,411) | 2 orders of 3 units, one at the mock exchange (2 POSTs) and one at the in-process broker, 1 fault, fair | `NoOverfill`, `PlatformFollowsBroker`, `BooksAgree`, `FilledNeverDrops`, `EventuallySettles` |
| `algo_execution` (839,090) | 2 slices of 2, both kinds of algo and of broker, 2 POSTs per submit, a cancel, a restart, fair | `OneChildPerSlice`, `ParentMatchesChildren`, `NoSubmitAfterStop`, `EverySliceIsTried`, `RunnerEnds` |
| `slices` (300,748) | orders up to 14 quanta, up to 4 slices, weights from -2 to 2, fair | `TwapIcebergCover`, `RoundingBounded`, `SlicingEnds` |
| `position_aggregate` | 6 events, quantities 1 and 3, prices 2 and 6, a split | `LotsCarryPosition`, `PnlConserved`, `FifoMatching` |
| `position_store` (1,068,169) | 2 posts with one key, a fill, a corporate action, at most 2 messages of other components, 3 attempts, a restart, symmetric in the posts | `ImplementsLog` (refinement), `RetryAppliedOnce`, `ProjectionFollows` |
| `event_bus` (238,789) | 2 readable events and an unreadable one, a topic of up to 4, 2 handlers, 2 retries, batches of 2, 3 faults, fair | `CommittedWasTried`, `DlqAfterRetries`, `ReplayKeepsLetters`, `EveryEventTried` |
| `idempotency` (32,052) | 3 requests, 2 faults, fair | `OneInHandler`, `RetryIsReplayed`, `LockIsFreed` |
| `block_allocation` (1,010,614) | 3 legs, 2 units, percentages from -112.5% to 112.5% in steps of an eighth, tolerance of one such step, a cancel, 1 fault, fair | `ExecutedIsApproved`, `DistributionBounded`, `AllocatedIsComplete`, `FilledIsDistributed` |
| `end_of_day` (542,506) | 3 requests of which 2 overlap, 2 portfolios, an action, 1 fault, fair | `SuccessIsFinal`, `RunIsComplete`, `AdjustedOnce`, `RerunCloses` |
| `end_of_day_data` | one run, no fault | `NavReachesCapital` is violated, see below |
| `cash_ledger` (2,153,107) | 2 trades (a buy and a sell, due on different days), one delivery, a batch, a retry, 2 capital requests, 1 fault, symmetric in the requests | `RowExplained`, `SettledIsBooked`, `CashFollowsCapital`, `CapitalCarried` |

`TypeOK` documents the states of a module; the inductive invariants contain what the
proofs need of it.

The bounds are small but let the interesting cases happen: a quantity of 3 has
two partial fills and an overfill; two POSTs of one submit make the exchange
execute an order twice; a fault is a failed request or a restart at any await,
and two of them let a lock expire and its successor's process die; two handlers let
one fail and the other succeed, and three faults fail a message up to the retry limit
and crash once more; an order of 14 quanta has every remainder modulo 4, both kinds
of ties and a default visible quantity of 0 and of 1. Three legs have two that are
rounded and one that takes the remainder; with percentages in eighths there are ties,
sums above 100% within the tolerance, legs that ask for less than nothing or more than
everything, and a remainder that is negative. Two messages of other components let both
consumers be handed the same action. Three requests let one
fail, one overlap and one come later. A retried settlement meets the batch that is
working on it, and a trade, a batch and a capital request meet on the balance row.
Deadlock checking is off where the system may rest: when all orders are worked off,
all requests answered, or a history has its full length.

## Where code and documentation disagree

`end_of_day_data`: `orchestrator.py` says of its accumulator that it is for "passing
data between steps", NAV to fees to capital (line 163). `_run_step` passes
`step_data or {}`, which replaces the dictionary while it is empty; so what the first
step that fills it adds is lost, and `allocate_daily` and the dealing date are never
called with a NAV. The run is marked successful all the same (`NavReachesCapital`).

Several properties of the passing runs have a premise because the code keeps them
only then: `ProjectionFollows` and `RetryAppliedOnce` for transactions that do not
overlap, and so does `ImplementsLog` where it says that an action is logged once;
`RetryIsReplayed` for requests that do not overlap, without faults and until the cached
answer expires; the excess that `RoundingBounded` allows a VWAP for profiles without a
negative weight, with any other profile it says only that no less than the order is
placed; `DistributionBounded` beyond what legs that ask for less than nothing leave to
the others; `ParentMatchesChildren` for the
in-process broker without cancel and restart; `LotsCarryPosition`, `PnlConserved` and
`FifoMatching` for positions that were never short; `OneInHandler`,
`PlatformFollowsBroker`, `BooksAgree`, `EventuallySettles`, `EverySliceIsTried`,
`RunnerEnds` and `FilledIsDistributed` without faults; `SlicingEnds` except for an Iceberg
of at most five quanta with the default visible quantity; `SuccessIsFinal` for runs
during which no other began; `RowExplained` until a write replaced a row that had changed;
`CapitalCarried` for requests that come one by one with rising dates; `RerunCloses` for
a run that nobody interferes with and actions of known types.

Behaviours of the code that the models contain, and that these premises leave aside
or the properties allow for:

- while the breaker is HALF_OPEN every caller passes, not one probe;
- a cancel and a fill that read the same row overwrite each other's terminal state;
- a cancel before the snapshot of an in-process fill is read leaves a fill row
  without a trade event;
- a recovered runner still has `_cancelled` set and does nothing;
- the Iceberg runner clears its fill event after the submit, so a fill that came
  during the submit is waited for until the timeout; a partial fill wakes it like a
  full one;
- a cancel before `start_algo` finds no runner to stop;
- an invalid transition of the parent drops the new quantities too;
- a rejected acknowledgement of a child order is not looked at (`order.py:248`);
- a negative last VWAP slice is left out, so the slices exceed the order
  (`RoundingBounded` says by how little); a negative weight does the same by the whole
  share that it takes from the others, and nothing refuses one;
- the default visible quantity of an Iceberg of at most five quanta is 0, and the
  loop does not end;
- a second short sale drops the first short lot;
- a commit between load and `MAX()` is missing from the read model until the next
  event;
- a failed message is committed with its batch and is tried again only after a restart or
  a rebalance that comes before that; an unreadable message is committed without a
  dead letter;
- a replay commits the offsets of the dead letters before its producer has delivered
  them and looks at no delivery (`dlq_manager.py:163`, `178`), so a letter whose delivery
  fails, or that is in the buffer when the process dies, is off the queue and not in the topic;
- a retry that comes after the 24 hours of the cached answer runs the handler again;
- the two consumers that may be handed one corporate action both log it when neither
  finds the other's key, that is, when their transactions overlap;
- the idempotency cache is not read again under the lock, and two overlapping posts
  with one key are both applied by the position store;
- a posted sell is published to `trades.executed` and consumed again from there;
- fills of a block's execution order that come after the create request has
  read it are never distributed, and the shares are published on top of the trade that
  the order service publishes for the whole order;
- percentages of 150% and -50% pass, as their sum is checked and nothing else; the first
  leg gets one and a half times the fill and the other one, which would give back the
  difference, is skipped (`DistributionBounded` allows for this, and for no more);
- a racing cancel marks legs and an allocation cancelled that were distributed;
- two operations on the cash balance row may lose an update; a redelivered trade gets
  a second settlement; settling does not reduce the pending flows; `mark_pending` resets
  a settlement that is settled, which is then booked twice;
- the recomputation of `ownership_pct` at the end of a capital request is flushed and
  not committed;
- a corporate action is recorded for the action, not for the portfolio: the first
  portfolio's outcome is the answer for all of them;
- a rerun accrues fees again for every portfolio, and an action of an unknown type
  makes every later run of its date fail.

## Fairness

- Tasks of the event loop (`Create`, `CancelWrite`, `Consume`, `Run`,
  `ProcessFill`, `Cancel`, `Serve`, the block allocation's `Create`, the end-of-day
  `Work`, the consume loop, the slicing loop): weak fairness; asyncio
  runs every task that is ready, and the database and the broker answer or fail.
- `ExchangeFill`: weak fairness; the exchange's fill task only sleeps.
- `RunnerTimeout`: weak fairness; `asyncio.wait_for` ends the wait after 300 s.
- `Expire`: weak fairness; Redis expires keys.
- Nothing is assumed of clients, of crashes and failed calls (bounded, never
  fair), of rebalances, or of the replay, which an operator starts. In
  `EventBus` a commit may fail while faults are left; afterwards the loop's own
  next commit succeeds. In `EndOfDay` nothing is assumed of the requests that start
  runs: `RerunCloses` speaks of a run that has begun.

## Proofs

Each theorem holds for every value of the constants that satisfies the module's
assumptions, which say that counts are natural numbers, that thresholds are positive,
that the names of different kinds of things differ (`StoreAssumption`,
`NamesAssumption`), that requests and batches are finitely many (`CashAssumption`), and
that splits divide prices (`AggregateAssumption`). The inductive invariants were checked
with TLC on the instances of the runs before they were proved.

Infrastructure:

- `BreakerInvariant`, `BreakerBackoff`, `BreakerTrip`: the inductive invariant
  adds to the type invariant and `ClosedBelowThreshold` that `openedAt` is the time
  of the last opening; the back-off follows from it, the trip condition from the
  pruning in `Recent`.
- `OneRequestRuns`, `KeyIsRespected`: until a fault the lock is set exactly while one
  request holds it (`LockInv`); for requests that do not overlap, the place of the only
  request in flight says whether the answer of the latest run is cached, or all runs before
  have expired (`AllExpired`), so that only then another one begins (`SerialInv`).
- `CommitsAreTried`, `LettersWereRetried`, `ReplayIsSafe`: the batch in progress ends at
  the consumer's position and what is settled in it went to every handler (`LoopInv`), so
  that everything behind a committed offset was tried, whatever was assigned anew
  (`TriedInv`). Each dead letter has `_dlq_max_retries` failures of its own, on top of which
  come those still counted (`CountInv`). A replay that has not failed has handed
  what is behind its message to its producer, where it stays on its way until it is
  delivered or fails (`Sent`, `ReplayInv`).

Orders:

- `OrderSafety`, `FillsAreKept`: `NoOverfill` is not inductive. The proof needs
  that nothing is open, filled or traded before the submit (`GateInv`), that
  reports exist only for accepted orders and only at the mock exchange
  (`ReportInv`), that for an order at the in-process broker the request's snapshot is unfilled
  until it fills the order itself (`CreatorInv`), and, as the central fact, that the
  consumer is the only writer of `filled` while it works on a report, so that the
  snapshot it adds to is current in that field although the state in it may not be
  (`ConsumerInv`). `FillsAreKept` follows from the last one.
- `TradesFollowBroker`, `BooksStayTogether`: while nothing has failed, what was booked,
  traded and filled is the sum of the reports that the consumer has worked off, minus
  what the report in progress has not reached yet (`ExternalInv`), or what the request
  has filled itself (`InternalInv`). This needs that an order leaves the pre-trade states for
  good when it is sent, so that writes of stale snapshots can only cancel or fill it
  (`StageInv`, `SnapshotInv`), that an order that the exchange accepted once is open or
  reported once (`UniqueInv`), and that what is executed is reported (`ExecutedInv`).
- `SlicesGoOutOnce`, `StopIsFinal`: a runner that was told to stop is at the top of its
  loop or gone (`StopInv`), there is none before `start_algo` (`StartInv`), and one that is
  not stopped has submitted none of the slices ahead of it (`RunInv`).
- `ParentIsSumOfChildren`: with the in-process broker, before a cancel or a restart,
  the rows that exist follow from where the runner is (`RunnerRows`, `FillRows`), and between a
  child's fill and the parent's write, where the parent is behind, what is about to be
  written is the sum (`SumInv`).
- `SlicesCover`: what was placed is what was allocated except for VWAP (`Kept`), a
  VWAP that falls back has allocated nothing (`FallbackInv`), and while the TWAP loop
  runs a slice is left for the remainder (`TwapInv`).
- `RoundingIsBounded`: after `i` slices TWAP has allocated `i` times the rounded share
  (`TwapRounding`), and VWAP's allocation is at most `i` half quanta above the part of
  the order that the first `i` weights stand for (`VwapRounding`), as long as no weight is
  negative; that no less than the order is placed needs no such premise. `QuantizeNear` is what
  ROUND_HALF_EVEN does to one share, `ProportionNear` the same with the cut quotient.
- `BlockIsApproved`: `all_approved` summarises the legs behind the compliance loop, the
  legs in front of it are not rejected yet, and after the decision nothing rejects a leg;
  cancels write only cancellations (`GateInv`).
- `MarkedIsComplete`, `DistributionIsBounded`: the loop has published the shares of the
  legs behind it and nothing else, and marks an allocation after its last leg (`LoopInv`);
  whatever failed, a leg got its share or nothing (`DrawInv`). If the
  last leg gets a remainder, what is published exceeds the fill by what was not taken from
  the skipped legs before it; if it is skipped, by what the others asked for (`Asked`). Both are
  bounded by the negative percentages (`Below`) and by the rounding of each of the others.

Positions:

- `StoreImplementsLog`, `ReadModelFollows`: every step of the store is a step of
  `PositionLog` or leaves log and read model alone. A commit maps to `Record`
  because the message of an open transaction is not in the log (`FreshInv`): a message
  is logged under its own id (`KeyInv`), the transaction looked for that id when it
  opened, and no other open transaction works on it: a fill goes to one consumer, once
  (`QueueInv`, `Source`), and while nothing has overlapped one transaction at most is open
  (`AloneInv`), so that this holds of actions too (`Once`). The read
  model is rebuilt from a beginning of the log because what a transaction loaded is
  one and stays one (`BaseInv`). Without overlap what it loaded is all of the log
  (`SerialInv`).
- `RetriesAreAppliedOnce`: a posted trade that the consumer is handed again is in the
  log (`PublishedInv`), and every buy of the log has a lot (`LotsHold`), so that the second one
  conflicts; at most one retry is in the log, under the client's key, and none while another
  one is at work (`RetryInv`). What `Lots` folds is shown by taking the last event off.
- `LotsFollowPosition`, `PnlIsConserved`, `OldestLotFirst`: one invariant
  (`AggregateInv`), because each needs the others: quantity and cost basis are the sums over
  the lots, all of which are long, and only the oldest is partly sold. A sell that the lots
  cover takes from the first `n` lots together the smaller of what is asked and what
  they hold (`SoldUpTo`), hence all that is asked (`SoldInAll`), and nothing from a lot after
  one that keeps something (`SoldInOrder`). A split keeps each lot's cost because its price is
  divided without remainder, and so are the next ones (`ExactQuotient`).

Cash and end of day:

- `SettlementsAreBooked`, `CashFollows`: a batch that is about to mark a settlement has
  journaled it (`BatchInv`); the entries in the journal never go down, so a reset or a
  failure does not undo this. A capital request that books cash has its transaction, one
  that has a transaction has its snapshot, and it has one journal entry exactly when it is
  done (`RequestInv`).
- `CapitalIsCarried`: a request has one snapshot, of its date, once it has inserted it
  (`AccountInv`); of orderly requests one at most has read the account and not written it,
  and it read all of the capital (`CarriedInv`).
- `RowIsExplained`: until a write is lost, the row is the sum over the references of
  what their row writes moved, those without a journal entry included (`BalanceInv`). A
  request that has not written the row has no write that was cut off (`CutInv`).
- `RunsAreFinal`: the check that lets a run begin says that for each successful run there
  is a stored one that started later (`LatestOk` is false). Either that one began while
  the successful one was at work, or, starting after its end, it is itself covered by the
  invariant (`FinalInv`, over all requests, since a run exists before its row is stored).
  `RowInv` adds that times are behind the clock and that who completes has a stored row.
- `SuccessfulRunsAreComplete`: a run that is at a step, or within the loops over
  portfolios and actions, has left behind what the steps before it leave (`StepsInv`),
  and no step of anybody takes that back (`Grows`).
- `AdjustmentsAreAccounted`: the publications of an action are at most its record, the
  requests that are about to write it, and those that failed, died or answered with an
  error (`Accounted`).

Sums are folds of the community modules, for which the provers have no induction. The
lemmas of `SumTheorems`, and those about folds and loops elsewhere (`SoldUpTo`), are
proved with a smallest counterexample instead: the subset order of a finite set and the
order of the naturals are well founded, so a set of counterexamples has a least
member, and the step from the next smaller one contradicts it.

Only model-checked: the liveness properties `EventuallySettles`, `EverySliceIsTried`,
`RunnerEnds`, `SlicingEnds`, `EveryEventTried`, `LockIsFreed`, `FilledIsDistributed`
and `RerunCloses`, because fairness and ENABLED are outside the prover's reach. Every
other property of the passing runs is a theorem.

## Not modelled

Most of the repository is arithmetic over tables (risk, attribution, alpha, backtesting,
fees, hedging, reports), reference data and its seeding, routes that wrap one query, and
browser code. These have no state that several activities change, and a model of
them would restate the formulas; `PROJECT.json` names each with its reason. Therefore the
models cover a small share of the lines, those of the order, position, cash and
end-of-day paths and the shared infrastructure under them.

Of the parts with a protocol:

- Mark to market writes the rows that the position store projects. With it the
  instance of `position_store` is too large to check; what a stale write leaves behind
  (`mtm_handler.py:109`) is corrected by the next price.
- Investor operations flush and never commit, and no caller commits for them: a
  faithful model has requests that vanish with their session. `redemption.py:294` calls
  the capital account before the request leaves its state; the capital account is
  modelled.
- The figures of end of day: reconciliation, NAV, prices; `EndOfDay` has whether a
  step left its rows behind. The Temporal wrappers call the same steps.
- Kafka's producer and consumer beyond `EventBus`: `publish` awaits only the enqueueing
  and swallows errors (`kafka.py:106`), so that an event that is not delivered is as good as not
  published and a dead letter that is not delivered is `SettleDlq(FALSE)`; it drops
  events without a registered schema (`kafka.py:95`), among which are today the actions that
  are published to `trades.executed`: `PositionStore` has them delivered all the same; a group without a committed offset starts at the
  end (`kafka.py:141`, in `Resume`); every broker adapter starts a consumer of one group
  (`main.py:222`).
- An idempotency lock that expires under a running handler and is deleted by its first
  owner (`idempotency.py:109`) is a fault in the model; cached error responses are left out.
- Prices and average prices of orders, the choice among several brokers, scorecard and
  audit records, schedules of slices, currencies.
- The compliance gate is a free choice; what the rules compute is not looked at.

## Plan

1. A composition of OrderLifecycle's trade events, EventBus, PositionStore and
   CashLedger: what is lost or applied twice from fill to position and cash, and the
   double publication of block allocations.
2. Mark to market on an abstraction of PositionStore that keeps the row only.
3. Token revocation and the audit trail's positions.
4. Proofs: the safety half of the liveness properties (what holds of every state in which
   a task waits), and the types of the modules whose `TypeOK` is only partly in an
   inductive invariant.
