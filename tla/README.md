# CEX Arbitrage Radar: a TLA+ verification project

The program (`backend/app`, FastAPI on one asyncio event loop, SQLite, one worker
process) polls exchanges, computes price spreads, publishes snapshots of them,
alerts people over Feishu and creates trading cards on an Astro server. This
directory holds the models of its concurrent core, the TLC configurations that
check them and the TLAPS proofs about them.

Source paths below are relative to `src/backend/app`.

## 1. The system

| Part | State it keeps | Operations | Talks to |
|---|---|---|---|
| Collector (`services/collector.py`) | poll state per exchange, ring cursor, settings last loaded | one round: read the settings, claim due exchanges, poll, annotate, build, publish | adapters, market identity, snapshot store, slots, supervisor (heartbeat) |
| Market identity (`services/market_validation_review.py`, `db/market_identity_repository.py`, `api/routes_market_identities.py`, `services/market_identity_catalog.py`) | bindings table, registry in memory, mutation epoch | edit a binding, import the catalog, refresh, annotate, discover | collector (epoch check), store (withdraws opportunities) |
| Snapshot store and slots (`services/snapshot_store.py`, `services/snapshot_consumers.py`) | published lists, generation, version; one snapshot per consumer | publish, compare-and-set of annotations, take the newest | history, index, shadow runtime |
| Shadow runtime and worker (`services/shadow_runtime.py`, `services/shadow_worker.py`) | the request under way, mirrors of what the worker holds; the worker's copies and ledger | submit, three capture phases, statistics, supervise, shut down | two one-message queues, a reader thread, the store |
| Alert delivery (`services/alert_engine.py`, `services/alert_delivery_store.py`, `main.py` 351-743) | hits, cooldowns, backoffs in memory; `alert_delivery_state`, `alert_events` | restore, evaluate, process a match, prune | store (reads), Astro, Feishu |
| Astro cards (`services/astro_alerts.py`, `services/astro_card_attempts.py`, `services/astro_client.py`) | a lock per pair name, the attempt ledger | list, reconcile, add, settle | the remote Astro server |
| Task supervisor (`runtime/supervisor.py`) | status and backoff per task | start, beat, run and restart, stop | every loop |
| Gate TWAP (`services/gate_twap.py`) | jobs and tasks in memory | preview, start, cancel, run slices, close | Gate |
| Announcements (`services/announcement_polling.py`, `services/announcements.py`, `db/repositories.py`) | `exchange_announcements`: alert and reminder status, event time | poll headlines, enrich, store, alert, remind | exchanges' pages, Feishu |
| Price history (`services/instrument_statistics.py`, `services/pair_spread_query.py`) | closes and coverage of a day per market, fetches under way | look up, read what is missing, evict | exchanges' klines |
| Authentication (`db/auth.py`) | sessions, failures, locks, last one-time code | login, authenticate, revoke | dashboard |
| Repositories (`db/`) | one shared SQLite connection and some dedicated ones | execute, commit, roll back | everything |
| Phone alerts, trade availability, index, premium, accounts, other pair queries | caches and tables of their own | polling, requests, views | exchanges |
| Frontend, deployment, scripts | - | - | - |

### What is hard here

* Every handler is cut at each `await`; between two of them any other task runs.
* The process may be killed anywhere (shutdown cancels tasks where they are),
  and what was only in memory is gone.
* A webhook or Astro call may succeed without its answer ever arriving.
* A failed database write may nevertheless be committed later.
* The worker process dies, hangs, grows too big; messages of the dead one are
  still queued when its successor starts.
* Exchanges fail in every combination and are put to rest for different times,
  while a user shortens or lengthens the list of exchanges that takes turns.
* A TWAP job is cancelled while its order is on the way; the order may be taken
  without anyone hearing of it.
* Two loops find the same announcement; a third sends reminders from rows it
  read a while ago.
* A history is read page by page by pagers that go in different directions and
  fail in the middle; candles appear late or never.

### What makes each part correct

* **Alerts**: never two sends inside a cooldown, whatever crashes; no silence for
  an alert that is known to have failed; a stored backoff is kept; an interrupted send is reported exactly once; matches of one
  symbol are handled one at a time.
* **Cards**: at most one card per route; nothing is resubmitted while an earlier
  submission may still take effect.
* **Publication**: an answered binding edit is in force for good, and no list
  decided without it is published again; annotations only land on the list they
  were made for; every snapshot is handled, waiting or counted as dropped.
* **Shadow worker**: the differences applied by the worker give exactly the
  snapshot that is annotated; every waiting caller is released.
* **Poll scheduler**: no exchange that is due is passed over for long, and every
  listed one is polled again and again; a claim never outlives its round.
* **Supervisor**: restarts keep to the doubling delay, nothing restarts once
  `stop()` has begun, and the clients close after the last task has ended.
* **TWAP**: what the job counts is what the exchange took, but for one order
  without an answer; a cancelled job sends nothing; the plan reduces the
  position by what was asked and never more.
* **Announcements**: one alert per announcement, a stored status that is true,
  one reminder per event unless its record was lost.
* **Price history**: a minute that counts as read has its close, if there was
  one to read; a failed read loses nothing.

## 2. The modules

| Module | What it is |
|---|---|
| `AlertGate` | the abstract promise of alert delivery: per key a last counted send and a cooldown |
| `AlertDelivery` | engine, table, loop, group tasks, start-up, crashes |
| `AlertDeliveryProofs` | its invariants, cooldown, backoff, events, permits and refinement of `AlertGate` |
| `AstroCards` | the callers of one pair name, the ledger, the server |
| `AstroCardsProofs` | its types, the one card per route, the guarded adds |
| `SnapshotPipeline` | collector round, binding edits, store, slots, consumers, annotation |
| `SnapshotPipelineProofs` | edits and lists, and the account of what each consumer gets |
| `ShadowMirror` | runtime, queues and worker process |
| `ShadowMirrorProofs` | its six invariants |
| `PollScheduler` | settings, claims, cursor, polls and cool-downs of the collector loop |
| `TaskSupervisor` | tasks, heartbeats, backoff, stop |
| `CollectorRuntime` | composes the two: the loop as a supervised task, the other tasks beside it, the shutdown |
| `GateTwap` | plans, jobs, their tasks, the exchange |
| `CollectorRuntimeProofs` | types, pacing of restarts, fairness of the ring, release of claims |
| `GateTwapProofs` | the account of orders, the silence after a cancellation, what a plan adds up to |
| `Announcements` | polling and enrichment loops, the table, the reminder loop |
| `AnnouncementsProofs` | alerts and reminders |
| `PriceHistory` | cache, coverage, the fetch and its pagers |
| `PriceHistoryProofs` | its two properties |
| `MC...` | values of the constants for TLC |

Definitions whose comment begins "Mutant of" are used by no specification. They
are plausible mistakes in the definition that follows them: with one put in the
other's place TLC refutes the property named for it in `PROJECT.json`.

### AlertDelivery

`loop` says where the process is (down, restoring, waiting, evaluating,
processing) and `stage[k]` where the task of key `k` is. `hits`, `lastSent`,
`retryAfter` and `attempts` are the dictionaries of `AlertEngine`; `row` is the
`alert_delivery_state` table; `events` are the audit rows with status "unknown".
`Restart`, `ReportUnknown`, `ClearPending`, `FinishRestore` are
`_restore_alert_delivery_state`; `BeginRound` (with the daily prune), `Evaluate`,
`EndRound` are `_run_alert_loop`; `Admit` ... `PersistFails` are
`process_bounded` and `_process_alert_match` between its awaits. A write that
raises is `row' \in {before, after}`. `started`, `counted`, `holdUntil`,
`orphans`, `reached`, `doubt` are history variables that no guard reads: the last
two are the latest time an alert was, or may have been, taken by the webhook, and
the same with the attempt whose outcome is not in the table yet, which a crash
leaves open for good.

`evaluate` drops `_retry_after` of a key the moment it becomes a candidate, even
if the limits per symbol then cut it off; the model does the same, and
`BackoffRespected` shows that this loses no backoff that is still running.

Abstracted: which opportunities match a rule (`active`) and are stable
(`stable`) are inputs; ranking is reduced to "a maximal set within the limits";
messages and diagnostics are left out; Astro, validation and the feature
switches only decide between `Mute`, `Abandon` and `BeginSend`. Rules do not
change: editing a cooldown or deleting a rule is outside the model.

### AstroCards

One pair name, because locks, lists and conflicts are per name. A caller goes
through waiting (lock), listing, listed, submitting, adding. `wire` holds the
adds whose effect at the server is open, `landed` those that created a card.
Landing late is limited to `Expiry`: this is the premise under which the code
lets an unknown outcome expire after 24 hours, and without it the rule could not
be right. No hour passes between reading the list and reading the ledger. The
pause between two adds is not a state of its own (the lock is held throughout).

### SnapshotPipeline

A list is reduced to its generation and to the set of binding edits its
capabilities were decided under; that is all the properties distinguish. An edit
goes through writing, saved, locked, read, done; `ReadBindings` sees the open
transaction of another editor, as the code does (same connection, no lock). A
round keeps both epochs of the code: `validation_epoch` of the collector and
`epoch` of `prepare`. An attempt that does not yield is one step. Building is one
step, though the code yields in it: an edit installed meanwhile changes the
epoch and the round is not published. The inline observer (used when slots are
off) is not modelled.

### ShadowMirror

The parent's serial, active future, context and capture task, its mirror of the
worker (rows, quotes, identifier table), one message towards the worker and a
list of messages back; the worker's own copies. `Fail`, `FinishFail`, `Spawn`,
`Close`, `Shutdown` are the supervisor and the shutdown. The chunks of one
capture are one step: a capture that fails half-way leads to a new worker, whose
mirrors start empty. The shortcut for rows that are the same object, and the
positions the ledger holds, are part of the nondeterministic choice of indices.
The worker's own timeout on the queue equals the parent's work timeout, which
fires first because it started earlier, so only the latter is modelled.

### PollScheduler, TaskSupervisor, CollectorRuntime

`poll[a]` is the `ExchangePollState` of an exchange, with its due time kept as
what is left to wait; `cursor`, `ignored`, `loaded` are the collector's fields,
`settings` the table. `BeginRound` (and its two variants for a settings read
that fails) is `run_once` up to the polls with `_claim_due_adapters`, `Answer` one
`_poll_adapter` with its second try after a pool error, `StorePollResults` is
`_store_adapter_result` of all of them after `gather`. What an exchange answers
is any combination of markets or none and kinds of errors. Waits are dated from
the start of the round, as in the code, so a slow poll shortens the next wait.
The list of active adapters is a set here: `Index` gives each its place in the
list, which always has the collector's order, `Offset` its place in the ring from
the cursor, and `Claims` are the first `MaxDue` of the due ones by offset.

`TaskSupervisor` is `_run` step by step: `Return`, `Fail`, the first second shown as
"failed" (`left`), `ShowBackoff`, `Restart`; `Beat`; `Stop`, `Cancelled`,
`StopReturns`. Probes started with `restart=False` are left out.
`CollectorRuntime` makes each round of the collector report itself as a
heartbeat, lets other tasks fail or return at any time, and closes the clients behind
`stop()`, as the lifespan in `main.py` does. The collector's task itself neither
fails nor returns: its loop catches everything. Time passes for both modules at
once.

### GateTwap

`Plan` is `build_plan`, slice by slice, with sizes as whole numbers of the
contract's smallest decimal. `Start`, `Begin`, `Skip`, `DryOrder`, `Send`,
`Answered`, `SendFails`, `Complete` are `start` and `_run` between its awaits;
`Cancel`, `Unwind`, `Close`, `CloseClient` are `cancel`, the `CancelledError`
reaching the task, and `aclose`. `Arrive` and `Lost` are the network: an order
may be taken after the job has failed or was cancelled. There is no clock: a task
may be asleep before any slice for as long as it likes. A job whose slices are
already late sends them back to back (`gate_twap.py` 530), which is a behaviour
of the model too. Prices, signatures and slip ratios are left out; the percentage
of a slice is a whole number here, where the code takes a decimal fraction.

### Announcements

Items of one source are numbered by publication time. Each loop goes through
fetching, storing, enriching or sending, recording. `StoreItem` is `INSERT OR
IGNORE`: the loop that inserted the row alerts, the others only add to it
(`Enriched`, the `UPDATE` of the repository). Which items are to be alerted on is
settled for the whole page before its first row is stored, as in the code.
`SendAlert` may deliver and still raise. `BeginRound`, `SendReminder`,
`RecordReminder` are the reminder loop; `lost` and `excused` are history
variables: what was cut off between a send and its record. Whether an event is
still ahead is judged when its notice is stored, in the code when the page has
been read: a notice stored later can only have a reminder that is never due.

### PriceHistory

One market. `cache` holds closes and coverage; the code's list of disjoint
half-open intervals is a set of minutes. `Lookup` starts a fetch of what
`_missing_ranges` yields, gap by gap from the present backwards; `ForwardPage`,
`BackwardPage`, `OkxForwardPage` are the three shapes of pagers, and
`PageFailsPartly` is `PartialKlineHistoryError`. `promised` is a history
variable: the minutes whose candle was there when the read covering them began.
The clock does not go backwards.

## 3. What TLC checks

| Run | Instance | Shows |
|---|---|---|
| `AlertOneKey` | one key, time 0..5, three process starts, cooldown 3 | `TypeOK`, `CooldownSafe`, `SilenceJustified`, `OneUnknownEvent`, `NoSendInsideCooldown`, `BackoffRespected`, refinement `GateSpec` |
| `AlertRound` | three keys of two symbols, no time, concurrency 2, at most 2 alerts per symbol and 3 per round | `MatchesSerialized` |
| `AlertUnknownEvent` | as `AlertOneKey` | refutes `UnknownEventBeforeWipe` |
| `AstroAutomatic` | two automatic callers, two routes, three adds, three hours | `TypeOK`, `AtMostOneCard`, `OpenAddIsGuarded`, `AutomaticWaits` |
| `AstroManualOverride` | one caller manual | refutes `AutomaticWaits` |
| `SnapshotEdits` | editors and an importer against two publications | `TypeOK`, `AnsweredEditsInForce`, `NoRevokedCapability`, `ListOfThisGeneration` |
| `SnapshotConsumers` | consumers, four publications, no edits | `PublicationsAccounted`, `NoGenerationTwice`, `LatestHandled` |
| `ShadowMirror` | five snapshots, four requests, one restart | `TypeOK`, `AnswerFitsSnapshot`, `MirrorsAgree`, `DifferencesApply`, `QueueNeverFull`, `ReadyIsThisWorker`, `EveryRequestAnswered` |
| `CollectorRuntime` | three exchanges of which one or all may be ignored, one claim per round, the collector and one other task | `TypeOK`, `PassedOverBounded`, `EveryoneServed`, `RestartPacing` |
| `GateTwap` | two jobs, dry and live requests of both modes with rounding, minimum and last-order clearing | `TypeOK`, `OrdersAccounted`, `ReducesAsPlanned`, `CancelledSendsNothing` |
| `Announcements` | two items, one with an event, one provider and the enrichment loop | `TypeOK`, `AlertOnce`, `StatusHonest`, `ReminderOnce` |
| `PriceHistory` | a window of four minutes, pages of two, eight minutes | `CoverageHonest`, `NothingForgotten` |

Bounds, all guards of the actions or constants: `MaxTime` and `MaxBoots` (one
full cooldown with slack after a crash at any point, and a crash during the
recovery from a crash), `MaxAdds` and `MaxTime` (an add, a lost answer, the
expiry, a second and a third add), `MaxGenerations` (a snapshot in hand, one
waiting and one that overwrites it), `MaxAttempts` (cooperative attempts and the
last one; 1 in the run without edits), the restarts and requests of
`ShadowMirror` (a full send, a difference, a difference after it, and one after
a new worker). The retention and retry constants are scaled to the clock and
keep their order.

In `CollectorRuntime` (281 535 states) `MaxPoll` 1 and `Interval` 1 make a poll as
long as an interval, so that waits are shortened to nothing; the ladder has one
rung, longer than the interval, and the legal wait is as long; `MaxEdits` 1
shortens the ring at any moment, to two exchanges or to none; `MaxFailures` 2 with
a backoff from 1 to 2 reaches the ceiling. `GateTwap` (105 625 states) needs no
bound: plans are finite. In `Announcements` (1 980 464 states) `MaxTime` 1 leaves
one event time that passes or does not, and `MaxExcused`, a constraint of the run,
cuts behaviours after the first reminder that could not be recorded: a second
one would repeat the first. In `PriceHistory` (1 677 384 states) `MaxNow` 7 moves
the window of 4 by three minutes: a first read, a read of what is missing, and
one after that; pages of two make a gap of two pages, which may fail between them.

Deadlock is checked in the runs of `SnapshotPipeline` and in `Announcements`,
whose loops can always start another round. It is off in the others, which really
stop: the clock, the starts and the adds are bounded there, jobs end, and a closed
runtime stays closed.

### Fairness

Safety runs of alerts and cards assume none. `SnapshotPipeline` assumes weak
fairness of each consumer task: the event loop runs a task that can go on, and
handlers return or raise; nothing is assumed of the collector or the editors.
`ShadowMirror` assumes three things the code enforces with deadlines: a request
that stays active makes the supervisor fail the worker (work timeout), disposing
of a worker ends (terminate, kill, bounded joins), and so does the shutdown.
Nothing is assumed of the worker process: it may be silent for ever.
`CollectorRuntime` assumes that the event loop runs the collector's round when it
can go on, that it launches and restarts tasks whose sleep is over, and that the
clock advances; a poll ends because the HTTP clients' timeouts end it. Nothing is
assumed of what exchanges answer, of the first reading of the settings, of other
tasks, or of the shutdown; `EveryoneServed` starts where settings have been read.

### Two disagreements with the documents

* `AlertUnknownEvent`: when the event of an interrupted send cannot be written
  at start-up, the code keeps the pending mark but starts the loop. After the
  cooldown the key is sent again, and the new mark replaces the old one: that
  interruption never gets the event the specification promises for each.
* `AstroManualOverride`: the ledger has one row per route. A manual retry over
  an open outcome replaces the row, and if the server rejects the retry the row
  says "failed" while the first add is still open; automatic callers then add.

### Observations without a run

None of these contradicts a promise the repository makes; they are what the
models showed about its limits.

* A candle published later than the last three minutes before the *next* read is
  not read again (`instrument_statistics.py` 56): the re-read counts from the end
  of the new window, so lookups far apart leave the hole until it leaves the
  window. `CoverageHonest` is therefore stated for candles that were there.
* Two loops of one source that fetch a first page before either has stored one
  mute each other's items only page by page; `tests/test_announcements.py` 993
  states the muting for one page at a time.
* A crash between storing an announcement as pending and its alert leaves it
  pending for ever: nobody takes it up (`lost`). At most once is what the code
  gives, not at least once.
* A reminder marked as sent stays sent when the event is moved.
* `cancel()` labels a job "cancelled" even if it had completed or failed
  (`gate_twap.py` 515); `OrdersAccounted` says "completed" honestly, not
  "cancelled".
* Hyperliquid's saved universe is written before the listings derived from it
  are stored (`announcements.py` 2335), so a crash in between loses a listing.
  This path is not modelled.

## 4. What is proved

All theorems hold for every value of the constants that satisfies the named
assumptions (`AlertAssumption`, `PipelineAssumption`, `CardsAssumption`,
`TwapAssumption`, `AnnouncementsAssumption`, `MirrorAssumption`,
`HistoryAssumption`, `SchedulerAssumption`, `SupervisorAssumption`,
`CollectorAssumption`): typing, snapshots with a quote for every row, a clock that
reaches the end of the first window, `Shadow` being a consumer, at least one
attempt of `prepare`, cooldowns at most `MaxCooldown`, finitely many alert keys
(rules times opportunities) and at least one permit (`alert_match_concurrency` is
at least 1), order minima that are whole steps, an enrichment loop that is none of
the providers, no adapter listed twice, a ladder that is not empty, backoffs in
order.

Several proofs need an induction over numbers or over the elements of a finite
set. They argue about a least counterexample instead (`LeastOf`, `LeastNumber`,
`SmallestSubset`), which follows from well-foundedness without an induction rule.

**AlertDeliveryProofs.** `TypeCorrect`, then `CooldownProtected`. The property
"no send inside a cooldown" is not inductive, since a running engine forgets and
a restart believes the table. The strengthening `CooldownSafe` says that until
the cooldown of the last counted send is over, the engine remembers a time not
older than it, and independently what the table would restore is not older
either; plus what makes those two facts stable: no recorded time lies in the
future, a row is touched whenever its last send moves (so pruning by age is
safe, with the retention longer than the longest cooldown), a send in progress
has its own mark in the table, and a match that was let through stays free to
send until it does. `CooldownRespected` follows, and `ImplementsGate` maps every step to a step of `AlertGate` or a stutter.

`SilenceHasReason` is the other side: an engine that never sent anything would
keep every cooldown. `SilenceSafe` bounds what the engine remembers and what the
table would restore by the latest alert that was or may have been taken, and a
mark in the table by the attempt still in doubt; while the process is down or
restoring the two bounds are the same. A record that left the mark of an answered
send in place would break it at the second start.

The backoff has an invariant of its own (`BackoffSafe`): a wait never reaches
further than the cooldown of its key, counted from the present in memory and from
the last touch of the row in the table, so pruning cannot forget it; while it is
not over the table has it, without a pending mark that would replace it at a
restart, and so has an engine that is up. `NoEarlyRetry` follows.
`UnknownReportedOnce` needs that an event's id is made of the key and the pending
time, as in the code. For `PermitsKept` the matches at work are counted: handing
the permit on inside a group replaces one member of a finite set by another.

**SnapshotPipelineProofs.** One inductive invariant for four theorems. Its core:
a list that can still be put in the store, whether by the round at hand, by an
annotation, from a slot or by a consumer that has it in hand, either contains
every answered edit or carries a version or an epoch that is no longer current,
so that the check before the write fails. An old list stays harmless because
versions and epochs only grow. `AnsweredEditsKept` needs the
refresh lock: what the refresh in progress has read contains every answered
edit, as each was committed before.

The mailboxes have a second invariant, per consumer (`MailboxInv`): what lies in a
slot is not older than what the consumer was handed, an empty slot holds exactly
that, a consumer asleep beside something newer has its event set, and the
publications are the sum of those handled, dropped, in hand and waiting.
`NothingUnaccounted`, `WakeUpsKept` (no lost wake-up, the safety half of
`LatestHandled`) and `GenerationsAscend` follow.

**AstroCardsProofs.** The types hold for callers of both kinds; the rest is for
automatic callers (`Manual = {}`), since a manual override breaks it, as the run
`AstroManualOverride` shows. "At most one card" is not inductive. `IInv` adds that
one caller holds the lock; that adds have distinct numbers and are on the wire or
landed, never both; that an add which may still land is the only one of its
route, its route has no card, and its ledger row is open and not older than the
add, so that it expires later; and what a caller has read: a route it saw has no
live add, one it did not see has no card unless its row is open and young, and
what it goes on to submit has neither. `NoSecondCard`, `OpenAddsAreGuarded` and
`AutomaticCallsWait` follow.

**ShadowMirrorProofs.** None of the properties is inductive: what a reply means
depends on the message it answers, and that on the mirrors it was cut from. The
invariant follows a round from end to end. A capture due, a message to the child
and a reply of this epoch exclude one another, and there is at most one of each;
each says what it will make of a live child: a full round empties the copies, a
difference meets the ones it was computed from, a directory brings the rows to
those of the snapshot, quotes complete what was asked for. A failed step is
remembered by `resync` or by the reply that will set it. For a dead child nothing
is claimed, and replies of earlier epochs are only known to be older. `TypeCorrect`,
`AnswersFit`, `MirrorsStayEqual`, `DifferencesAlwaysApply`, `QueueHasRoom` and
`ReadyWorkerIsCurrent` follow.

**GateTwapProofs.** The invariant is per job: an unused id has no traces; only the
slice the job is at can be on the wire; behind it counted and taken orders are
the same; a cancelled or closed job's task is on its way out.
`OrdersAreAccounted` and `CancelledStaysSilent` follow for any number of jobs and
any plans.

`TakesWhatItPlanned` is about the numbers. A plan is a recursion over slices, so
first it has to exist (`PlanExists`), to descend (`PlanDescends`), and its slices
to add up to what it takes from the initial size (`PlanAddsUp`, over sums of
finite sets: `SumsAgree`, `SumPick`). A job follows its plan (`PlansFollowed`):
what it has taken is a part of the slices before the present one, all of them once
it has completed; rounding down to steps leaves less than the minimum.

**CollectorRuntimeProofs.** Three invariants for the three modules. `SupervisorInv`
follows one delay: slept and left add up to its current part, and it is the one
due after so many failures; that it doubles needs that the recursive function
`Doubled` is what its equation says (`DoubledValues`). `RestartsPaced` follows.
`PollInv` has the types (the longest wait is the greatest of a finite set,
`MaxOf`) and `PassedInv`: rounds that passed an exchange over, times `MaxDue`, plus
its offset from the cursor stay below the length of the list. Every round that
passes a due exchange over has claimed `MaxDue` others before it, and the cursor
goes behind the last of them (`ClaimsReachOn`, counted with the pigeonhole
theorem; `CursorBehind`, with remainders as case distinctions). `NobodyStarves`
follows, also when the list changes. `ClosingInv` adds the shutdown: the loop ends
with its task, and the clients close behind both (`TypesKept`).
`ClaimsAreReleased` is the safety half of `EveryoneServed`: a claim lasts exactly
as long as the round that made it.

**AnnouncementsProofs.** A loop with a row in its hands is alone with it and the
row is pending (`HoldInv`), because only the loop whose insert succeeded gets
there; a reminder round has each row once, and a row that is neither sent nor
about to be has no reminder to answer for (`RemindInv`). `AlertsOnce`,
`StatusIsHonest` and `RemindersOnce` follow.

**PriceHistoryProofs.** The cache alone says too little: a fetch carries its own
copy of closes, coverage and promises while the cache may be evicted under it.
`Holds` says that the copy is honest and has every close of the cache that is in
its window; `InGap` says for each way of paging that the candles on show in the
part behind the pager are among its points, so that both the end of a gap and
what `PartialKlineHistoryError` keeps of it are covered rightly. The backward
pager needs that the newest candles before a minute leave none out between them
(`NewestFacts`), and the gaps that a non-empty set of minutes has a least and a
greatest member (from the well-foundedness of the naturals). `CoverageIsHonest` and
`NothingIsForgotten` follow.

Every invariant and every action property of the passing runs is a theorem. Only
model-checked are the liveness properties (`LatestHandled`, `EveryRequestAnswered`,
`EveryoneServed`): fairness and ENABLED are out of the reach of the prover. Of the
first and the last the safety half is proved.

## 5. Not modelled

`PROJECT.json` lists every part with its reason. In short:

* Calculation on floating-point prices (spreads, filters, labels, planning,
  backtests, shadow scoring), requests to exchanges and their formats, scraping
  and translation, message layout, metrics and diagnostics: no state that steps
  of two actors could disagree about.
* Authentication: a login is one `BEGIN IMMEDIATE` transaction behind a lock, so
  logins do not interleave; time windows and hashing remain.
* The shared main SQLite connection: what an interleaved commit or rollback does
  there depends on SQLite's own snapshot rules. The repositories that open
  transactions have connections of their own (`main.py` 831, 851, 889), the
  presets a lock and a connection.
* The display cache of the Astro client decides nothing. Phone alerts keep one
  cooldown in memory in one loop.
* Shadow ledger, trade availability, index components, premium index, accounts:
  requests and calculation over caches that one task writes.
* The React frontend, about half of the source lines, and deployment.

## 6. What is left

* Edits of alert rules while matches are under way; the inline observer of the
  shadow runtime; the ledger's pending batches.
* An abstract specification of a consumer's mailbox (a register that shows the
  newest publication) that `SnapshotPipeline` implements, as `AlertDelivery`
  implements `AlertGate`; `MailboxInv` is most of what its proof needs.
