# Market Assistant: a TLA+ verification project

Market Assistant (`src/market-assistant`) streams closed one-minute candles of
crypto pairs into Postgres, polls the bars of Indian equities, rolls candles up into
higher timeframes, and on every close runs scanner rules, strategies and an ML model
whose hits and signals reach users over WebSockets and Telegram. Users backtest
strategies, train on history and ask a chat assistant; a React front end shows all
of it. This directory models the parts where order, failure, concurrency and
off-by-one boundaries decide whether the data is right, checks them with TLC on small
instances and proves the main results for all instances with TLAPS.

## 1. Inventory

Paths are below `src/market-assistant/backend/app/` unless they say otherwise; the
last column names the module, or why there is none.

| Component | State it keeps | Operations | What is hard | What makes it correct | Modelled in |
|---|---|---|---|---|---|
| Ingest flush pipeline: `ingest/buffer.py`, `writer.py`, `dispatch.py`, `runner.py` | `_pending` per symbol, the batch in hand, the candles table, the feed, the job queue | add, flush (upsert, commit, publish, enqueue, roll up), requeue, drain at shutdown | every await may fail or be cancelled; the commit's answer may be lost; `add` interleaves | no accepted candle is lost short of a crash; only durable bars are fanned out; the feed of a symbol stays in order | `Ingest` |
| Live aggregator: `ingest/aggregator.py` | a mark per (instrument, timeframe), in memory | produce, confirm | gaps, sparse windows, restarts, a catch-up cap | rows only from closed windows with enough bars; no window silently skipped | `LiveAggregator`, `Ingest` |
| Backfill sweep: `ingest/backfill.py`, `worker.py` | none; writes the candles table | find gaps, fetch, upsert, per instrument, twice an hour | concurrent with the live flush | every closed bar without a row is fetched, once | `Ingest`, `History` |
| WebSocket consumer: `ingest/ws_consumer.py`, `parser.py`, `metrics.py` | the backoff attempt | consume, reconnect | clean ends, errors between receive and add | only closed candles are added; it always reconnects | partly, in `Ingest`: `add` in stream order |
| Equity poller: `ingest/equity_poller.py`, `nse_calendar.py`, `yfinance_adapter.py` | the candles table | a poll per quarter hour of a session | polls missed, aborted by one symbol, answered late or with nothing, at the session's edges; a window whose start has seconds | the polls that can get a bar make up for one that missed it | `Sweeps` |
| Instrument universe: `ingest/universe_equity.py`, `api/instruments.py`, `core/universe.py` | instruments | seed | the poller and a POST seed at once | each equity once, and a lost race costs one poll | partly: equities in `Sweeps`, without the crypto seed and the PATCH |
| News: `ingest/rss.py`, `sentiment.py`, `workers/news_worker.py` | `news_items` | read feeds, score, insert | | one row per url with its own score | not modelled: one sequential pass over one list, in one transaction |
| Retention: `core/retention.py`, `workers/retention_worker.py` | the candles table | nightly DELETE | runs among the polls | takes only what is old enough | `Sweeps` |
| Scanner: `scanner/worker.py`, `dedup.py`, `models/scan_hit.py` | `scan_hits` rows, fast-path keys, session objects | one job per closed candle | jobs of one bar run twice or together; stops between commit, publish and enqueue; a rule deleted under a job | one hit per rule and bar, fanned out once, alerted | `ScanWorker` |
| Scanner language: `scanner/dsl.py`, `evaluator.py`, `indicators.py`, `cache.py` | none | validate, evaluate, compute | missing values, warm-up, flat series | missing data never fires a rule; what rules look at is computed; a past value never changes | `Indicators`, `Rules`, `RuleHistory` |
| Alerts: `workers/alert_worker.py`, `core/rate_limit.py`, `alerts/telegram.py` | delivery marks, per-user counters | one job per hit, retried | retries, shared counters, a stop between INCR and EXPIRE | nobody is messaged twice; the limit holds; everybody is served | `AlertWorker` |
| Strategy and ML signals: `strategies/worker.py`, `workers/ml_inference_worker.py`, `ml/inference.py` | signal rows, claim keys | one job per closed candle | the claim precedes the commit | a signal is stored and published at most once | `SignalWorker` |
| Strategy library: `strategies/*.py` | none | evaluate a window of bars | session levels in a rolling window | levels on the right side of the entry; no signal of another session | partly: seven of eight presets in `Presets`; nothing stores the rates `funding_extreme` reads |
| Backtest engine: `backtest/*` | none | walk, run, charge | a bar that touches stop and target; look-ahead; rolling windows | a trade ends at its first touch; a past trade never changes | partly, `Backtest`: without Sharpe ratio and drawdown |
| Backtest job: `workers/backtest_worker.py`, `api/backtests.py`, front-end polling | the backtest row | create, enqueue, run, poll | enqueue after commit, a stopped or repeated run, on other candles | pending only with a job; an outcome that was seen is replaced only by a job that ran again | `BacktestJob` |
| ML training: `ml/*` | model rows, artifacts | build features, label, split, gate | leakage across the split, dropped rows | no label of a training row reaches the test window | partly, `Training`, `Splitter`: without classifier, calibrator, baselines |
| Chat: `api/chat.py`, `chat/orchestrator.py`, `quota.py`, `rate_limit.py`, `guards/*` | messages, the daily budget | one turn: rounds, grounding, regeneration, fallback, commit | the budget may run out in any round; turns overlap; any call fails | bounded rounds; only checked answers; the budget is respected | `ChatTurn` |
| Chat providers, tools, knowledge base: `chat/providers`, `chat/tools`, `chat/kb` | none | adapt, query | | | not modelled: external services and read-only queries; what a tool reports is a choice of `ChatTurn` |
| REST rows: `api/scanner.py`, `strategies.py`, `alert_subscriptions.py` | rules, subscriptions, configs | create, patch, delete, upsert | select-then-insert, checks without locks, cascades | ownership, one row per scope | `Rows` |
| WebSocket relays: `api/ws_*.py` | one subscription per socket | subscribe, forward, die | the forwarder may die alone | a live page is subscribed to what it shows | `LiveView` |
| Front-end hooks and stores: `frontend/src/hooks`, `stores`, `lib` | query cache, series, socket, chat store | fetch, merge, reconnect, switch, stream | late answers, reconnects, effects of one render | no answer or frame of another key, nothing twice | partly, `LiveView`, `ChatPage`: hooks that only query or mutate are left out |
| Front-end pages and components | local state | render | | | partly: chat page and error page; the rest is rendering |
| Tables and migrations: `models/*`, `alembic` | constraints | | | | the constraints decide the commits of the modules that write the tables |
| Authentication, configuration, logging | | | | | not modelled: stateless per request |
| Analytics: `analytics/*` | none | | | | not modelled: numeric queries without state |

They interact through three places: the candles table (flush, sweep and poller
write; scanner, strategies, backtests, training and the API read), the arq queue (the flush
enqueues candle-close jobs; the scanner enqueues alerts; the API enqueues backtests)
and Redis (feeds, claim keys, counters, budgets, heartbeats).

## 2. Modules

| Module | Models | Correspondence |
|---|---|---|
| `CandleFeed` | nothing in the code: the promise of the ingester | a symbol's candles are accepted in order, wait, become durable, are announced in order; only an ended process forgets |
| `LiveAggregator` | `aggregator.py` as operators | window arithmetic, coverage, candidate windows, confirm |
| `Ingest` | the ingest process and the sweep | `pc` is the await the flush task is at; one action per stretch between two awaits |
| `ScanWorker` | concurrent scanner jobs of one instrument | `pc[job]` is the await; `loaded` the rules it read, `hits` the rows, `keys` the Redis keys, `expired` the session objects after a rollback, `deleted` the rules deleted since |
| `AlertWorker` | concurrent alert jobs | `pc[job]`, delivery marks, the counters with and without TTL, arq's tries |
| `SignalWorker` | concurrent strategy and model jobs of one (instrument, timeframe) | `now` is the newest stored bar, time is counted in bars; `claimed` when a Redis key was last set; `todo` and `fresh` the candidates of the loop and of the open transaction |
| `ChatTurn` | concurrent chat turns | `pc[turn]` is the await; `spent` and `counted` the Redis counters of the budget and of the user's rate; a text is a value with the facts it states and whether it advises |
| `Indicators`, `Rules` | `indicators.py`, `cache.py`; `dsl.py`, `evaluator.py` | pure operators over a sequence of bars; NaN is a value; rules are trees, and a function that walks one is given by what a call returns from those on the children |
| `Presets`, `Backtest` | `strategies/*`; `signal_bridge.py`, `runner.py`, `costs.py` | a preset is a set of none or one signal; the walk is a record carried from bar to bar |
| `Splitter`, `Training` | `ml/splitter.py`; `features.py`, `labels.py`, `evaluate.py`, the gate of `train.py` | sets of row numbers |
| `History` | the composition of those but `Rules` | the state is the bars stored so far and the walks over them; all the rest are operators of it |
| `RuleHistory` | scanner rules over the snapshots of `History` | the snapshots a scanner job evaluates, over the keys its enabled rules ask for |
| `LiveView` | one live view: `useWebSocket`, `useCandles`, `useLivePrice`, `useSignals`, `useScanHits` and the relay behind it | `status` is React's, `sock` is `wsRef.current` with the relay's side of it, `fetches` the REST requests in flight, `shown` what the hook holds, `db[k]` the items of key k published so far |
| `ChatPage` | `useChatStream`, `Chat.tsx`, `chatStore` | `store` is the store, `streams` the turns being read, `panel` whose partial text, chips and error are on the page, `lists` and `loads` the REST requests in flight, `log` the server's messages |
| `Browser` | the front end with one of the two open | `page` is the route |
| `Rows` | requests on rules, subscriptions and configs | READ COMMITTED: a request reads, and commits later what constraints then allow; `requests` holds those in between with what they read |
| `BacktestJob` | a backtest from POST to polling page | `request`, `row`, `queued`, `running` are where each part of it is; `polling`, `asking`, `failures` and `seen` are TanStack's query of the page |
| `Sweeps` | poller, equity seed, retention | quarter-hour ticks; `due` is what cron has yet to start at this tick, `missed` the equities a poll stored nothing of |
| `Backend` | the composition of those three | none writes what another writes, and `BacktestJob` leaves open what a backtest reads of the bars, so a behaviour is of one of them and the others rest |
| `*_proofs` | theorems about the module named | |
| `MC*` | instances for TLC | |

**Abstractions.** In `Ingest` a candle is its minute; prices are left out, so a
rolled-up row is the set of minutes it was made from. `produce()` reads one snapshot.
Publishing the higher timeframes of one symbol in one roll-up is one step per prefix,
whose order among timeframes is not fixed. The dispatch gates (whether anybody wants
a job) are left out: a job is enqueued for every candle. A commit may be applied
although its answer is lost (`PersistFails` has both outcomes), and a rollback may
itself fail or be cancelled (`RollbackFails`): then the batch is in no variable.

In `ScanWorker` whether a rule fires on a bar is a constant; the series a rule is
evaluated over is in `RuleHistory`. `Session` are the bars an equity is scanned at, all of
them for crypto. A rule can be deleted under a job while it has no hits, whose foreign key
does not cascade; the insert then fails as it does for a duplicate. In `AlertWorker` the message text is
left out. The 24 h TTL of a delivery mark and the 48 h TTL of a fast-path key are
events that may happen at any time where they matter (`ExpireKey`) and are otherwise
longer than any run. In `SignalWorker` what a config or a model emits on a bar is a
constant, one direction per source; the TTL of a key is a number of bars, because the
bars also measure the window; `MaxLag` is the number of bars by which the jobs of a
candle have ended: arq cancels a run after five minutes, the wait in the queue is
added. A flush may store up to `MaxBatch` bars at once, whose jobs then read the
same newest window. Its variables `torn`, `mute` and `toggled` are history: they record which keys
a job left behind when it broke off, so that a property can excuse those and no others.

In `ChatTurn` a tool call is the set of facts it returns; the grounding guard compares
facts, the advice guard is membership in `Advice`. A tool may return NaN, which JSONB
refuses when its record is flushed with a later query or at the commit (`broken`). A day
does not end during a run.

In `History` and the modules below it a float is an integer count of a small unit and
a division rounds down; comparisons that a property needs are therefore of values in
the same unit. Lookbacks and periods are constants, small in the run; multiples and
percentages that a preset takes are whole numbers. A rule's condition names an indicator at
the one period of the model; `Nodes` are the conditions and groups rules are made of, and
`MaxDepth` stands for Python's recursion limit: a deeper tree neither parses nor fires. Of
the closing timeframe `REQUESTED` is computed in any case; in the run it has the keys
without a period, because those of a custom period are in no base set. The live worker
evaluates the newest `P.history` bars (`Frame`), which stands for its 500. The walk has the
window the API gives it, unfloored; the floored window of a caller that names the timeframe
is a view the presets are asked over. The clock has `Step` ticks from a bar to the next, so
that a sweep can run off the minute, and looks back `SweepBars` bars.

In `LiveView` an item is its number; two items of a bar are the open bar's updates, and
`Day` tells which UTC day an item is of. One socket and one view are mounted at a time. The
keys of the signals view are timeframes of one instrument, whose history a request asks
for without a timeframe and the query cache keeps. The 1d candle of a day is there only
when the day is over. In `ChatPage` an answer is the number of its question, and the
partial text, the chips and the error are the session whose turn put them there. In `Rows` a
row's id is the number of the request that inserts it; rules are created enabled.

In `BacktestJob` every run chooses its outcome, because poller, sweep, flush and retention
change the candles it computes on and nothing looks at the row's status; the page's query
is TanStack's with `retry: false`, whose count of failures begins anew with each fetch.
In `Sweeps` a tick is a quarter of an hour and a day has `Quarters` of them and a night. A
poll starts some seconds past its tick, so the first of the quarters it looks back over
loses its head, the minute those seconds belong to (`part`). The vendor is in time or
late by some quarters, and may have nothing for an equity; the bar still forming is fetched
too, and written again by the next poll, so it is left out.

## 3. Runs

| Run | Shows | Bounds |
|---|---|---|
| `ingest_flush` | fan-out only of durable bars, no unaccounted loss, a symbol without an instrument id does not disturb a known one, refinement of `CandleFeed` (which holds the order of memory and feed); every held candle settles | 2 symbols, 3 minutes, one strict 2-minute timeframe, 1 fault, 1 sweep |
| `ingest_catchup` | the mark and the higher feed never go back; no window is skipped except sparse or beyond the cap, and one whose roll-up failed is never found sparse later; rows only from enough bars | 1 symbol, 7 minutes with gaps, fractional coverage, cap 2, 2 faults |
| `scan` | hits fanned out at most once and only when stored, a key implies a row, an unalerted hit is one whose job stopped, every job ends and a done one recorded every hit but of a deleted rule or a closed market | 4 jobs (a duplicate, a 5m job of the same start time, one of a bar outside the session), 2 rules, 1 failure or deletion |
| `alert` | nobody messaged again after a marked send, the limit over concurrent jobs, a leaked counter heals, every job ends, and a done one has served everyone it did not skip | 2 hits, 3 subscriptions of 2 users, limit 2, 2 tries, 2 faults, 1 window end |
| `signals` | a signal is stored at most once and published only when stored; a claimed or stored signal is lost or unannounced only to a job that broke off; a done job has left no candidate of its own bar unclaimed; jobs end | 4 bars, one or two in a batch, a window of 2, keys of 3 bars, lag 1, two configs of one strategy and a model, 1 fault |
| `chat` | only checked text is surfaced; calls stay within the budget; mid-reasoning text is judged as an answer only when the budget is spent; every turn ends, and one that answered has saved it | 3 turns: two of one user, one on a foreign session; 2 rounds, budget 4, rate 1, 1 fault at any await; any tool may return NaN |
| `history` | indicators stay in range and agree with the stored bars; missing data never fires a rule, and a rule decides over the keys the worker computes as over all; presets' levels, sessions and windows; trades end at the first touch; folds hold out; a sweep fetches what is missing, on and off the minute; the past is kept | every history of up to 6 bars of 4 shapes, 5 bars to a day, one bar lost; a frame and a window of 4 bars; a sweep over 3 bars at any of 2 ticks per bar; every set of 3 rules, of trees nested 2 deep |
| `browser` | no frame or answer of another key gets into a view, no message of another session into a chat; nothing is shown twice; a page that says Live is subscribed to what it shows, and fed unless its forwarder died; while a turn is at work, the partial text, chips and error on the page are of its session; the day change is measured within the day; a lost socket comes back | 2 keys, 3 items per key, 1 lost socket or failed call, 2 switches; chat: 2 sessions, 2 questions, 2 visits, 1 failed request |
| `backend` | no dangling row, no chat shared but by racing; a pending backtest has a job, and only a job that ran again replaces an outcome that was seen; a bar is stored unless every poll that can get it missed it; a toggle takes effect; polling ends unless the job is lost or no fetch is answered any more | 2 users, 1 chat, 5 requests, 3 edits; 2 backtests, 2 troubles, any number of failed fetches; 2 equities, 4 quarters a day, 3 days with a holiday, lookback 2, a delay of 0 or 1, retention 2, two missed polls or three empty answers |
| `ingest_sparse` (violation) | a window found too sparse is behind the mark, without a row, when it has its bars | 7 minutes with gaps, one strict 2-minute timeframe, 1 sweep, no fault |
| `browser_switch` (violation) | a switch of symbol on an open socket crashes the page | as `browser` |
| `backend_close` (violation) | the last quarter of a session is fetched by no poll | as `backend` |

**Properties in groups.** Several properties name a conjunction of parts, each stated
and commented beside it: `AnnouncedIsStored` (the fan-out of 1m and of higher bars),
`NoWindowSkipped` (`CatchUpComplete`, `FailedRollUpIsRetried`),
`SignalsAccounted` (claimed, published, announced, done), `IndicatorsSound`,
`PresetsSound`, `TradesHonest`, `TrainingHeldOut`, `PastIsKept` (`Causal`,
`OrbKeepsItsBreakout`), `PageIsOfKey`, `ChatInSession`, `RowsSound`, `BacktestsSound`,
`SweepsSound`. `EndsRecorded`, `EndsServed` and `EndsSaved` say that a job ends and
what it has done by then. The types of `ScanWorker`, `AlertWorker`, `SignalWorker`,
`ChatTurn`, `Backend` and `Browser` are not run but proved; those of `History` are parts
of its groups.

**Why the bounds are enough.** Two faults reach a failure during the recovery from
a failure (a failed commit and then a failing rollback; a crash after a requeue).
Three minutes close one two-minute window, so a roll-up follows an unfinished
flush, and a minute lost in it makes it sparse. The catch-up run has three closed windows: a mark,
and two that are caught up with at once, under two faults; that more windows wait than the
cap allows is left to `WindowsAreNotSkipped`, which holds for every cap. Of the four scanner jobs two are a job and its duplicate,
a third's row collides with both, and the fourth finds the market closed. Two alert jobs with two subscriptions of one user are the
smallest set that shares a counter within and between jobs. In `signals` the window
moves past two emitting bars, a job of the previous bar overlaps the next one, the
keys of the two configs collide on one bar and not on another, and keys expire
before the last bar. A budget of four is less than the six rounds and two
regenerations of two turns, so it runs out in any round of either pass, and with two turns of
a user over a rate of one, one of them is refused. Six bars cross a midnight of five-bar
days, so an opening range, a session change, a walk opened on one day and closed on
the next, and a window and a frame shorter than a session all occur; the shapes are a plain rise, a
rise and a fall wide enough to touch a stop and a target, and a flat bar without volume. Three items of two per day cross midnight;
a list of two and a memory of two evict. Two crossed requests are the smallest race, and
five requests suffice for two rules, two subscriptions that race for the chat, and a
deletion. Two missed polls in a row are as many as the lookback covers, and one already costs the head of a quarter; a delay of a
quarter leaves one poll to get the rest and none the head.

**Deadlock.** Every run says `CHECK_DEADLOCK FALSE`: inputs are bounded, and a
system whose input is exhausted rightly stops.

**Fairness.** `FairSpec` is weak fairness of the flush task's steps and of the
drain, of each scanner job, of each alert job, of the worker that runs the
signal jobs (whichever of them it runs), and of each turn of the chat: a task at an await whose
operation has completed is scheduled by asyncio, and arq runs what is queued. In
`Browser` it is weak fairness of a socket that opens and of the reconnect timer, which
the browser fires; in `Backend` of each backtest's job, of its page's polling timer, and of
the end, good or bad, of each of its fetches.
No fairness is assumed of inputs, users, faults, sweeps or stops. Faults are finite,
which stands for "the database comes back"; with them bounded, weak fairness suffices.

## 4. Proofs

All theorems hold for every value of the constants under the named assumptions of
their modules (`AggregatorAssumption`, `IngestAssumption`, `ScanAssumption`,
`AlertAssumption`, `SignalAssumption`, `ChatAssumption`, `SplitterAssumption`,
`TrainingAssumption`, `IndicatorsAssumption`, `PresetsAssumption`, `BacktestAssumption`,
`HistoryAssumption`, `RulesAssumption`, `RuleHistoryAssumption`,
`RowsAssumption`, `BacktestJobAssumption`, `SweepsAssumption`, `LiveViewAssumption`,
`ChatPageAssumption`), which TLC evaluates in every run of the module. Two theorems
of `SignalWorker` need one fact more, which they name.

| Module | Theorems |
|---|---|
| `Ingest_proofs` | `TypeCorrect`; `FanOutIsDurable`, `HigherFanOutIsDurable`, `AnnouncedBarsAreStored`: what is published or dispatched is stored; `LossIsAccounted`; `FeedStaysInOrder`, `HeldStaysInOrder`; `IngestKeepsPromise`: `Ingest` implements `CandleFeed`; `HigherRowsAreSound`, `WindowsAreNotSkipped`, `HigherTimeframesInOrder`: the roll-up |
| `ScanWorker_proofs` | `TypeCorrect`; `HitsAreFannedOutOnce`; `KeysAndTellingFollowRows`; `UnalertedHitsAreAccounted`; `DoneJobsRecorded` |
| `AlertWorker_proofs` | `TypeCorrect`; `NobodyMessagedTwice`; `LimitIsKept`; `LeakedCounterHeals`; `DoneIsSettled` |
| `SignalWorker_proofs` | `TypeCorrect`; `PublishedSignalIsStored`; `SignalIsStoredOnce`, assuming `TtlCovers`; `NoSignalIsLost`, assuming `LagInWindow` |
| `ChatTurn_proofs` | `TypeCorrect`; `BudgetIsKept`; `SavedAnswerIsChecked`; `ChatterNeedsSpentBudget`; `ErrorsAreExplained`; `AnswersAreSaved` |
| `History_proofs` | `AcceptedPurgeHoldsOut`, `TestRowsDisjoint`, `TrainingIsHeldOut`; `GapsAreExact`; `IndicatorsAreSound`, `PastStaysAsItWas`; `PresetsAreSound`; `TradesCloseAtFirstTouch`, `TradesAreHonest`; `LossNeverFires`, `NoRuleFiresOnMissingData`, `AskedDecide`, `RequestedDecide`: rules |
| `Backend_proofs` | `TypeCorrect`; `SubscriptionsAreOwned`, `ChatsAreSharedByRacingOnly`, `RowsAreSound`; `AloneToggleTakesEffect`; `PendingRowHasItsJob`, `SeenOutcomeStands`, `BacktestsAreSound`; `SweepsAreSound` |
| `Browser_proofs` | `TypeCorrect`; `LivePageIsOfKey`, `ChangeIsWithinDay`; `ChatStaysInSession` |

**Ingest.** `TypeOK` is inductive because it also says where the flush task has
no batch and no emissions in hand. `FanOutDurable` needs `BatchDurable`: after the
commit the whole batch (its known symbols) is stored, and rows are never deleted,
so publishing it is safe; `HigherFanOutDurable` needs the same of the emissions
(`EmissionsStored`). The order theorems need `OrderInv`: per symbol the batch
comes before what is pending, both after what was published, and nothing newer
than received exists; a requeue joins two ordered lists the first of which lies
before the second. The refinement adds `DownIsEmpty`: a stopped process holds
nothing, so its restart is the abstract restart.

The roll-up theorems need to know what a flush between `produce()` and `confirm()`
has in hand (`EmitInv`): every emission was made from enough stored bars of a
closed window (`EmitSound`), every candidate window was either emitted or judged
too sparse (`JudgedAll`, so confirming skips nothing else), and a window whose roll-up failed
has its bars (`FailedHasBars`), which no later step takes away, because bars are only
added (`EnoughStaysEnough`). `HigherTimeframesInOrder` adds `HighFeedInv`: the newest
window published lies behind every candle still in memory and, but while it is
being confirmed, at or behind the mark; so a retry publishes a window again but never an older one.
After a restart the mark is gone and memory is empty, and only the candles received
later bound the feed.

**Scanner.** A job looks at the rule its place names (`AtRule`), and behind its
insert a row of that rule and bar is stored (`RowBehindInsert`). The unique
constraint lets one job insert it, so at most one job is between the commit of a row
and the end of its fan-out (`OneHolder`), and before that nobody was told of it
(`NotYetTold`): hence at most one publish and one alert. A job that goes on has
recorded what it has passed (`PassedIsRecorded`), which gives what a done job has
recorded. A rule that was deleted stays so and gets no hit (`DeletedGrow`); a hit's bar is
one its job was let to look at (`HitsInSession`).

**Alerts.** A job behind the check of the marker has an unmarked subscription in
hand (`InHand`), and `Sends` then counts the messages of a subscription against the
ones the job could not mark. `Counted`: the counter is at least what it admitted,
because INCR answers with it; a window that ends resets both. `LeakHealsOnNextCall` is
inductive by itself. `PassedIsSettled` and `RetriedForFault` say what a run without a
failure has settled and why a job is queued again.

**Signals.** `PublishedIsStored` needs that what waits to be published is stored.
`SignalIsStoredOnce` is proved from `TtlCovers == Ttl >= HistoryBars + MaxLag`. In
the code the TTL is 48 hours and the window 500 bars, so the assumption holds for
1m (2880 bars) and for 5m (576 bars, a lag of up to 76) and fails from 15m on (192
bars); section 5 says what then happens. The invariant has two parts.
`InReach`: a job that may still claim looks only at bars young enough that a key
set for them still lives, though a batch moves the clock by several bars (`BatchReads`). `OneClaimant`: a key in a job's hands is claimed and not
yet stored, and no two jobs, and no two candidates of one job, have the same key
in hand. A key that is not held was therefore never claimed, and its claimant is
the only one to store it.

`NoSignalIsLost` needs no TTL but `LagInWindow == MaxLag < HistoryBars`: a job ends while
the window of 500 bars still holds its own candle (arq ends a run after five minutes).
`HandsInv` follows a candidate from the loop into the open transaction: what a job
holds was claimed, and what a job owes on its own bar is still before it or claimed.
`ClaimedIsAccounted` then needs a place for every claimed key in each step, the
row, a job's hands or a job that broke off, and `RowsAnnounced` counts the rows of a
key against its messages, sent and still to be sent, job by job.

**Chat.** `Budget`: the calls made and the units paid for and not yet used are
together at most the units the counter gave out, which are at most the quota; so
no interleaving of two turns between INCR and comparison calls once too often.
`Settled` says what a turn that has a final text knows about it (a fallback, or
grounded in its own pass and free of advice), `NoChatterYet` that a text written
before tool calls is not yet an answer, and `NotBegun` that a turn not yet admitted has
made no round. `ErrorIsExplained` and `SavedWhenDone` are inductive beside them: a turn
ends in error only when a fault hit it or its session holds what cannot be stored, and such a
session saves nothing.

**Training.** Bars are numbered, rows are bars in order with gaps, so row numbers grow no
faster than bars (`RowsInBarOrder`). A purge that is at least the horizon in rows, which
`train_model` demands, therefore keeps the horizon in bars. The newest bar keeps its row
because a window with volume has a mean price of at least one (`VwapDistIsNumber`), so
that nothing is divided by zero and `dropna` finds nothing to drop. The trades of the
gate come from a search that calls itself with later bars: it is well defined from every
bar, and what it finds is apart (`SearchEnds`, by the last bar from which it would not
be, since no induction over data is available).

**Gaps and walk.** A gap is a run of steps without a row that cannot be made longer
(`RunReads`); around every such step there is a run (`RunAround`), and two runs that meet are
one (`RunsApart`). `GapFetches` says what the exchange returns for a gap: as many bars from
its start as the gap has steps, which are those in it. Off the minute every step is missing and
there is one gap, the whole window; on the minute the steps are the bars. Both ways each
closed bar without a row is in the fetch of one gap (`SweepFetches`). `WalkSound` says of a walk that what is open has
reached neither of its levels and that every closed trade ended where it first did; it
is kept whatever signals the presets emit, on bars of any shape.

**Indicators.** A value that is carried along is what a step makes of the one before it
(`FromFirst`, `SmoothReads`), so a range that every step keeps is kept from the first value
on (`UpFromZero`): a weighted mean lies between what it is of (`MeanBetween`), which
bounds the exponential average and Wilder's smoothing (`EmaWithin`, `SmoothBetween`). RSI,
DX and ADX are shares of a whole (`ShareWithin`) of parts that are no less than zero. The
carried sum of the simple average is the sum of its window (`SmaIsMean`), hence the same
over the bars the cache loads as over all of them.

**The past.** `PastStaysAsItWas` compares two histories one of which goes on from the other
(`GoesOn`) and shows it of each thing an indicator is made of: a window, a
smoothing from the same seed (`SmoothIsKept`, `RmaIsKept`), a seed that is a mean of the
first period's values (`PresmaIsKept`), the first bar the directional index is defined
for, which later bars do not make an earlier one (`AdxIsKept`). Within a day the session goes
on too (`SessionGoesOn`), so while the worker's frame holds all of it the first breakout
stays the first (`OrbIsKept`). The
hypothesis `Known` in `Causal` is needed: RSI, ATR and ADX have no values at all
before there are enough bars, and have them for earlier bars after.

**Presets.** A view of a preset is the newest bars of a history (`NewestIsTail`), and its
session the last of these (`SessionIsTail`), in order of time (`TimeGoesOn`). `Sound` is what
every preset must give its signal: the day of the newest bar, and an entry between its
levels. It is shown preset by preset: a stop below the entry and a target a multiple of
the risk above it (`LongRewardIsSound`, `ShortRewardIsSound`), a band below the close
because a deviation is no less than zero (`BandsAround`, `DeviationIsNat`, and
`SqrtIsNat` under it), a stop some true ranges away (`AtrIsNat`), levels of a grid in
their order. A view of at least a day's bars holds the whole session (`SessionIsSeen`), so ORB and the
retest find in it what they would find in all of history (`WholeSessionIsEnough`); the same
of a session of an equity's 375 minutes. This is of windows floored by
`_session_floor_window`; of the unfloored window the API walks with it says nothing.

**Statistics.** `TradesAreHonest` joins four arguments. A trade that reached its target
gains because its entry lies between its levels (`GrossSign`); the capital then falls with
every losing trade, as long as none loses more than all there is
(`LossesAddUp`). `Mirrors` relates a walk to what the runner makes of its flags: at the end of
the bars it has the same trades, holds a position when the walk does, and was charged
for each side once; it is kept by each of the three things a bar may do to a walk
(`MirrorWaits`, `MirrorCloses`, `MirrorOpens`), because flags of one more bar are the
flags so far and one step (`PairsGoOn`, `HoldsGoOn`). `Matches` relates, at each bar, the
position of any flags that never enter and exit at once to the trades paired so far
(`CurveIsOfTrades`), and averages that cross upwards do not cross downwards at the same bar
(`CrossesAreFlags`).

**Rules.** What a tree comes to is a function of the depth the calls may reach, each depth
from the one below; `LevelsExist` shows that such a function exists, and `EvalByDepth`,
`ParsesByDepth` and `RequiredByDepth` say what it is for each of the three walks. A statement
about all rules is then one about a single call (`LossKeepsLevel`, `AskedDecideLevel`), carried
up to `MaxDepth` by `UpFromZero`. The first says that conditions and groups are monotone: no
operator and no group turns a missing value into a hit, so `LossNeverFires` compares
any two snapshots one of which has the values of the other, and more. The second says
that a node looks at nothing but what `required_indicators` names for it (`AskedDecide`); what
parses names only keys there are (`AsksForExisting`), so the worker has computed them
all. Both need that the rule parses: a condition on an indicator that does not exist
would read a value the model does not define.

**Backend.** `JobInv` adds to the types which part of a backtest can be where
(`JobShape`: the row is pending before the request enqueues, what is queued or polled was
sent, a job at work on a final row was run again). `RowsInv` numbers rows by their requests
(`Numbered`), says what a request that has read knows of the rows of its user and
chat (`Claims`, `Checked`), and gives one row per scope (`OnePerScope`); two
subscriptions of one chat by two users then come from requests neither of which saw
the other's row. Deleting a rule cascades to its subscriptions in the same step.
`AloneToggleTakesEffect` needs that a request without a rival still knows what is
there (`AloneSeesNow`): no other step touches the rows of its user meanwhile.
`SweepsInv` says of a running poll that it has the whole window of each equity it is done
with, unless the vendor had nothing (`PollAtWork`), and of every poll that is over that its
window of an equity is stored as long as retention keeps it, unless the poll missed that
equity (`PollsStored`). A part of a quarter is in the window of every poll that can get
it, so it is stored if one of them did not miss it (`SweptIfPolled`).

**Front end.** `ChatInv` names a home for every question (`OneHome`): the session it
was asked in, whose answer, stored copy, log entry and loads all stay there; with
`WriterIsShown`, at most the stream of the session shown may write on. `LiveInv` says of
everything between the relay and the page that it belongs to the key shown: the subscription asked
for and held, the items in the pipe, the fetches still wanted (a late answer of an
earlier key is not), the series, the list and the memory (`LiveShape`); and of the
page that it has one item per bar, a baseline of its day, and no item twice. The
last needs, for the scanner page, that the list is the newest part of the memory
(`Remembered`): an item evicted from the memory has left the list before. What stands on the
page of a turn at work is that turn's, because a turn begins with an empty panel and only it
writes there.

**Only model-checked.** Liveness (`HeldSettles`, `EndsRecorded`, `EndsServed`,
`JobsEnd`, `EndsSaved`, `Reconnects`, `PollEnds`), which is out of the prover's reach. Every
other property of a passing run, each invariant and each action property, is a theorem.

## 5. Findings

Three have a violation run. `ingest_sparse`: a window too sparse when it is read is passed by
with the next one that is not, once there is a mark (`aggregator.py:237`), and no later flush looks at it
again, whatever the sweep fills, against `aggregator.py:135-137`. `browser_switch`: on a switch of symbol the effect of
`useWebSocket` puts a connecting socket into `wsRef.current`, and the effect of
`useCandles` (`useCandles.ts:100`), still with the status of the render, sends on it,
which throws. `backend_close`: the poll at 15:30 runs after 15:30:00.000, when
`is_in_session` (`nse_calendar.py:85`) is already false, and no later poll looks back
over the night, so the last quarter of every session is missing.

The others were met while modelling. Those the modules cover are in them as the code has
them; a property that would contradict one names it as an exception, or says in its comment
that it is not about that case.

*Ingest.* Without a mark only the latest completed window is looked at
(`aggregator.py:171-175`). A rollback that raises or is cancelled drops the batch (`buffer.py:92`). A
failed roll-up is dropped for newer windows when more than the cap wait, or when no
mark exists yet. Frames lost at a reconnect stay a gap until the sweep, whose start
has seconds (`worker.py:59-60`), so that `find_gaps` finds its whole window missing and every stored bar of it is
fetched again (`GapsExact`).

*Scanner and signals.* Hits of a 1m and a 5m bar with one start time collide on a
constraint without a timeframe (`models/scan_hit.py:17`). After a duplicate the rollback
expires the rules of the loop, and the next one that fires raises
(`scanner/worker.py:178`). A rule that is deleted under a job leaves a claimed key without a
row, harmlessly. A late job appends its stored bar again (`scanner/worker.py:137`). A job stopped between the commit of a hit and its alert
leaves a hit nobody is alerted of, because the rerun takes it for a duplicate
(`UnalertedAccounted`). A claim key lives 48 hours while the window is 500 bars
(`strategies/worker.py:45`, 138): from 15m on a signal is stored again.

*Analysis.* The mini-backtest passes neither timeframe nor asset class
(`api/strategies.py:191-199`), so its window is not floored to the session
(`signal_bridge.py:234-235`), and the least window a request may ask for
(`schemas/strategy.py:11`) fits the NSE session only: on 1m crypto ORB and the retest miss
signals there. The chat tool passes both (`signal_tools.py:160-161`); `SessionInView` is about
callers that do. The live worker's 500 bars are less than a 1m UTC day, so ORB's opening range
slides and it names other bars within a session, against `orb.py:9-15`
(`OrbKeepsItsBreakout` excepts sessions beyond the frame). The runner charges exits while flat and
repeated entries. `ema_vwap_trend` may emit a signal with zero risk. A short whose stop is
beyond twice its entry takes the capital below zero, and a second one makes it positive
again (`WinsGain` names them). The mini-backtest's request bounds neither fees nor slippage from below
(`schemas/strategy.py:75-76`), unlike the backtest's; the model's are no less than zero. The drawdown ignores a loss of
the first trade. The calibrator is fitted and scored on the same rows
(`train.py:127-130`), the random baseline trades another number of bars than the model
(`ml/baseline.py:25-30`), and nothing in production calls `train_model`.

*Chat.* When the budget runs out between a round with tool calls and the synthesis, the
text the model wrote before the calls is judged as the answer
(`orchestrator.py:145-147`; `ChatterOnlyWhenSpent`). When it runs out in the second
pass the regenerated answer may be empty. Of 20 to 27 candles `get_indicators` returns NaN for
the ADX (`market_tools.py:111`, 122), which JSONB refuses: the turn ends in the error event
and saves nothing (`ErrorIsExplained`). On the page, a late history is merged into a
log that only grows (`Chat.tsx:104-105`), and a switch of session during a stream leaves
the aborted turn's partial text and chips on the page of the other session and its composer
locked (`useChatStream.ts:119-128`); an error stays there too, until the next question or visit.
`PartIsOfShown` is about a page with a turn at work.

*Front end.* A REST answer that arrives after live bars of the same times overwrites
them; after a reconnect nothing is fetched again. The baseline of the day change is not the
day's open that `useLivePrice.ts:20-22` promises: the 1d row of a day is stored only after it
closes (`aggregator.py:163-164`), so it is the first live candle; and one that arrives after
midnight for a page mounted before puts the baseline back until the next candle. The relay's
forwarder may die of a Redis error while the receive loop keeps the socket open: the page says
Live and shows nothing new (`LiveOnShownKey` names it), and the error that `await forward_task`
raises then skips closing the subscription. The history below the live signals is the
instrument's, of any timeframe (`useSignals.ts:48-53`).

*REST and cron.* Two users share a chat when their requests cross
(`api/alert_subscriptions.py:28`). Overlapping POST and PATCH of a config merge their
columns; a PATCH onto the scope of another row, and a DELETE of a rule with hits, end
in an error 500. A failing enqueue, or a job that times out, leaves a backtest pending
and its page polling for ever (`PollEnds` names them). So does an endpoint that fails for good,
against `useBacktest.ts:51-55`: `fetchFailureCount` begins anew with each fetch and
`queryClient.ts:7` turns retries off, so it never reaches `MAX_POLL_FAILURES`. A job run again
after its commit may replace an outcome a page has shown (`SeenStands` names it). One missed poll
costs the first minute of the oldest quarter it should have got, because the next poll looks back
from some seconds later (`equity_poller.py:31`, 47); with a vendor 15 minutes late
(`candles.py:47-48`) no poll gets that minute. Setting an equity inactive does not stop
its polls, and a vendor error for one symbol aborts the poll of all. `is_in_session`
raises after the last year of its holiday table.

## 6. Plan

Left for later, in order: the reconnect loop of the WebSocket consumer with its backoff; the
queries behind the REST lists.

Not modelled, and not planned: authentication, configuration, logging, analytics,
adapters to external services (chat providers, Telegram, the exchange's REST client)
and rendering. They keep no state that steps of several actors could bring into
disorder, or they are floating-point arithmetic, as are the classifier, the
calibrator, the Sharpe ratio and the drawdown.
