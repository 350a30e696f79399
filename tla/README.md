# Aegis Quant: a TLA+ verification project

Aegis Quant is a Rust and PostgreSQL control plane for trading experiments: it
ingests public market data, evaluates strategies, gates simulated ("paper")
orders by risk rules, and runs an isolated exchange-testnet flow. Several
processes (the API, the private-stream worker, the shadow runner, the research
runner, the ingester, the candle aggregator) share one database and meet only
there. Almost every handler reads rows, awaits other queries or the exchange, and
writes rows back later; what can go wrong lies in those gaps, and that is what
this project models.

## 1. Inventory

| Component | State it keeps | Operations | What is hard |
| --- | --- | --- | --- |
| Testnet lifecycle rules (`exchange/src/lib.rs`, `core/src/lib.rs`) | none | transition validator, repair validator, four tables from the exchange's words to execution states | fifteen states, four vocabularies for the same event |
| Testnet order handlers (`api/src/main.rs`) | `exchange_testnet_orders`, lifecycle events | submit, cancel, GET, seven repair actions | validation against a row read before an await; blind overwrite; lost answers |
| Private-stream worker (`exchange/src/bin/testnet-private-stream.rs`) | stream state, the same rows | connect, keepalive, handle one report, reconnect | a second process writing the same rows; loss while down |
| Reconciliation (`api/src/exchange_reconcile.rs`) | runs, mismatches, the same rows | list, ask, compare, write or flag, complete or fail | a snapshot of many rows used one by one; partial failure |
| Kill switch (`db/src/lib.rs`) | one row of `system_state` | enable, resume, read | read once before several awaits |
| Shadow promotions (`api/src/main.rs`) | promotions, testnet orders | preview, submit, expire | check-then-act on the promotion's status |
| Paper pipeline (`api/src/pipeline.rs`, `api/src/lib.rs`, `api/src/main.rs`) | signals, risk decisions, orders, fills, positions | a pass, a direct order, a risk evaluation | a dozen statements per request, which may break off after any of them |
| Paper accounting (`accounting/src/lib.rs`, `db/src/lib.rs`) | positions, the account, the trade journal | open, add, close, mark | whole rows written back from old copies; closing twice |
| Risk engine (`risk-engine/src/lib.rs`) | none | evaluate one signal against nine rules | boundaries; the snapshot it is given |
| Sessions and roles (`api/src/auth.rs`, `api/src/main.rs`) | users, sessions | bootstrap, login, refresh, logout, expire | two refreshes with one token, a refresh against a logout, lost answers |
| Shadow run evaluation (`api/src/testnet_shadow.rs`) | signals, risk decisions, shadow runs, `strategy_state` | one run | two runs on one candle |
| Shadow runner (`api/src/testnet_shadow_runner.rs`) | runner config and state | tick, run once, start, stop, pause, resume | the state row written from the snapshot of the tick's start |
| Research candidates (`api/src/main.rs`, `db/src/research.rs`) | two candidate tables, observations, events, reviews, promotions | create, observe, review, accept, promote, reject, archive, reopen | status written without comparing it; event in another statement |
| Scheduled research (`api/src/scheduled_research.rs`) | one row per job | list, claim, run, back off, pause, resume, reset | two workers claiming one job; a row written from the claimed copy |
| Candle builder, ingest, backfill (`market-ingest/src`) | open candle, stored candles, ingest state | trade, flush, reconnect, backfill page | late and duplicate trades, partial pages |
| Candle aggregator (`api/src/bin/candle-aggregator.rs`) | higher-timeframe candles | aggregate a window | incomplete windows |
| Replay engine (`replay-engine/src`) | backtest state | step through candles | no look-ahead, conservation of cash |
| Strategy engine (`strategy-engine/src`) | none | signals from candles | windows shorter than needed |
| Readiness (`api/src/readiness.rs`) | none | combine checks | worst status wins |
| Migration ledger (`db/src/migrations.rs`) | ledger of applied files | verify, adopt, apply | changed or missing files, partial apply |
| Operator reports, research (`operator_reports.rs`, `core/src/research.rs`, `db/src/research.rs`) | research artefacts | statistics, scoring, queries | numerical, hardly any interleaving |
| Derivatives and microstructure data (`db`, `market-ingest`) | append-only samples | ingest, summarise | pure I/O and statistics |
| CLI, dashboard, telemetry, events, llm-analyst, execution-engine | none of their own | presentation, counters, constants | - |

How they interact. The API handlers, the stream worker, the shadow runner and the
research runner run concurrently and share rows through PostgreSQL; the database
serialises single statements and the transactions the code opens, and nothing
else. The exchange is reached over REST (a call may take effect and its answer be
lost) and sends execution reports on a stream (in order while it is connected,
lost otherwise). Audit rows, system events and metrics are written by every
handler and read by none of them; they are left out throughout.

What makes each component correct is listed with its module in section 3;
`PROJECT.json` lists the hazards, each at the line where it bites.

## 2. Plan

In order of importance; everything up to 6 is done.

1. `TestnetLifecycle`, `TestnetOrders`, `TestnetOrders_proof`: the order lifecycle
   under all its writers.
2. `ShadowPromotions`, `ShadowPromotions_proof`: preview, submit and expiry of
   promotions, which place testnet orders through the same sequence.
3. `RiskEngine`, `PaperTrading`, `PaperTrail`, `PaperTrading_proof`: the paper side
   from signal to journal, with the audit trail it implements.
4. `ScheduledResearch`, `ScheduledResearch_proof`: claims, back-off, pauses.
   `ShadowObservation`, `ShadowObservation_proof`: ticks against controls over one
   state row, and the runs. `ResearchCandidates`, `ResearchCandidates_proof`: the
   lifecycle of candidates under concurrent decisions.
5. `Candles`, `Candles_proof`: from trades, backfills and aggregations to stored
   candles.
6. `Sessions`, `Sessions_proof`: refresh tokens and revocation.
7. Open: the parts of section 7 that keep state of their own (the migration ledger,
   the replay's backtest state). Every invariant and action property the runs check
   is stated by a theorem; the three liveness properties stay with TLC.

## 3. Modules

### TestnetLifecycle

Pure operators: the states, `validate_testnet_transition`,
`validate_testnet_repair_transition`, the four `map_*` tables, and the two
renderings of the exchange's word in the status column. `Null` stands for
`Option::None`. The validator's rule for `UNKNOWN_EXCHANGE_STATE` (accepted before
the match, after terminal states too) is kept as it is.

### TestnetOrders

State: the kill switch; `row` (status, execution state, acknowledgement payload,
latest status payload; a payload is the exchange's word in it) and `last` (the
latest lifecycle event) for every client order id; the exchange's own state
`exch`; the reports on the `wire`; one record per submit handler, request and run
with its program counter, its snapshot of the row and the exchange's answer; the
counters of each run. `placed`, `marked`, `guessed` and `inflight` are history.

Each action is what happens between two awaits that matter: `SubmitAdmitted`
(checks), `SubmitInsert`, `SubmitRecord`, `SubmitCall`, `SubmitReply`; `RequestRead`,
then `CancelMark`/`SafeCancelMark`, `CancelCall`, `CancelReply`, or `StatusCall`,
`StatusReply`, or `RepairMark`; `StreamTake`, `StreamApply`; `RunList`, `RunCall`,
`RunReply`, `RunComplete`. `SubmitAborted`, `RequestAborted`, `StreamLost` and
`RunAborted` are the process stopping, the client hanging up or a query failing at
any of those points. All the writers end in
`append_lifecycle_event_and_update_order`, the one transaction of the code, which
overwrites the row whatever it now holds.

The exchange is external and modelled from how the code uses it: it acknowledges
an order in any state, moves it on, never leaves a final state, and answers status
calls truthfully. A call may take effect and be answered with an error, or with a
status the client's parser does not know. `into_exchange_ack` takes such an answer to
a submission for `NEW`, `into_exchange_cancel_ack` takes such an answer to a cancel
for `CANCELED`, whatever became of the order; both conversions are in the model, and
`guessed` remembers the orders a cancel was so answered for.

The promotion's submit handler uses the same insert, record, call and reply
sequence: for the order row it is one of `Submits`; what it does to the promotion is
the subject of `ShadowPromotions`.

### TestnetOrders_proof

Proves that `IInv` is inductive, and from it the counters of a run, the kill switch
and the writers with a fresh view. See section 6.

### ShadowPromotions

State: `promo`, the rows of `testnet_shadow_promotions` (each preview request
inserts at most one, so promotions are named after requests), `expired` (those
with `expires_at` in the past), `owner` (the promotion each order row belongs to),
`placed` (what the exchange has), one record per preview and submit handler, and
`closed`, the gates that refuse: the kill switch, a disabled strategy, a stale
price. `settled`, `late`, `killed` and `shut` are history.

`PreviewLooks` reads the run and asks for active promotions; `PreviewChecks` is one
gate at a time, in the code's order; `PreviewInserts` meets the partial unique
index. `SubmitReads` decides by the status and expiry it reads; `SubmitChecks`,
`SubmitInserts`, `SubmitCalls` and `SubmitRecords` follow; `SubmitMarksExpired` is
the blind write of `EXPIRED`. The handlers drop the result of
`update_testnet_shadow_promotion_submission`, so the update may also do nothing.
Risk decisions are never changed once written, so their checks are part of
`Promotable`. The correlation id is the client's, so which order id a submit uses is
its own choice.

### ScheduledResearch

State: `job`, the columns of one row that decide (enabled, status, next_run_at,
backoff_until, failures), and one record per runner and run-once request, with what
the claim returned. Times are the seconds that are left, which keeps the state
finite without a clock; `TimePasses` is one second. Jobs do not interact.
`meddled` and `pausing` are history.

`RunnerLists` is the query of a tick, `RequestReads` the run-once handler, `Claims`
the conditional `UPDATE`, `Skips` its failure, `Finishes` the end of a run, and
`Abandons` a failing query or a stopped process. `job_completion_update` is the
code's function of the claimed row, with the saturating failure count and the
back-off. Operators pause, resume, reset, and through the safe bootstrap switch or
replace the job.

### ShadowPromotions_proof, ScheduledResearch_proof

Prove that the `IInv` of each is inductive.

### RiskEngine

The nine rules as one predicate of reason, context, snapshot and configuration, the
validation of the configuration, and the decision. Percentages are counted in
hundredths, the smallest the validation accepts. It keeps what the code does: the
daily rule reports the weekly reason and the weekly rule the daily one, and a loss
that is not in the snapshot only adds a warning to the rationale (`DailyLossWarns`).

### PaperTrading, PaperTrail

State: the tables (kill switch, signals, decisions, orders, fills, positions, the
account, the pnl columns of the journal), and for each worker its program counter,
its request and the account and position rows it has read or computed. A worker is
one request: a pipeline pass, a direct order, a risk evaluation, a close or a mark.
Every await on the database is a step and a transaction is one step; `Break` ends a
request after any of them. Money is exact: a row keeps its cost, so the weighted
average price is an addition.

What the code does that a reader may not expect, and the model keeps: `POST /orders` does
not look at the kill switch (`docs/RELEASE_NOTES.md:37` says that it "must be honored
before paper or testnet actions"; the hazard list has the line); a direct SELL is booked
as an increase of a long position; a caller's idempotency key may be the one a close will
build for a position (`CallerKeys`), which then cannot be closed; a missing limit price is
replaced by the quantity; each close journals its loss in two rows and a third row with
the equity; the account's unrealized pnl after a fill or a close is that of the position
at hand; the count of open positions asks for `'OPEN'` where rows say `'open'`, so the
limit on open positions never rejects; the idempotency key of a pass holds the id of its
new decision, so it never meets an earlier pass; an account whose equity is not positive
has no loss percentage, so both loss rules only warn (`load_risk_state_snapshot` and the
rules' missing-input branch). The same happens when a query fails: each read of
`load_risk_state_snapshot` drops its error and leaves its input out, so a snapshot may
lack any of them (`Snapshots`), and a pass over the limit is approved. `LossLimitHolds`
says what is left: such an approval is not silent, its persisted rationale shows the
warning (`warned`), and every other approval is on an account below the limit. The queries
of the risk snapshot, which change nothing, are one step.

The end of the module states what the books rest on (`LedgerInv`): while requests do
not overlap, the one in progress has copies that are up to date (`AloneEvidence`), and
the account, the positions, the fills and the journal agree (`BookEvidence`).

`PaperTrail` is the abstract specification: decisions are taken once, orders rest on an
approved one, a fill is booked once and stays where it is, a position is sold at most
once. `TrailKept` is the refinement, with the mapping given in `PaperTrading`'s
`Trail == INSTANCE PaperTrail WITH ...`.

### ShadowObservation

State: the runner's configuration and state row, the last closed candle of each key
(strategy, symbol, timeframe), candidates, signals, the one row per strategy of
`strategy_state` that all its keys share, risk decisions, shadow runs and their links to
candidates; for each job its step, the snapshot of the state row a tick or a control
holds, and the locals of its run and of observe-once. The steps from `EvaluateSignal` to
`LinkRun` are the statements of `run_testnet_shadow_once`: the signal meets the unique
index over key, candle, side and reason (`Identical`; a `kind` is a side and a reason, and
two runs on one candle may differ in it), the id is repaired when another run was first
(`Stabilized`), the decision, the row and the link follow. `SaveTick` and the controls
write the whole state row from the snapshot. Pairs beyond `max_runs_per_tick` are never
reached by a tick, as in the code. The gates before the strategy (kill switch,
configuration, feed, age of the candle) are one nondeterministic `SKIPPED`; the verdicts
of strategy and risk are nondeterministic too. A runner has a configured pair from the
start (`ConfigsAssumption`), as the code's default configuration does. A tick that finds
an invalid configuration writes the status `ERROR` (`INVALID`), from which the schedule
goes on and a resume is allowed; the handlers store only valid configurations, so such a
row is one found in the database at the start. `SaveStatus` is the write of a control and
of such a tick.

### ResearchCandidates

State: the two candidate tables, promotions and strategy versions of the older one, the
latest observation, the runner's configuration, events and reviews, and each task's step
and locals. A request reads the candidate, then its observation and the runner's
configuration, then writes the status and last appends its event. What the code does and
the model keeps: statuses are written without comparing them with what was read; a
promotion may rest on an alignment that is out of date; the event is appended also when
the observation's own status update failed; the older table's promotion accepts a
candidate that is only `DISCOVERED`. The weighing of evidence is a nondeterministic
verdict.

### Sessions, Sessions_proof

State: users, sessions (the number of the current refresh token and live, expired or
revoked), each task's step and locals, the tokens each client was given; `exchanges` and
`lost` are history. `LoadSession` checks, `Rotate` is the conditional `UPDATE`, `Answer`
and `LoseAnswer` are what becomes of the reply. The rotation does not ask again whether
the session has expired, the user's status is asked for only at login, and logout answers
`logged_out` also when the revocation failed; the model does the same.

### Candles

State: the one-minute rows and the derived rows of one symbol, the ingest's builder, the
backfill's locals and run row, one aggregation per aggregator, and a clock. A candle is
the set of trades it was made from; the exchange's kline of a minute is a value of its
own. `HandleTrade` is a trade from the builder to its transaction, which may fail after
the builder took it; `RestartIngest` loses the builder, after which the first trade
overwrites the row of the running minute. The backfill fetches page by page, where an
answer may leave minutes out and hold rows twice (rows with an unexpected close time are
dropped without a word, and only an empty answer is an error); it counts what it fetched
before the duplicates are removed, reads which rows exist and upserts one after the other;
the aggregator reads its range and what is derived, and upserts bucket by bucket. A run
that was `COMPLETED` becomes `FAILED` when its completion event cannot be written, as in
the code.

### PaperTrading_proof

Sums over a finite set first, then types, one open position per symbol, the step
simulation of the refinement, the books and the loss limit.

### ResearchCandidates_proof, ShadowObservation_proof, Candles_proof

The theorems of these modules. The invariants they rest on are stated at the end of each
model, where TLC can evaluate them.

## 4. Runs and bounds

| Run | Instance | Shows |
| --- | --- | --- |
| `submit_race` | one order id, two submits, kill switch on and off, fair stream | `PlacedOnce`, `EventMatchesRow`, `KillSwitchDrains`, `FinalReportsApplied` |
| `requests` | one submit, one request of any of the nine kinds, stream, answers of any kind | `TypeOK`, `TerminalIsTrue`, `FreshWritesKeepTerminal` |
| `reconcile` | two orders, two submits, one run, symmetry | `SummaryAdds` |
| `terminal_doc` | one submit and the stream | counterexample to a line of `docs/ARCHITECTURE.md` |
| `shadow_promotions` | two runs, one of them promotable, two previews, three submits, two order ids, all three gates moving | `TypeOK`, `OneActive`, `SubmittedIsPlaced`, `BarredPlaceNothing` |
| `shadow_duplicate_doc` | one promotion, two submits | counterexample to what a test expects |
| `scheduled_research` | two runners, one request, all operators, with fairness | `TypeOK`, `OneRun`, `PauseHolds`, `EnabledJobsRun` |
| `paper_trading` | two workers, three requests of any kind, one symbol, two prices, failing reads | `TypeOK`, `OneOpenPosition`, `BooksAgree`, `LossLimitHolds`, `TrailKept` |
| `shadow_observation` | two symbols of one strategy, two kinds of signal, three configurations (one invalid), one candidate, two jobs, one closing candle | `TypeOK`, `SignalsUnique`, `RunsTraceable`, `StaleTicksHarmless`, `EvidenceOnce` |
| `research_candidates` | one candidate, two tasks, six requests | `TypeOK`, `AcceptedWasObserved`, `LegacyMirrors`, `EventExplainsStatus`, `EdgesKept` |
| `sessions` | two sessions, three tasks, eight requests, five tokens | `TypeOK`, `ExchangedOnce`, `TokenReachable`, `RevocationHolds` |
| `candles` | three minutes, two of which make a bucket, pages of two, three trades, one fault, one request: a backfill or an operator's aggregation | `TypeOK`, `FinishedKept`, `DerivedFromClosed`, `BackfillCovers`, `DerivedCatchesUp` |

Orders are independent of each other except inside a run, so one order suffices
everywhere but in `reconcile`, which has two, and no stream (`MaxWire` is 0) and no
request: with them it has more than 20 million states. That a run's snapshot, which the
stream or a cancel may overtake, never makes a row untrue is the theorem
`RowsAreTruthful`; the run `requests` checks `TerminalIsTrue` against every other writer.
Two submits are the race on one id. One request against the submit handler and the
stream gives three concurrent writers of one row; `MaxWire` 1 lets one report wait
while another is handled and the exchange moves on. Two previews and two submits are
the races on one promotion, a third submit comes after them; the two order ids let the
submits collide or not. Two runners and a request are two schedulers and one who
bypasses the schedule; the durations and `MaxFailures` are small but keep the first
failure, the first back-off and the automatic pause apart, and `Saturation` is just
above `MaxFailures`, so that the count saturates.

Two paper workers with three requests are a fill, a close and a mark in any overlap and
any order, with a loss large enough to reach the daily limit. Two jobs are two runs on one
candle, a tick against a control, and a run against an observe-once. The two keys belong
to one strategy, so their runs meet in its row of `strategy_state` as well as in the
runner's; `max_runs_per_tick` is 1, so that a tick leaves a pair out. `FoundIn` lets the
runner start out `RUNNING` only: the other statuses are reached by controls and by ticks
on the invalid configuration. Six requests take a candidate from creation through an
observation to an accept, with three more of any kind against it. Three tasks are two
refreshes and a logout of one session. In `candles` a backfill of three minutes takes two
pages, one of which holds the running minute, while the third minute lies outside the
bucket. `MaxRequests` is 1 and shared: a behaviour has a backfill or an operator's
aggregation besides the ingest and the worker, not both (two requests make more than five
million states before the liveness check). There is one bucket, so `InReach` always holds
and where the overlap ends is not exercised; a second bucket needs a fourth minute, which
does not finish in five minutes.

`CHECK_DEADLOCK FALSE` wherever requests, orders or time come to an end, and so may the
system. A scheduled job never ends, and deadlock is checked there; in `paper_trading` the
kill switch can always be switched, so the check is on there too.

Where the code has a race and a property would only repeat that it is there, the property
names the race by a history variable and says that nothing else breaks it: `overlap`
(requests or ticks that ran over each other) in `BooksAgree`, `LossLimitHolds` and
`StaleTicksHarmless`, the times `from` and `to` of a claim in `EvidenceOnce`, `meddled`
and `pausing` in `OneRun` and `PauseHolds`, `unlogged` and stale views in
`EventExplainsStatus` and `EdgesKept`, `lost` in `TokenReachable`, `guessed` and `marked`
in `TerminalIsTrue`, `warned` in `LossLimitHolds`, `closedAs` in `DerivedFromClosed`.
These properties do not show the code free of the race. `PROJECT.json` lists each as a
hazard, and where no run catches it, says so in its note.

Fairness (`LiveSpec` of `TestnetOrders`): weak fairness of `StreamTake` and `StreamApply`
only. The worker's loop polls its socket and handles one message before it takes the next,
so a connected worker that has a report does take it. Nothing is assumed of the exchange,
of operators or of the connection: `FinalReportsApplied` lets the stream go down instead.

Fairness (`LiveSpec` of `ScheduledResearch`): time passes, a runner's loop lists
what is due and works through what it listed, and an execution ends (weak fairness;
the runner is an endless loop over awaits that return). `Claims` is strongly fair:
between list and claim a runner may be stopped, or find the job taken, but not for
ever. Nothing is assumed of requests and operators.

Fairness (`FairSpec` of `Candles`): weak fairness of the aggregator's loop, which ticks
for as long as its process runs, and of an operator's aggregation once it has begun,
which is a handler that runs to its end. Failed ticks are bounded by `MaxFaults`, so a
fair worker succeeds at last. Nothing is assumed of the ingest, of backfills or of
time: `DerivedCatchesUp` speaks of buckets whose minutes are closed and stay in reach of
the overlap.

## 5. Findings

- A submit acknowledgement may overwrite `FILLED` with `EXCHANGE_ACKED`: it is
  validated against the row as inserted, not as it is (`terminal_doc`). `TerminalIsTrue`
  bounds the damage: a stale write may reopen an order that is over, but no
  interleaving makes the row call an order over that is not. Only an operator's mark
  does, and a cancel answered with a status the parser does not know.
- Two overlapping submits of one promotion place two orders: the status is read
  once and written after the exchange has answered, and each request has its own
  client order id (`shadow_duplicate_doc`).

## 6. What is proved

For every finite set of orders and any sets of submits, requests and runs
(assumptions `InputsAssumption`, `BoundsAssumption`, `OrdersAssumption`):
`TypeOK`, `PlacedOnce`, `EventMatchesRow` and `TerminalIsTrue` are invariants of
`Spec`.

None of them is inductive alone. `TerminalIsTrue` needs to know that whatever the
exchange said of an order that is over is still true when it is finally written,
in the wire, in the worker's hands, in a handler's reply, and in the statuses of a
run's snapshot, which the run may write back (`WireEvidence`, `StreamEvidence`,
`SubEvidence`, `ReqEvidence`, `RunEvidence`). That rests on the exchange never
leaving a final state, and so on an order never being placed a second time. A cancel
whose answer was not understood is an exception from the moment of the answer on, and
what it taints is in `guessed` before anything is written.
`PlacedOnce` needs `OneCaller`: only the request whose insert succeeded calls the
exchange, and nothing has been placed until it does. `IInv` is their conjunction.
The proof has one lemma per action; `Writes`, `WroteKeeps`, `TransitionKeeps` and
`FlaggingKeeps` say once what the common write does to the rows, and `Frames` that
a process that does not step keeps what it knows.

Three more results rest on `IInv`. `SummaryAdds`: the rows a run has listed are those it
still has and those it has counted, each once, which takes the facts about cardinalities
of finite sets. `KillSwitchDrains` needs `DrainEvidence`: what is between admission and
call while the switch is on was admitted before. `FreshWritesKeepTerminal` goes through
the writers one by one: each validates the transition from the state it read, and where
that is still the state of the row the validator's table leaves a terminal order alone.

For any sets of shadow runs, previews, submits and order ids
(`PromotableAssumption`, `MovingAssumption`, `NullAssumption`): `TypeOK`, `OneActive`,
`SubmittedIsPlaced`, `PlacedIsTraceable`, `BarredPlaceNothing` and `GatesHold`.
`IInv` adds what each handler knows at each point: a submit past its insert owns its
order row and one that was answered `OK` has a placed order (`SubmitEvidence`); a
row, and a preview past its first step, belongs to a promotable run (`RowEvidence`);
a submit that came late or under the kill switch is not past its checks
(`BarredEvidence`); a preview whose gate is closed has not passed it
(`GateEvidence`).

For any sets of runners and requests, any interval and failure policy
(`DurationsAssumption`, `CountsAssumption`, `WorkersAssumption`): `TypeOK`, `OneRun` and
`EnabledIsTimed` as invariants and `PauseHolds` as an action property. `OneRun` needs
`RunEvidence` (the row says `RUNNING` for whoever runs, until an operator overwrites
it), `PauseHolds` needs `PauseEvidence` (after a pause that interrupted nothing, the
row and every claimed copy are disabled, so that no completion enables the job).
The lemma `CompletionTimed` says what a completed run leaves.

For any workers, signals, symbols, decisions and prices and any finite sets of orders and
positions (`PaperAssumption`): `TypeOK`, `OneOpenPosition`, `BooksAgree`,
`LossLimitHolds`, and
`TrailKept`, the refinement of `PaperTrail`. `Inv` says that what a request has computed
fits the step it is at; the refinement needs `BookInv`: a request between its order and
its fill is the only one with that order, so no fill is booked twice.

`BooksAgree` and `LossLimitHolds` need `LedgerInv`. The account is written from a copy,
so it agrees with the positions only because the copy of a request that is alone is
current at each of its steps; a row to be written back has the realized pnl of its
position and holds the fills booked so far, between the row and its fill one more; and a
close adds the same pnl to the position, the account and a journal group. The closed
losses are at most the losses of the journal, not equal to them: a close journals its
loss twice, and a journal row with a negative equity counts as a loss too. An approval
without a warning has read the journal's loss and compared it with the limit, hence the
positions' loss is below it.
Both theorems speak of sums. The library defines them by a fold over a chosen order of
the elements; the lemmas `SumUnfolds`, `SumSplits` and `SumChanges` show that a sum over
a finite set splits at any element and changes by the difference when one value does.
They are proved without an induction rule, from the smallest subset for which they would
fail.

For any sessions, tasks, tokens and requests: `TypeOK`, `ExchangedOnce`, `TokenReachable`
and `RevocationHolds` of `Sessions`. `IInv` adds that tokens are numbered as they are
issued and belong to one session (`TokenEvidence`: the token a rotation exchanges has
not been exchanged, because it is the session's), that an absent session has no token
and no client (`AbsentEvidence`), and that an answer under way carries the session's
token or one exchanged since (`JobEvidence`).

For any non-empty set of candidates and any tasks (`KeyOfAssumption`): `TypeOK`,
`AcceptedWasObserved`, `LegacyMirrors`, `EventExplainsStatus` and `EdgesKept` of
`ResearchCandidates`. `IInv` adds `RowEvidence` (a newer row never stands without the
older one) and `JobEvidence`: what each task knows from the rows it has read, in
particular that an accept or a promotion under way has seen an observation, which no
request takes back.

For any strategies, keys, kinds of signal, candidates and jobs (`KeysAssumption`,
`StrategiesAssumption`, `StatusAssumption`, `ConfigsAssumption`, `BoundsAssumption`):
`TypeOK`, `StaleTicksHarmless`, `SignalsUnique`,
`RunsTraceable` and `EvidenceOnce` of `ShadowObservation`. `TaskEvidence` says what kind
of job stands at which step. `SnapshotEvidence` bounds what a tick is about to write by
the runs recorded. `RunEvidence` says that the id of a run under way is its own and that
a run past its risk check has the decision of the persisted signal, repaired or not.
`CandleEvidence`, `ClaimEvidence` and `ObserverEvidence` are behind `EvidenceOnce`: a
linked claim left a row in the window of every later observation, so that the later one
has seen its candle; the latest candle of a bounded set exists by the well-ordering of
the naturals.

For any horizon, windows, page size and bucket size (`HorizonAssumption`): `TypeOK`,
`BackfillCovers`, `FinishedKept` and `DerivedFromClosed` of `Candles`. `BackfillEvidence`
says what has been asked for behind the cursor, that what was given for it is stored, and
that the counters equal its size; what was given twice is only among the fetched rows, and
what the provider left out stays out. `IngestEvidence` ties the builder to the minutes it
closed, and with `AggregateEvidence` a derived candle, stored or still to be written, to
contents its minutes were closed with; `closedAs` remembers them, since a backfill may
replace a closed row after the aggregator has read it.

`PlacedIsTraceable`, `GatesHold` and `EnabledIsTimed` are proved and not
repeated as runs of their own.

Only model-checked: the liveness properties `FinalReportsApplied`, `EnabledJobsRun` and
`DerivedCatchesUp`, since the prover has neither fairness nor `ENABLED`.

## 7. Not modelled

The repository has some 167,000 lines. Its stateful core, the handlers and workers that
write rows other requests read, is a small part of them and is what the modules above
cover. The greater part has no state a model checker could explore: research statistics
and scoring (`core/src/research.rs`, `db/src/research.rs` and most of `api/src/main.rs`
after its handlers), the sequential replay of candle histories, numerical indicators, the
command line client, report texts, request and response types, and tests inside the
source files. They are left out, and where a modelled handler depends on what they
compute, its result is a nondeterministic choice.

Within the modelled parts these are left out: audit rows, system events and metrics
(written everywhere, read nowhere); roles, password hashing and service tokens (decided
from constants within one request); feed status rows, aggregation-run rows and the order
of fallback providers of the candle side; equity snapshots and the daily report; the
listen key and back-off timing of the stream. Two processes that start together and
apply the same migration files are stopped by the ledger's primary key and the
transaction around each file; a model would restate that.

`PROJECT.json` lists every part with its reason.
