------------------------------- MODULE Candles -------------------------------
(***************************************************************************)
(* The candle store of one symbol and its three writers, which share no    *)
(* lock: the trade ingest (crates/market-ingest), the historical backfill  *)
(* and the aggregation of one-minute candles into a larger interval        *)
(* (crates/api/src/bin/candle-aggregator.rs and POST                       *)
(* /market/candles/aggregate).                                             *)
(*                                                                         *)
(* A candle's prices and volumes are abstracted to the set of trades it    *)
(* was made from; the exchange's own kline of a minute is the set {Kline}. *)
(* Instants are counted in half minutes: minute m opens at 2*m, a candle   *)
(* the ingest builds closes at 2*(m+1), and a kline or a derived candle,   *)
(* whose close time is one millisecond earlier, at the odd instant before. *)
(***************************************************************************)
EXTENDS Integers, FiniteSets, FiniteSetsExt

CONSTANTS Horizon,     \* minutes 0 .. Horizon-1
          BucketSize,  \* one-minute candles of a derived candle
          Overlap,     \* minutes a tick of the aggregator goes back
          Lookback,    \* minutes the first tick goes back
          PageLimit,   \* candles of one backfill page
          Windows,     \* windows <<start, end>> a backfill may be asked for
          MaxTrades,   \* bound: trades delivered
          MaxFaults,   \* bound: crashes and failed writes
          MaxRequests  \* bound: backfills and operator aggregations

ASSUME HorizonAssumption ==
    /\ BucketSize \in Nat \ {0} /\ PageLimit \in Nat \ {0}
    /\ Horizon \in Nat \ {0}
    /\ Windows \subseteq (0 .. Horizon - 1) \X (1 .. Horizon)
    /\ \A w \in Windows : w[1] < w[2]
    /\ {Overlap, Lookback, MaxTrades, MaxFaults, MaxRequests} \subseteq Nat

Minutes == 0 .. Horizon - 1
Buckets == 0 .. (Horizon \div BucketSize) - 1
NoMinute == -1
Kline == 0
Contents == SUBSET (0 .. MaxTrades)

VARIABLES
    clock,     \* the current minute
    row,       \* one-minute rows of the candles table
    derived,   \* rows of the derived interval: the contents of its minutes
    builder,   \* CandleBuilder.active
    job,       \* the backfill in progress
    run,       \* its row of candle_backfill_runs
    agg,       \* the aggregation in progress, per aggregator
    used,      \* trades delivered, faults and requests so far (bounds)
    accepted,  \* history: trades the builder took since the ingest started
    finished,  \* history: minutes the ingest closed since it started
    closedAs,  \* history: contents each minute was ever closed with
    asked,     \* history: minutes of the pages the provider answered for the run
    given,     \* history: minutes whose kline the run took from the answers
    repeats,   \* history: klines it was given a second time
    hydrated   \* history: minutes whose kline the run saw stored

ingestVars == <<builder, accepted, finished>>
answers == <<asked, given, repeats>>
backfillVars == <<job, run, hydrated, answers>>
vars == <<clock, row, derived, agg, used, closedAs, ingestVars, backfillVars>>

Aggregators == {"worker", "operator"}

Row == [state : {"none", "open", "closed"}, trades : Contents, close : 0 .. 2 * Horizon]
NoRow == [state |-> "none", trades |-> {}, close |-> 0]
\* Mutant: the close time is one interval late.
LiveLate(m, trades, state) == [state |-> state, trades |-> trades, close |-> 2 * (m + 2)]
Live(m, trades, state) == [state |-> state, trades |-> trades, close |-> 2 * (m + 1)]

KlineOf(m) == [state |-> "closed", trades |-> {Kline}, close |-> 2 * (m + 1) - 1]

Members(b) == (b * BucketSize) .. ((b + 1) * BucketSize - 1)
CloseOf(b) == 2 * (b + 1) * BucketSize - 1
Derived(b) == [Members(b) -> Contents]
\* A derived row that does not exist.
NotDerived == [m \in {} |-> {}]

IdleJob == [pc |-> "idle", cursor |-> 0, end |-> 0, batch |-> {}, rows |-> 0,
            todo |-> {}, inserted |-> 0, updated |-> 0, skipped |-> 0]
NoRun == [status |-> "NONE", start |-> 0, end |-> 0,
          fetched |-> 0, inserted |-> 0, updated |-> 0, skipped |-> 0]
IdleAgg == [pc |-> "idle", start |-> 0, end |-> 0, todo |-> {}]
EmptyBuilder == [minute |-> NoMinute, trades |-> {}]

Init ==
    /\ clock = 0
    /\ row = [m \in Minutes |-> NoRow]
    /\ derived = [b \in Buckets |-> NotDerived]
    /\ builder = EmptyBuilder
    /\ job = IdleJob
    /\ run = NoRun
    /\ agg = [a \in Aggregators |-> IdleAgg]
    /\ used = [trades |-> 0, faults |-> 0, requests |-> 0]
    /\ accepted = [m \in Minutes |-> {}]
    /\ finished = {}
    /\ closedAs = [m \in Minutes |-> {}]
    /\ asked = {} /\ given = {} /\ repeats = 0
    /\ hydrated = {}

\* A write of one-minute rows, with the contents it closes them with.
WriteRows(rows) ==
    /\ row' = rows
    /\ closedAs' = [m \in Minutes |->
           IF rows[m].state = "closed" THEN closedAs[m] \union {rows[m].trades}
                                       ELSE closedAs[m]]

UseFault == /\ used.faults < MaxFaults
            /\ used' = [used EXCEPT !.faults = @ + 1]

Tick == /\ clock < Horizon
        /\ clock' = clock + 1
        /\ UNCHANGED <<row, derived, agg, used, closedAs, ingestVars, backfillVars>>

-----------------------------------------------------------------------------
(* The ingest: run_loop, run_single_connection and handle_trade. The rows   *)
(* of market_feed_status it writes are inputs of the trading modules.       *)

Applied(b, m, trade) ==
    IF b.minute = m THEN [b EXCEPT !.trades = @ \union {trade}]
                    ELSE [minute |-> m, trades |-> {trade}]

\* Mutant: a late trade opens its minute again.
InOrderAlways(b, m) == TRUE
InOrder(b, m) == b.minute = NoMinute \/ m >= b.minute

Closes(b, m) == b.minute # NoMinute /\ m > b.minute

\* process_market_trade: the active row, then the row it closes, in one
\* transaction with the tick and the status of the feed.
StoreTrade(b, m) ==
    LET active == [row EXCEPT ![m] = Live(m, builder'.trades, "open")]
    IN  IF Closes(b, m)
        THEN /\ WriteRows([active EXCEPT ![b.minute] = Live(b.minute, b.trades, "closed")])
             /\ finished' = finished \union {b.minute}
        ELSE WriteRows(active) /\ UNCHANGED finished

\* The builder holds the trade whether or not the write succeeds. A failed
\* write, like a trade of a minute before the active one, ends the connection;
\* run_loop makes it again with the same builders, so a lost connection only
\* loses trades, which the choice of the trades delivered covers.
HandleTrade(m) ==
    /\ m <= clock /\ used.trades < MaxTrades
    /\ InOrder(builder, m)
    /\ builder' = Applied(builder, m, used.trades + 1)
    /\ accepted' = [accepted EXCEPT ![m] = @ \union {used.trades + 1}]
    /\ \/ /\ StoreTrade(builder, m)
          /\ used' = [used EXCEPT !.trades = @ + 1]
       \/ /\ used.faults < MaxFaults
          /\ used' = [used EXCEPT !.trades = @ + 1, !.faults = @ + 1]
          /\ UNCHANGED <<row, closedAs, finished>>
    /\ UNCHANGED <<clock, derived, agg, backfillVars>>

\* The process ends (a failed mark_connected or mark_disconnected ends it too)
\* and is started again, with a new builder.
RestartIngest ==
    /\ UseFault
    /\ builder' = EmptyBuilder
    /\ accepted' = [m \in Minutes |-> {}]
    /\ finished' = {}
    /\ UNCHANGED <<clock, row, derived, agg, closedAs, backfillVars>>

-----------------------------------------------------------------------------
(* HistoricalCandleBackfillService::run over [start, end).                 *)

\* plan_backfill_pages: where the page that begins at a cursor ends.
PageEnd(cursor, end) == Min({cursor + PageLimit, end})

\* Mutant: the next page begins one candle after the end of the last.
NextCursorSkipping(cursor, end) == PageEnd(cursor, end) + 1

NextCursor(cursor, end) == PageEnd(cursor, end)

\* What is left of the provider's answer for [from, to): it may lack rows, and
\* binance_kline_row_to_closed_candle drops, without an error, a kline that is
\* not over or whose close time is not the expected one.
ClosedKlines(from, to) == SUBSET {m \in from .. to - 1 : m < clock}

InsertBackfillRun ==
    /\ job.pc = "idle" /\ used.requests < MaxRequests
    /\ \E w \in Windows :
           /\ job' = [IdleJob EXCEPT !.pc = "fetch", !.cursor = w[1], !.end = w[2]]
           /\ run' = [NoRun EXCEPT !.status = "RUNNING", !.start = w[1], !.end = w[2]]
    /\ used' = [used EXCEPT !.requests = @ + 1]
    /\ asked' = {} /\ given' = {} /\ repeats' = 0
    /\ hydrated' = {}
    /\ UNCHANGED <<clock, row, derived, agg, closedAs, ingestVars>>

\* An answer with at least one row, the kline of the current minute perhaps.  A
\* kline may be in it twice (bounded by one a page): the rows are counted before
\* dedupe_candles_for_upsert makes them a set.
FetchPage ==
    /\ job.pc = "fetch" /\ job.cursor < job.end /\ job.cursor <= clock
    /\ \E batch \in ClosedKlines(job.cursor, PageEnd(job.cursor, job.end)),
          repeated \in {0, 1} :
           /\ repeated <= Cardinality(batch)
           /\ job' = [job EXCEPT !.pc = "read", !.batch = batch,
                                 !.rows = Cardinality(batch) + repeated]
           /\ given' = given \union batch
           /\ repeats' = repeats + repeated
    /\ asked' = asked \union (job.cursor .. PageEnd(job.cursor, job.end) - 1)
    /\ UNCHANGED <<clock, row, derived, agg, used, closedAs, run, hydrated, ingestVars>>

\* upsert_candles_batch decides from one read which rows it will write.
ReadExistingRows ==
    /\ job.pc = "read"
    /\ LET absent  == {m \in job.batch : row[m].state = "none"}
           matches == {m \in job.batch : row[m] = KlineOf(m)}
       IN  /\ job' = [job EXCEPT !.pc = "write", !.todo = job.batch \ matches,
                          !.inserted = Cardinality(absent),
                          !.skipped = Cardinality(matches),
                          !.updated = Cardinality(job.batch \ (absent \union matches))]
           /\ hydrated' = hydrated \union matches
    /\ UNCHANGED <<clock, row, derived, agg, used, closedAs, run, answers, ingestVars>>

UpsertKline ==
    /\ job.pc = "write" /\ job.todo # {}
    /\ LET m == Min(job.todo)
       IN  /\ WriteRows([row EXCEPT ![m] = KlineOf(m)])
           /\ job' = [job EXCEPT !.todo = @ \ {m}]
           /\ hydrated' = hydrated \union {m}
    /\ UNCHANGED <<clock, derived, agg, used, run, answers, ingestVars>>

UpdateProgress ==
    /\ job.pc = "write" /\ job.todo = {}
    /\ run' = [run EXCEPT !.fetched = @ + job.rows,
                          !.inserted = @ + job.inserted,
                          !.updated = @ + job.updated,
                          !.skipped = @ + job.skipped]
    /\ job' = [IdleJob EXCEPT !.pc = "fetch", !.end = job.end,
                              !.cursor = NextCursor(job.cursor, job.end)]
    /\ UNCHANGED <<clock, row, derived, agg, used, closedAs, hydrated, answers, ingestVars>>

CompleteBackfill ==
    /\ job.pc = "fetch" /\ job.cursor >= job.end
    /\ run' = [run EXCEPT !.status = "COMPLETED"]
    /\ job' = [IdleJob EXCEPT !.pc = "announce"]
    /\ UNCHANGED <<clock, row, derived, agg, used, closedAs, hydrated, answers, ingestVars>>

AnnounceBackfill ==
    /\ job.pc = "announce"
    /\ job' = IdleJob
    /\ UNCHANGED <<clock, row, derived, agg, used, closedAs, run, hydrated, answers, ingestVars>>

\* An error of any statement: the rows already written stay, the run is FAILED,
\* or keeps its status when the process has ended or that write fails too.
FailBackfill ==
    /\ job.pc # "idle"
    /\ UseFault
    /\ job' = IdleJob
    /\ run' \in {[run EXCEPT !.status = "FAILED"], run}
    /\ UNCHANGED <<clock, row, derived, agg, closedAs, hydrated, answers, ingestVars>>

\* The provider answers without a row.
FailEmptyPage ==
    /\ job.pc = "fetch" /\ job.cursor < job.end
    /\ job' = IdleJob
    /\ run' = [run EXCEPT !.status = "FAILED"]
    /\ UNCHANGED <<clock, row, derived, agg, used, closedAs, hydrated, answers, ingestVars>>

-----------------------------------------------------------------------------
(* Aggregation: the worker's aggregate_once and the operator's request.    *)

ClosedMinutes(rows) == {m \in Minutes : rows[m].state = "closed"}
DerivedBuckets == {b \in Buckets : derived[b] # NotDerived}

\* candle_aggregation_start_time at an instant inside the current minute.
StartTime == IF DerivedBuckets = {} THEN 2 * (clock - Lookback) + 1
                                    ELSE CloseOf(Max(DerivedBuckets)) - 2 * Overlap

\* get_closed_1m_candles_range.
InRange(m, start, end) ==
    row[m].state = "closed" /\ 2 * m >= start /\ row[m].close <= end

\* aggregate_closed_1m_candles derives a bucket when all its minutes are there.
CompleteIn(b, minutes) == Members(b) \subseteq minutes

\* Mutant: the bucket repeats its first candle.
AggregatedFirst(minutes) ==
    {[bucket |-> b, value |-> [m \in Members(b) |-> row[Min(Members(b))].trades]] :
         b \in {c \in Buckets : CompleteIn(c, minutes)}}
Aggregated(minutes) ==
    {[bucket |-> b, value |-> [m \in Members(b) |-> row[m].trades]] :
         b \in {c \in Buckets : CompleteIn(c, minutes)}}

ReadLatestSource ==
    /\ agg["worker"].pc = "idle" /\ ClosedMinutes(row) # {}
    /\ agg' = [agg EXCEPT !["worker"] =
                  [IdleAgg EXCEPT !.pc = "target", !.end = row[Max(ClosedMinutes(row))].close]]
    /\ UNCHANGED <<clock, row, derived, used, closedAs, ingestVars, backfillVars>>

\* An empty window ends the tick.
ReadLatestTarget ==
    /\ agg["worker"].pc = "target"
    /\ agg' = [agg EXCEPT !["worker"] =
                  IF agg["worker"].end > StartTime
                  THEN [agg["worker"] EXCEPT !.pc = "range", !.start = StartTime]
                  ELSE IdleAgg]
    /\ UNCHANGED <<clock, row, derived, used, closedAs, ingestVars, backfillVars>>

RequestAggregation ==
    /\ agg["operator"].pc = "idle" /\ used.requests < MaxRequests
    /\ agg' = [agg EXCEPT !["operator"] =
                  [IdleAgg EXCEPT !.pc = "range", !.start = 0, !.end = 2 * Horizon]]
    /\ used' = [used EXCEPT !.requests = @ + 1]
    /\ UNCHANGED <<clock, row, derived, closedAs, ingestVars, backfillVars>>

ReadRange(a) ==
    /\ agg[a].pc = "range"
    /\ LET minutes == {m \in Minutes : InRange(m, agg[a].start, agg[a].end)}
       IN  agg' = [agg EXCEPT ![a] = [IdleAgg EXCEPT !.pc = "existing",
                                                     !.todo = Aggregated(minutes)]]
    /\ UNCHANGED <<clock, row, derived, used, closedAs, ingestVars, backfillVars>>

\* Mutant: a row that exists is never corrected.
OutdatedAbsent(c) == derived[c.bucket] = NotDerived
\* candle_matches_record: what the batch will write again.
Outdated(c) == derived[c.bucket] # c.value

ReadExistingDerived(a) ==
    /\ agg[a].pc = "existing"
    /\ agg' = [agg EXCEPT ![a] = [IdleAgg EXCEPT !.pc = "write",
                                     !.todo = {c \in agg[a].todo : Outdated(c)}]]
    /\ UNCHANGED <<clock, row, derived, used, closedAs, ingestVars, backfillVars>>

UpsertDerived(a) ==
    /\ agg[a].pc = "write" /\ agg[a].todo # {}
    /\ LET c == CHOOSE d \in agg[a].todo : \A e \in agg[a].todo : d.bucket <= e.bucket
       IN  /\ derived' = [derived EXCEPT ![c.bucket] = c.value]
           /\ agg' = [agg EXCEPT ![a] = [IdleAgg EXCEPT !.pc = "write",
                                            !.todo = agg[a].todo \ {c}]]
    /\ UNCHANGED <<clock, row, used, closedAs, ingestVars, backfillVars>>

FinishAggregation(a) ==
    /\ agg[a].pc = "write" /\ agg[a].todo = {}
    /\ agg' = [agg EXCEPT ![a] = IdleAgg]
    /\ UNCHANGED <<clock, row, derived, used, closedAs, ingestVars, backfillVars>>

\* An error of a statement, or the end of the process, ends the tick.
FailAggregation(a) ==
    /\ agg[a].pc # "idle"
    /\ UseFault
    /\ agg' = [agg EXCEPT ![a] = IdleAgg]
    /\ UNCHANGED <<clock, row, derived, closedAs, ingestVars, backfillVars>>

-----------------------------------------------------------------------------
Ingest ==
    RestartIngest \/ \E m \in Minutes : HandleTrade(m)

Backfill ==
    \/ InsertBackfillRun \/ FetchPage \/ ReadExistingRows \/ UpsertKline
    \/ UpdateProgress \/ CompleteBackfill \/ AnnounceBackfill
    \/ FailBackfill \/ FailEmptyPage

Aggregate(a) == ReadRange(a) \/ ReadExistingDerived(a) \/ UpsertDerived(a)
                \/ FinishAggregation(a)
Worker == ReadLatestSource \/ ReadLatestTarget \/ Aggregate("worker")
Operator == RequestAggregation \/ Aggregate("operator")

Next ==
    \/ Tick \/ Ingest \/ Backfill \/ Worker \/ Operator
    \/ \E a \in Aggregators : FailAggregation(a)

Spec == Init /\ [][Next]_vars

\* The worker's loop runs for as long as its process does.
FairSpec == Spec /\ WF_vars(Worker) /\ WF_vars(Aggregate("operator"))

-----------------------------------------------------------------------------
(* Properties.                                                             *)

\* The variables have their types.
TypeOK ==
    /\ clock \in 0 .. Horizon
    /\ row \in [Minutes -> Row]
    /\ \A b \in Buckets : derived[b] = NotDerived \/ derived[b] \in Derived(b)
    /\ builder \in [minute : Minutes \union {NoMinute}, trades : Contents]
    /\ job.pc \in {"idle", "fetch", "read", "write", "announce"}
    /\ job.batch \subseteq Minutes /\ job.todo \subseteq job.batch
    /\ run.status \in {"NONE", "RUNNING", "COMPLETED", "FAILED"}
    /\ \A a \in Aggregators : agg[a].pc \in {"idle", "target", "range", "existing", "write"}
    /\ accepted \in [Minutes -> Contents]
    /\ finished \subseteq Minutes
    /\ closedAs \in [Minutes -> SUBSET Contents]
    /\ asked \subseteq Minutes /\ given \subseteq Minutes /\ hydrated \subseteq Minutes
    /\ repeats \in Nat

\* A minute the ingest has closed stays closed until the ingest restarts, and
\* holds every trade its builder took for it, the ones whose own write failed
\* included, or the exchange's kline (CandleBuilder::apply_trade keeps the
\* active candle across failed writes and rejects the trades of earlier
\* minutes).
FinishedKept ==
    \A m \in finished : /\ row[m].state = "closed"
                        /\ row[m].trades \in {accepted[m], {Kline}}

\* Whatever its writer, a candle is marked closed only when its minute is over:
\* strategies evaluate closed candles and would otherwise see one that is still
\* changing.  A derived candle is made of closed candles only: for each of its
\* minutes it holds contents with which that minute was closed at some time
\* (aggregate_closed_1m_candles skips a bucket with a gap or an open candle).
DerivedFromClosed ==
    /\ \A m \in Minutes : row[m].state = "closed" => m < clock
    /\ \A b \in DerivedBuckets : \A m \in Members(b) :
          m < clock /\ derived[b][m] \in closedAs[m]

\* A COMPLETED backfill has asked the provider for every minute of its window
\* (plan_backfill_pages), has seen the kline stored for each minute it was given
\* one for, and its counters account for each of them once, the rows it was given
\* twice only among the fetched ones.  Minutes the provider left out stay out.
BackfillCovers ==
    run.status = "COMPLETED" =>
        /\ asked = run.start .. run.end - 1
        /\ hydrated = given
        /\ run.inserted + run.updated + run.skipped = Cardinality(given)
        /\ run.fetched = Cardinality(given) + repeats

\* A bucket in reach of the worker's overlap whose minutes stay closed is
\* eventually derived from the contents they have, however often they were
\* corrected before (aggregate_once goes over its overlap again).
InReach(b) == 2 * b * BucketSize >= StartTime

Settled(b) == /\ \A m \in Members(b) : row[m].state = "closed"
              /\ derived[b] = [m \in Members(b) |-> row[m].trades]

DerivedCatchesUp ==
    \A b \in Buckets :
        <>[](InReach(b) /\ \A m \in Members(b) : row[m].state = "closed")
            => <>[]Settled(b)

-----------------------------------------------------------------------------
(* The inductive invariant behind these properties.                        *)

JobRow == [pc : {"idle", "fetch", "read", "write", "announce"},
           cursor : 0 .. Horizon, end : 0 .. Horizon,
           batch : SUBSET Minutes, rows : Nat, todo : SUBSET Minutes,
           inserted : Nat, updated : Nat, skipped : Nat]
RunRow == [status : {"NONE", "RUNNING", "COMPLETED", "FAILED"},
           start : 0 .. Horizon, end : 0 .. Horizon,
           fetched : Nat, inserted : Nat, updated : Nat, skipped : Nat]

\* A closed row has contents its minute was closed with.  The builder holds
\* every trade it took for the active minute; the minutes the ingest closed
\* come before it, and no trade after it was taken.
IngestEvidence ==
    /\ \A m \in Minutes : row[m].state = "closed" => row[m].trades \in closedAs[m]
    /\ builder.minute = NoMinute
          => finished = {} /\ \A m \in Minutes : accepted[m] = {}
    /\ builder.minute # NoMinute
          => /\ builder.minute <= clock
             /\ builder.trades = accepted[builder.minute]
             /\ \A m \in Minutes : m > builder.minute => accepted[m] = {}
             /\ \A m \in finished : m < builder.minute

\* A derived candle that is still to be written is made of closed candles.
FromClosed(c) ==
    /\ c.bucket \in Buckets
    /\ c.value \in Derived(c.bucket)
    /\ \A m \in Members(c.bucket) : m < clock /\ c.value[m] \in closedAs[m]

AggregateEvidence == \A a \in Aggregators : \A c \in agg[a].todo : FromClosed(c)

\* A backfill has asked for the pages behind its cursor, and has stored what it
\* was given for them and the part of the current page that it has written.
BackfillEvidence ==
    /\ \A m \in job.batch : m < clock
    /\ job.pc \in {"fetch", "read", "write"} =>
          /\ run.status = "RUNNING" /\ run.end = job.end
          /\ run.start <= job.cursor /\ job.cursor <= job.end
          /\ \A m \in given \ job.batch : run.start <= m /\ m < job.cursor
          /\ given \ job.batch = hydrated \ job.batch
          /\ run.inserted + run.updated + run.skipped = Cardinality(given \ job.batch)
    /\ job.pc = "fetch" =>
          /\ job.batch = {}
          /\ asked = run.start .. job.cursor - 1
          /\ run.fetched = Cardinality(given) + repeats
    /\ job.pc \in {"read", "write"} =>
          /\ job.cursor < job.end
          /\ job.batch \subseteq given
          /\ \A m \in job.batch : job.cursor <= m /\ m < PageEnd(job.cursor, job.end)
          /\ asked = run.start .. PageEnd(job.cursor, job.end) - 1
          /\ run.fetched + job.rows = Cardinality(given) + repeats
    /\ job.pc = "read" => hydrated \cap job.batch = {}
    /\ job.pc = "write" =>
          /\ hydrated \cap job.batch = job.batch \ job.todo
          /\ Cardinality(job.batch) = job.inserted + job.updated + job.skipped
=============================================================================
