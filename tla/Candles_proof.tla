---------------------------- MODULE Candles_proof ----------------------------
(***************************************************************************)
(* Proofs about Candles, for any horizon, bucket, page and windows, and    *)
(* any number of trades, faults and requests: the types, that a COMPLETED  *)
(* backfill covers its window and counts each candle once, that a minute   *)
(* the ingest closed stays closed with its trades, and that candles are    *)
(* closed and derived only from minutes that are over.                     *)
(***************************************************************************)
EXTENDS Candles, FiniteSetTheorems, WellFoundedInduction, TLAPS

(***************************************************************************)
(* Numbers.                                                                *)
(***************************************************************************)

(* The natural numbers are well-ordered. *)
LEMMA LeastNat ==
    ASSUME NEW T, T \subseteq Nat, T # {}
    PROVE  \E x \in T : \A y \in T : x <= y
<1> DEFINE R == OpToRel(<, Nat)
<1>1. IsWellFoundedOn(R, Nat)
  BY NatLessThanWellFounded DEF OpToRel
<1>2. \A x, y \in Nat : <<y, x>> \in R <=> y < x
  BY DEF OpToRel
<1> HIDE DEF R
<1>3. PICK x \in T : \A y \in T : ~(<<y, x>> \in R)
  BY <1>1, WFMin
<1>4. \A y \in T : ~(y < x)
  BY <1>2, <1>3
<1> QED
  BY <1>4

(* A set of numbers that is not empty has a minimum. *)
LEMMA MinOfNat ==
    ASSUME NEW T, T \subseteq Nat, T # {}
    PROVE  Min(T) \in T /\ \A y \in T : Min(T) <= y
<1>1. PICK x \in T : \A y \in T : x <= y
  BY LeastNat
<1> QED
  BY <1>1 DEF Min

(* A page ends after its cursor, at the end of the window at the latest. *)
LEMMA PageEndBounds ==
    ASSUME NEW cursor \in 0 .. Horizon, NEW end \in 0 .. Horizon
    PROVE  /\ PageEnd(cursor, end) \in 0 .. Horizon /\ PageEnd(cursor, end) <= end
           /\ cursor < end => cursor < PageEnd(cursor, end)
<1> DEFINE T == {cursor + PageLimit, end}
<1>1. T \subseteq Nat /\ T # {} /\ end \in T
  BY HorizonAssumption
<1>2. Min(T) \in T /\ \A y \in T : Min(T) <= y
  BY <1>1, MinOfNat
<1>3. Min(T) <= end /\ (Min(T) = cursor + PageLimit \/ Min(T) = end)
  BY <1>1, <1>2
<1>4. PageEnd(cursor, end) = Min(T)
  BY DEF PageEnd
<1> QED
  BY <1>3, <1>4, HorizonAssumption

(***************************************************************************)
(* The types.                                                              *)
(***************************************************************************)

Builder == [minute : Minutes \union {NoMinute}, trades : Contents]
Used == [trades : 0 .. MaxTrades, faults : Nat, requests : Nat]
AggPc == {"idle", "target", "range", "existing", "write"}

\* A derived candle, for its bucket.
Candle(c) == c.bucket \in Buckets /\ c.value \in Derived(c.bucket)

\* An aggregation in progress.
Aggregation(g) == g.pc \in AggPc /\ \A c \in g.todo : Candle(c)

StoreTypes ==
    /\ clock \in 0 .. Horizon /\ row \in [Minutes -> Row]
    /\ closedAs \in [Minutes -> SUBSET Contents] /\ used \in Used
IngestTypes ==
    /\ builder \in Builder /\ accepted \in [Minutes -> Contents] /\ finished \subseteq Minutes
BackfillTypes ==
    /\ job \in JobRow /\ job.todo \subseteq job.batch /\ run \in RunRow
    /\ asked \subseteq Minutes /\ given \subseteq Minutes /\ hydrated \subseteq Minutes
    /\ repeats \in Nat /\ (job.pc = "fetch" => job.batch = {})
DerivedTypes ==
    /\ derived = [b \in Buckets |-> derived[b]]
    /\ \A b \in Buckets : derived[b] = NotDerived \/ derived[b] \in Derived(b)
    /\ DOMAIN agg = Aggregators /\ \A a \in Aggregators : Aggregation(agg[a])

Base == StoreTypes /\ IngestTypes /\ BackfillTypes /\ DerivedTypes

(* Base is the type invariant, and more. *)
LEMMA BaseTypes == Base => TypeOK
  BY DEF Base, StoreTypes, IngestTypes, BackfillTypes, DerivedTypes, Builder, JobRow,
     RunRow, Aggregation, AggPc, TypeOK

(* The counters of the bounds. *)
LEMMA UsedTyped ==
    ASSUME used \in Used
    PROVE  /\ used.trades \in 0 .. MaxTrades /\ used.faults \in Nat /\ used.requests \in Nat
           /\ UseFault => used' \in Used
           /\ used' = [used EXCEPT !.requests = @ + 1] => used' \in Used
           /\ used.trades < MaxTrades =>
                 /\ [used EXCEPT !.trades = @ + 1] \in Used
                 /\ [used EXCEPT !.trades = @ + 1, !.faults = @ + 1] \in Used
<1>1. used.trades \in 0 .. MaxTrades /\ used.faults \in Nat /\ used.requests \in Nat
  BY DEF Used
<1>2. UseFault => used' \in Used
  BY <1>1 DEF Used, UseFault
<1>3. used' = [used EXCEPT !.requests = @ + 1] => used' \in Used
  BY <1>1 DEF Used
<1>4. ASSUME used.trades < MaxTrades
      PROVE  /\ [used EXCEPT !.trades = @ + 1] \in Used
             /\ [used EXCEPT !.trades = @ + 1, !.faults = @ + 1] \in Used
  <2>1. used.trades + 1 \in 0 .. MaxTrades /\ used.faults + 1 \in Nat
    BY <1>1, <1>4, HorizonAssumption
  <2> QED
    BY <2>1 DEF Used
<1> QED
  BY <1>1, <1>2, <1>3, <1>4

(* A candle of the ingest, and the exchange's. *)
LEMMA RowsTyped ==
    ASSUME NEW m \in Minutes
    PROVE  /\ KlineOf(m) \in Row /\ KlineOf(m).state = "closed"
           /\ KlineOf(m).trades = {Kline}
           /\ \A trades \in Contents, state \in {"open", "closed"} :
                 /\ Live(m, trades, state) \in Row
                 /\ Live(m, trades, state).state = state
                 /\ Live(m, trades, state).trades = trades
<1>1. 2 * (m + 1) \in 0 .. 2 * Horizon /\ 2 * (m + 1) - 1 \in 0 .. 2 * Horizon
  BY HorizonAssumption DEF Minutes
<1>2. {Kline} \in Contents
  BY HorizonAssumption DEF Kline, Contents
<1>3. /\ KlineOf(m) \in Row /\ KlineOf(m).state = "closed"
      /\ KlineOf(m).trades = {Kline}
  BY <1>1, <1>2 DEF KlineOf, Row
<1>4. ASSUME NEW trades \in Contents, NEW state \in {"open", "closed"}
      PROVE  /\ Live(m, trades, state) \in Row
             /\ Live(m, trades, state).state = state
             /\ Live(m, trades, state).trades = trades
  BY <1>1 DEF Live, Row
<1> QED
  BY <1>3, <1>4

(* A write of rows remembers what it closed them with. *)
LEMMA WriteEffect ==
    ASSUME closedAs \in [Minutes -> SUBSET Contents],
           NEW rows \in [Minutes -> Row], WriteRows(rows)
    PROVE  /\ row' = rows /\ closedAs' \in [Minutes -> SUBSET Contents]
           /\ \A m \in Minutes :
                 /\ closedAs[m] \subseteq closedAs'[m]
                 /\ rows[m].state = "closed" => rows[m].trades \in closedAs'[m]
<1>1. \A m \in Minutes : rows[m].trades \in Contents
  BY DEF Row
<1> QED
  BY <1>1 DEF WriteRows

(***************************************************************************)
(* What a step does.                                                       *)
(***************************************************************************)

\* The trade is in the builder.
Taken(m) ==
    LET t == used.trades + 1
    IN  /\ builder'.minute = m
        /\ builder'.trades = IF builder.minute = m THEN builder.trades \union {t} ELSE {t}
        /\ accepted' = [accepted EXCEPT ![m] = accepted[m] \union {t}]

\* The rows of the trade's minute and of the one it closes are written.
Written(m) ==
    /\ \A k \in Minutes :
          row'[k] = IF k = m THEN Live(m, builder'.trades, "open")
                    ELSE IF Closes(builder, m) /\ k = builder.minute
                         THEN Live(k, builder.trades, "closed") ELSE row[k]
    /\ finished' = IF Closes(builder, m) THEN finished \union {builder.minute} ELSE finished
    /\ \A k \in Minutes :
          /\ closedAs[k] \subseteq closedAs'[k]
          /\ row'[k].state = "closed" => row'[k].trades \in closedAs'[k]

(* A trade. *)
LEMMA HandleEffect ==
    ASSUME Base, NEW m \in Minutes, HandleTrade(m)
    PROVE  /\ m <= clock /\ InOrder(builder, m) /\ Taken(m)
           /\ Written(m) \/ UNCHANGED <<row, closedAs, finished>>
           /\ StoreTypes' /\ IngestTypes'
           /\ UNCHANGED <<clock, derived, agg, job, run, hydrated, answers>>
<1> DEFINE t == used.trades + 1
<1>1. /\ m <= clock /\ InOrder(builder, m) /\ used.trades < MaxTrades
      /\ builder' = Applied(builder, m, t)
      /\ accepted' = [accepted EXCEPT ![m] = accepted[m] \union {t}]
      /\ UNCHANGED <<clock, derived, agg, job, run, hydrated, answers>>
  BY DEF HandleTrade, backfillVars, Base, IngestTypes
<1>2. /\ StoreTypes /\ IngestTypes /\ builder.minute \in Minutes \union {NoMinute}
      /\ builder.trades \in Contents
  BY DEF Base, IngestTypes, Builder
<1>3. t \in 0 .. MaxTrades
  BY <1>1, <1>2, HorizonAssumption DEF StoreTypes, Used
<1> HIDE DEF t
<1>4. {t} \in Contents /\ builder.trades \union {t} \in Contents
      /\ accepted[m] \union {t} \in Contents
  BY <1>2, <1>3 DEF Contents, IngestTypes
<1>5. /\ builder' \in Builder /\ builder'.minute = m
      /\ builder'.trades = IF builder.minute = m THEN builder.trades \union {t} ELSE {t}
      /\ builder'.trades \in Contents
  <2>1. CASE builder.minute = m
    <3>1. builder' = [builder EXCEPT !.trades = builder.trades \union {t}]
      BY <1>1, <2>1 DEF Applied
    <3> QED
      BY <1>2, <1>4, <2>1, <3>1 DEF IngestTypes, Builder
  <2>2. CASE builder.minute # m
    BY <1>1, <1>4, <2>2 DEF Applied, Builder
  <2> QED
    BY <2>1, <2>2
<1>6. accepted' \in [Minutes -> Contents]
  BY <1>1, <1>2, <1>4 DEF IngestTypes
<1>7. used' \in Used
  <2>1. \/ used' = [used EXCEPT !.trades = @ + 1]
        \/ used' = [used EXCEPT !.trades = @ + 1, !.faults = @ + 1]
    BY DEF HandleTrade
  <2> QED
    BY <1>1, <1>2, <2>1, UsedTyped DEF StoreTypes
<1>8. CASE UNCHANGED <<row, closedAs, finished>>
  BY <1>1, <1>2, <1>5, <1>6, <1>7, <1>8 DEF StoreTypes, IngestTypes, Taken, t
<1>9. CASE StoreTrade(builder, m)
  <2> DEFINE active == [row EXCEPT ![m] = Live(m, builder'.trades, "open")]
             both == [active EXCEPT ![builder.minute] =
                                       Live(builder.minute, builder.trades, "closed")]
             rows == IF Closes(builder, m) THEN both ELSE active
  <2>1. /\ WriteRows(rows)
        /\ finished' = IF Closes(builder, m) THEN finished \union {builder.minute}
                       ELSE finished
    BY <1>9 DEF StoreTrade
  <2>2. Closes(builder, m) => builder.minute \in Minutes /\ builder.minute # m
    BY <1>2 DEF Closes, NoMinute, Minutes
  <2>3. /\ Live(m, builder'.trades, "open") \in Row
        /\ Closes(builder, m) => Live(builder.minute, builder.trades, "closed") \in Row
    BY <1>2, <1>5, <2>2, RowsTyped
  <2>4. active \in [Minutes -> Row]
    BY <1>2, <2>3 DEF StoreTypes
  <2>5. rows \in [Minutes -> Row]
    BY <2>2, <2>3, <2>4
  <2>6. \A k \in Minutes :
          rows[k] = IF k = m THEN Live(m, builder'.trades, "open")
                    ELSE IF Closes(builder, m) /\ k = builder.minute
                         THEN Live(k, builder.trades, "closed") ELSE row[k]
    BY <1>2, <2>2, <2>4 DEF StoreTypes
  <2> HIDE DEF rows, active, both
  <2>7. /\ row' = rows /\ closedAs' \in [Minutes -> SUBSET Contents]
        /\ \A k \in Minutes :
              /\ closedAs[k] \subseteq closedAs'[k]
              /\ rows[k].state = "closed" => rows[k].trades \in closedAs'[k]
    BY <1>2, <2>1, <2>5, WriteEffect DEF StoreTypes
  <2>8. finished' \subseteq Minutes
    BY <1>2, <2>1, <2>2 DEF IngestTypes
  <2>9. Written(m)
    BY <2>1, <2>6, <2>7 DEF Written
  <2>10. StoreTypes' /\ IngestTypes'
    BY <1>1, <1>2, <1>5, <1>6, <1>7, <2>5, <2>7, <2>8 DEF StoreTypes, IngestTypes
  <2> QED
    BY <1>1, <1>5, <2>9, <2>10 DEF Taken, t
<1> QED
  BY <1>8, <1>9 DEF HandleTrade

(* A restart of the ingest. *)
LEMMA RestartEffect ==
    ASSUME Base, RestartIngest
    PROVE  /\ builder'.minute = NoMinute /\ finished' = {}
           /\ \A m \in Minutes : accepted'[m] = {}
           /\ StoreTypes' /\ IngestTypes'
           /\ UNCHANGED <<clock, row, derived, agg, closedAs, job, run, hydrated, answers>>
<1>1. /\ UseFault /\ builder' = EmptyBuilder /\ accepted' = [m \in Minutes |-> {}]
      /\ finished' = {} /\ UNCHANGED <<clock, row, derived, agg, closedAs, job, run, hydrated, answers>>
  BY DEF RestartIngest, backfillVars
<1>2. EmptyBuilder \in Builder /\ EmptyBuilder.minute = NoMinute /\ {} \in Contents
  BY DEF EmptyBuilder, Builder, Contents
<1>3. used' \in Used
  BY <1>1, UsedTyped DEF Base, StoreTypes
<1>4. StoreTypes' /\ IngestTypes'
  BY <1>1, <1>2, <1>3 DEF Base, StoreTypes, IngestTypes
<1> QED
  BY <1>1, <1>2, <1>4

(* Parts of the backfill's locals and of its row. *)
LEMMA BackfillParts ==
    ASSUME BackfillTypes
    PROVE  /\ job.cursor \in 0 .. Horizon /\ job.end \in 0 .. Horizon
           /\ job.batch \subseteq Minutes /\ job.todo \subseteq job.batch
           /\ job.rows \in Nat
           /\ job.inserted \in Nat /\ job.updated \in Nat /\ job.skipped \in Nat
           /\ run.start \in 0 .. Horizon /\ run.end \in 0 .. Horizon
           /\ run.fetched \in Nat
           /\ run.inserted \in Nat /\ run.updated \in Nat /\ run.skipped \in Nat
  BY DEF BackfillTypes, JobRow, RunRow

(* Sets of minutes are finite. *)
LEMMA MinutesFinite ==
    ASSUME NEW S, S \subseteq Minutes
    PROVE  IsFiniteSet(S) /\ Cardinality(S) \in Nat
<1>1. IsFiniteSet(Minutes)
  <2>1. 0 \in Int /\ Horizon - 1 \in Int
    BY HorizonAssumption
  <2>2. IsFiniteSet(0 .. Horizon - 1)
    BY <2>1, FS_Interval
  <2> QED
    BY <2>2 DEF Minutes
<1>2. IsFiniteSet(S)
  BY <1>1, FS_Subset
<1> QED
  BY <1>2, FS_CardinalityType

(* Disjoint sets of minutes. *)
LEMMA DisjointCount ==
    ASSUME NEW S, S \subseteq Minutes, NEW T, T \subseteq Minutes, S \cap T = {}
    PROVE  Cardinality(S \cup T) = Cardinality(S) + Cardinality(T)
<1>1. IsFiniteSet(S) /\ IsFiniteSet(T) /\ Cardinality(S) \in Nat /\ Cardinality(T) \in Nat
  BY MinutesFinite
<1>2. Cardinality(S \cup T) = Cardinality(S) + Cardinality(T) - Cardinality(S \cap T)
  BY <1>1, FS_Union
<1>3. Cardinality(S \cap T) = 0
  BY FS_EmptySet
<1> QED
  BY <1>1, <1>2, <1>3

\* Every step of the backfill leaves these alone.
BesideBackfill ==
    UNCHANGED <<clock, derived, agg, builder, accepted, finished>>

\* Most leave the rows and the bounds alone, too.
StoreAlone == UNCHANGED <<row, closedAs, used>>

(* A backfill begins. *)
LEMMA InsertBackfillEffect ==
    ASSUME Base, InsertBackfillRun
    PROVE  /\ BackfillTypes' /\ BesideBackfill /\ UNCHANGED <<row, closedAs>> /\ used' \in Used
           /\ job'.pc = "fetch" /\ job'.batch = {} /\ job'.todo = {}
           /\ run'.status = "RUNNING" /\ run'.start = job'.cursor
           /\ run'.end = job'.end /\ job'.cursor < job'.end
           /\ run'.fetched = 0 /\ run'.inserted = 0 /\ run'.updated = 0 /\ run'.skipped = 0
           /\ hydrated' = {} /\ asked' = {} /\ given' = {} /\ repeats' = 0
<1>1. PICK w \in Windows :
        /\ job' = [IdleJob EXCEPT !.pc = "fetch", !.cursor = w[1], !.end = w[2]]
        /\ run' = [NoRun EXCEPT !.status = "RUNNING", !.start = w[1], !.end = w[2]]
  BY DEF InsertBackfillRun
<1>2. /\ used' = [used EXCEPT !.requests = @ + 1] /\ hydrated' = {}
      /\ asked' = {} /\ given' = {} /\ repeats' = 0
      /\ UNCHANGED <<row, closedAs>> /\ BesideBackfill
  BY DEF InsertBackfillRun, BesideBackfill, ingestVars
<1>3. used' \in Used
  BY <1>2, UsedTyped DEF Base, StoreTypes
<1>4. w[1] \in 0 .. Horizon /\ w[2] \in 0 .. Horizon /\ w[1] < w[2]
  BY HorizonAssumption
<1>6. /\ job' \in JobRow /\ job'.pc = "fetch" /\ job'.batch = {} /\ job'.todo = {}
      /\ job'.cursor = w[1] /\ job'.end = w[2]
  BY <1>1, <1>4 DEF IdleJob, JobRow
<1>7. /\ run' \in RunRow /\ run'.status = "RUNNING"
      /\ run'.start = w[1] /\ run'.end = w[2]
      /\ run'.fetched = 0 /\ run'.inserted = 0 /\ run'.updated = 0 /\ run'.skipped = 0
  BY <1>1, <1>4 DEF NoRun, RunRow
<1>8. BackfillTypes'
  BY <1>2, <1>6, <1>7 DEF BackfillTypes
<1> QED
  BY <1>2, <1>3, <1>4, <1>6, <1>7, <1>8

(* A page is fetched. *)
LEMMA FetchEffect ==
    ASSUME Base, FetchPage
    PROVE  /\ BackfillTypes' /\ BesideBackfill /\ StoreAlone /\ UNCHANGED <<run, hydrated>>
           /\ job.pc = "fetch" /\ job.cursor < job.end /\ job'.pc = "read"
           /\ job'.cursor = job.cursor /\ job'.end = job.end
           /\ \A m \in job'.batch : job.cursor <= m /\ m < PageEnd(job.cursor, job.end)
                                    /\ m < clock
           /\ given' = given \union job'.batch
           /\ asked' = asked \union (job.cursor .. PageEnd(job.cursor, job.end) - 1)
           /\ \E repeated \in Nat : /\ repeats' = repeats + repeated
                                    /\ job'.rows = Cardinality(job'.batch) + repeated
<1> DEFINE top == PageEnd(job.cursor, job.end)
<1>1. /\ job.pc = "fetch" /\ job.cursor < job.end
      /\ asked' = asked \union (job.cursor .. top - 1)
      /\ BesideBackfill /\ StoreAlone /\ UNCHANGED <<run, hydrated>>
  BY DEF FetchPage, BesideBackfill, StoreAlone, ingestVars
<1>2. PICK batch \in ClosedKlines(job.cursor, top), repeated \in {0, 1} :
        /\ job' = [job EXCEPT !.pc = "read", !.batch = batch,
                              !.rows = Cardinality(batch) + repeated]
        /\ given' = given \union batch
        /\ repeats' = repeats + repeated
  BY DEF FetchPage
<1>3. job.cursor \in 0 .. Horizon /\ job.end \in 0 .. Horizon /\ top \in 0 .. Horizon
  <2>1. job.cursor \in 0 .. Horizon /\ job.end \in 0 .. Horizon
    BY BackfillParts DEF Base
  <2> QED
    BY <2>1, PageEndBounds
<1>4. job.todo = {}
  BY <1>1 DEF Base, BackfillTypes
<1> HIDE DEF top
<1>5. /\ batch \subseteq Minutes
      /\ \A m \in batch : job.cursor <= m /\ m < top /\ m < clock
      /\ (job.cursor .. top - 1) \subseteq Minutes
  <2>1. batch \subseteq {m \in job.cursor .. top - 1 : m < clock}
    BY <1>2 DEF ClosedKlines
  <2>2. \A m \in job.cursor .. top - 1 : m \in Minutes /\ job.cursor <= m /\ m < top
    BY <1>3, HorizonAssumption DEF Minutes
  <2> QED
    BY <2>1, <2>2
<1>6. Cardinality(batch) \in Nat /\ Cardinality(batch) + repeated \in Nat /\ repeated \in Nat
  BY <1>5, MinutesFinite
<1>7. /\ job' \in JobRow /\ job'.pc = "read" /\ job'.batch = batch /\ job'.todo = job.todo
      /\ job'.cursor = job.cursor /\ job'.end = job.end
      /\ job'.rows = Cardinality(batch) + repeated
  BY <1>2, <1>5, <1>6 DEF Base, BackfillTypes, JobRow
<1>8. asked' \subseteq Minutes /\ given' \subseteq Minutes /\ repeats' \in Nat
  <2>1. asked \subseteq Minutes /\ given \subseteq Minutes /\ repeats \in Nat
    BY DEF Base, BackfillTypes
  <2> QED
    BY <1>1, <1>2, <1>5, <1>6, <2>1
<1>9. BackfillTypes'
  BY <1>1, <1>4, <1>7, <1>8 DEF Base, BackfillTypes
<1> QED
  BY <1>1, <1>2, <1>5, <1>6, <1>7, <1>9 DEF top

\* What a read of the rows finds of the batch.
Absent == {m \in job.batch : row[m].state = "none"}
Matching == {m \in job.batch : row[m] = KlineOf(m)}

(* The rows of the page are read; each is counted once. *)
LEMMA ReadRowsEffect ==
    ASSUME Base, ReadExistingRows
    PROVE  /\ BackfillTypes' /\ BesideBackfill /\ StoreAlone /\ UNCHANGED <<run, answers>>
           /\ job.pc = "read" /\ job'.pc = "write"
           /\ job'.cursor = job.cursor /\ job'.end = job.end /\ job'.batch = job.batch
           /\ job'.rows = job.rows
           /\ job'.todo = job.batch \ Matching
           /\ hydrated' = hydrated \union Matching
           /\ Cardinality(job'.batch) = job'.inserted + job'.updated + job'.skipped
<1> DEFINE changed == job.batch \ (Absent \union Matching)
<1>1. /\ job.pc = "read" /\ BesideBackfill /\ StoreAlone /\ UNCHANGED <<run, answers>>
      /\ job' = [job EXCEPT !.pc = "write", !.todo = job.batch \ Matching,
                     !.inserted = Cardinality(Absent), !.skipped = Cardinality(Matching),
                     !.updated = Cardinality(changed)]
      /\ hydrated' = hydrated \union Matching
  BY DEF ReadExistingRows, BesideBackfill, StoreAlone, ingestVars, Absent, Matching
<1>2. job.batch \subseteq Minutes
  BY BackfillParts DEF Base
<1>3. Absent \subseteq job.batch /\ Matching \subseteq job.batch
  BY DEF Absent, Matching
<1>4. Absent \cap Matching = {}
  BY <1>2, RowsTyped DEF Absent, Matching
<1> HIDE DEF changed
<1>5. /\ Cardinality(Absent) \in Nat /\ Cardinality(Matching) \in Nat
      /\ Cardinality(changed) \in Nat
  BY <1>2, <1>3, MinutesFinite DEF changed
<1>6. Cardinality(job.batch)
        = Cardinality(Absent) + Cardinality(changed) + Cardinality(Matching)
  <2>1. Cardinality(Absent \cup Matching) = Cardinality(Absent) + Cardinality(Matching)
    BY <1>2, <1>3, <1>4, DisjointCount
  <2>2. Cardinality((Absent \cup Matching) \cup changed)
          = Cardinality(Absent \cup Matching) + Cardinality(changed)
    <3>1. /\ Absent \cup Matching \subseteq Minutes /\ changed \subseteq Minutes
          /\ (Absent \cup Matching) \cap changed = {}
      BY <1>2, <1>3 DEF changed
    <3> QED
      BY <3>1, DisjointCount
  <2>3. job.batch = (Absent \cup Matching) \cup changed
    BY <1>3 DEF changed
  <2> QED
    BY <1>5, <2>1, <2>2, <2>3
<1>7. /\ job' \in JobRow /\ job'.pc = "write" /\ job'.batch = job.batch
      /\ job'.todo = job.batch \ Matching
      /\ job'.cursor = job.cursor /\ job'.end = job.end /\ job'.rows = job.rows
      /\ job'.inserted = Cardinality(Absent) /\ job'.skipped = Cardinality(Matching)
      /\ job'.updated = Cardinality(changed)
  BY <1>1, <1>2, <1>5 DEF Base, BackfillTypes, JobRow
<1>8. hydrated' \subseteq Minutes
  BY <1>1, <1>2, <1>3 DEF Base, BackfillTypes
<1>9. BackfillTypes'
  BY <1>1, <1>7, <1>8 DEF Base, BackfillTypes, answers
<1> QED
  BY <1>1, <1>6, <1>7, <1>9

(* One kline of the batch is written. *)
LEMMA UpsertEffect ==
    ASSUME Base, UpsertKline
    PROVE  /\ BackfillTypes' /\ StoreTypes' /\ BesideBackfill /\ UNCHANGED <<used, run, answers>>
           /\ job.pc = "write" /\ job'.pc = "write"
           /\ job'.cursor = job.cursor /\ job'.end = job.end /\ job'.batch = job.batch
           /\ job'.rows = job.rows
           /\ job'.inserted = job.inserted /\ job'.updated = job.updated
           /\ job'.skipped = job.skipped
           /\ \E m \in job.todo :
                 /\ row' = [row EXCEPT ![m] = KlineOf(m)]
                 /\ job'.todo = job.todo \ {m} /\ hydrated' = hydrated \union {m}
           /\ \A k \in Minutes :
                 /\ closedAs[k] \subseteq closedAs'[k]
                 /\ row'[k].state = "closed" => row'[k].trades \in closedAs'[k]
<1> DEFINE m == Min(job.todo)
<1>1. /\ job.pc = "write" /\ job.todo # {} /\ WriteRows([row EXCEPT ![m] = KlineOf(m)])
      /\ job' = [job EXCEPT !.todo = job.todo \ {m}] /\ hydrated' = hydrated \union {m}
      /\ BesideBackfill /\ UNCHANGED <<used, run, answers>>
  BY DEF UpsertKline, BesideBackfill, ingestVars
<1>2. job.todo \subseteq job.batch /\ job.batch \subseteq Minutes
  BY BackfillParts DEF Base
<1>3. m \in job.todo
  <2>1. job.todo \subseteq Nat
    BY <1>2 DEF Minutes
  <2> QED
    BY <1>1, <2>1, MinOfNat
<1> HIDE DEF m
<1>4. /\ row \in [Minutes -> Row] /\ closedAs \in [Minutes -> SUBSET Contents]
      /\ m \in Minutes
  BY <1>2, <1>3 DEF Base, StoreTypes
<1> DEFINE rows == [row EXCEPT ![m] = KlineOf(m)]
<1>5. rows \in [Minutes -> Row]
  BY <1>4, RowsTyped
<1>6. WriteRows(rows)
  BY <1>1
<1> HIDE DEF rows
<1>7. /\ row' = rows /\ closedAs' \in [Minutes -> SUBSET Contents]
      /\ \A k \in Minutes :
            /\ closedAs[k] \subseteq closedAs'[k]
            /\ rows[k].state = "closed" => rows[k].trades \in closedAs'[k]
  BY <1>4, <1>5, <1>6, WriteEffect
<1>8. /\ job' \in JobRow /\ job'.pc = "write" /\ job'.cursor = job.cursor
      /\ job'.end = job.end /\ job'.batch = job.batch /\ job'.todo = job.todo \ {m}
      /\ job'.rows = job.rows
      /\ job'.inserted = job.inserted /\ job'.updated = job.updated
      /\ job'.skipped = job.skipped
  BY <1>1, <1>2 DEF Base, BackfillTypes, JobRow
<1>9. BackfillTypes'
  BY <1>1, <1>2, <1>4, <1>8 DEF Base, BackfillTypes, answers
<1>10. StoreTypes'
  BY <1>1, <1>5, <1>7 DEF Base, StoreTypes, BesideBackfill
<1> QED
  BY <1>1, <1>3, <1>7, <1>8, <1>9, <1>10 DEF rows

(* The page is counted. *)
LEMMA ProgressEffect ==
    ASSUME Base, UpdateProgress
    PROVE  /\ BackfillTypes' /\ BesideBackfill /\ StoreAlone /\ UNCHANGED <<hydrated, answers>>
           /\ job.pc = "write" /\ job.todo = {} /\ job'.pc = "fetch"
           /\ job'.batch = {} /\ job'.end = job.end
           /\ job'.cursor = PageEnd(job.cursor, job.end)
           /\ run'.status = run.status /\ run'.start = run.start /\ run'.end = run.end
           /\ run'.fetched = run.fetched + job.rows
           /\ run'.inserted = run.inserted + job.inserted
           /\ run'.updated = run.updated + job.updated
           /\ run'.skipped = run.skipped + job.skipped
<1> DEFINE next == PageEnd(job.cursor, job.end)
           n == job.rows
<1>1. /\ job.pc = "write" /\ job.todo = {}
      /\ run' = [run EXCEPT !.fetched = run.fetched + n,
                            !.inserted = run.inserted + job.inserted,
                            !.updated = run.updated + job.updated,
                            !.skipped = run.skipped + job.skipped]
      /\ job' = [IdleJob EXCEPT !.pc = "fetch", !.end = job.end, !.cursor = next]
      /\ BesideBackfill /\ StoreAlone /\ UNCHANGED <<hydrated, answers>>
  BY DEF UpdateProgress, NextCursor, BesideBackfill, StoreAlone, ingestVars, Base,
     BackfillTypes, RunRow
<1>2. next \in 0 .. Horizon /\ job.end \in 0 .. Horizon
  BY BackfillParts, PageEndBounds DEF Base
<1>3. n \in Nat /\ job.inserted \in Nat /\ job.updated \in Nat /\ job.skipped \in Nat
  BY BackfillParts DEF Base
<1> HIDE DEF next, n
<1>4. /\ job' \in JobRow /\ job'.pc = "fetch" /\ job'.batch = {} /\ job'.todo = {}
      /\ job'.end = job.end /\ job'.cursor = next
  BY <1>1, <1>2 DEF IdleJob, JobRow
<1>5. /\ run' \in RunRow /\ run'.status = run.status /\ run'.start = run.start
      /\ run'.end = run.end
      /\ run'.fetched = run.fetched + n
      /\ run'.inserted = run.inserted + job.inserted
      /\ run'.updated = run.updated + job.updated
      /\ run'.skipped = run.skipped + job.skipped
  <2>1. /\ run.fetched + n \in Nat /\ run.inserted + job.inserted \in Nat
        /\ run.updated + job.updated \in Nat /\ run.skipped + job.skipped \in Nat
    BY <1>3, BackfillParts DEF Base
  <2>2. run \in RunRow
    BY DEF Base, BackfillTypes
  <2> QED
    BY <1>1, <2>1, <2>2 DEF RunRow
<1>6. BackfillTypes'
  BY <1>1, <1>4, <1>5 DEF Base, BackfillTypes, answers
<1> QED
  BY <1>1, <1>4, <1>5, <1>6 DEF next, n

\* The backfill is over, or has only its completion to announce, and its row
\* has at most another status.
EndedBackfill ==
    /\ job'.pc \in {"idle", "announce"} /\ job'.batch = {}
    /\ run'.start = run.start /\ run'.end = run.end
    /\ run'.fetched = run.fetched /\ run'.inserted = run.inserted
    /\ run'.updated = run.updated /\ run'.skipped = run.skipped
    /\ UNCHANGED <<hydrated, answers>>

(* The ends of a backfill. *)
LEMMA EndBackfillEffect ==
    ASSUME Base, CompleteBackfill \/ AnnounceBackfill \/ FailBackfill \/ FailEmptyPage
    PROVE  /\ BackfillTypes' /\ BesideBackfill /\ UNCHANGED <<row, closedAs>> /\ used' \in Used
           /\ EndedBackfill
           /\ \/ run'.status = run.status
              \/ run'.status = "FAILED"
              \/ job.pc = "fetch" /\ job.cursor >= job.end
<1>1. /\ BesideBackfill /\ UNCHANGED <<row, closedAs, hydrated, answers>>
      /\ \/ job' = IdleJob
         \/ job' = [IdleJob EXCEPT !.pc = "announce"]
      /\ \/ run' = run
         \/ run' = [run EXCEPT !.status = "FAILED"]
         \/ /\ run' = [run EXCEPT !.status = "COMPLETED"]
            /\ job.pc = "fetch" /\ job.cursor >= job.end
  BY DEF CompleteBackfill, AnnounceBackfill, FailBackfill, FailEmptyPage,
     BesideBackfill, ingestVars
<1>2. used' \in Used
  BY UsedTyped DEF CompleteBackfill, AnnounceBackfill, FailBackfill, FailEmptyPage,
     Base, StoreTypes
<1>3. job' \in JobRow /\ job'.pc \in {"idle", "announce"} /\ job'.batch = {} /\ job'.todo = {}
  BY <1>1, HorizonAssumption DEF IdleJob, JobRow
<1>4. /\ run' \in RunRow
      /\ run'.start = run.start /\ run'.end = run.end
      /\ run'.fetched = run.fetched /\ run'.inserted = run.inserted
      /\ run'.updated = run.updated /\ run'.skipped = run.skipped
      /\ \/ run'.status = run.status
         \/ run'.status = "FAILED"
         \/ job.pc = "fetch" /\ job.cursor >= job.end
  BY <1>1 DEF Base, BackfillTypes, RunRow
<1>5. BackfillTypes'
  BY <1>1, <1>3, <1>4 DEF Base, BackfillTypes, answers
<1> QED
  BY <1>1, <1>2, <1>3, <1>4, <1>5 DEF EndedBackfill

\* An aggregation leaves these alone.
BesideAggregation ==
    UNCHANGED <<clock, row, closedAs, builder, accepted, finished, job, run, hydrated, answers>>

\* A derived candle made of the rows there are, all of them closed.
Gathered(c) ==
    \A m \in Members(c.bucket) :
        m \in Minutes /\ row[m].state = "closed" /\ c.value[m] = row[m].trades

\* A candle of the derived row, or of the work of an aggregation, was in the
\* work of one before, or is gathered now.
AggregationMoves ==
    /\ \A d \in Aggregators : \A c \in agg'[d].todo : c \in agg[d].todo \/ Gathered(c)
    /\ \A b \in Buckets :
          \/ derived'[b] = derived[b]
          \/ \E d \in Aggregators : \E c \in agg[d].todo :
                c.bucket = b /\ derived'[b] = c.value

(* One aggregation moves on without a write. *)
LEMMA AggregationSet ==
    ASSUME Base, NEW a \in Aggregators, NEW g, Aggregation(g),
           agg' = [agg EXCEPT ![a] = g], UNCHANGED derived,
           \A c \in g.todo : c \in agg[a].todo \/ Gathered(c)
    PROVE  DerivedTypes' /\ AggregationMoves
<1>1. /\ DOMAIN agg = Aggregators /\ \A d \in Aggregators : Aggregation(agg[d])
      /\ derived = [b \in Buckets |-> derived[b]]
      /\ \A b \in Buckets : derived[b] = NotDerived \/ derived[b] \in Derived(b)
  BY DEF Base, DerivedTypes
<1>2. /\ DOMAIN agg' = Aggregators
      /\ \A d \in Aggregators : agg'[d] = IF d = a THEN g ELSE agg[d]
  BY <1>1
<1>3. \A d \in Aggregators : Aggregation(agg'[d])
  BY <1>1, <1>2
<1>4. DerivedTypes'
  <2>1. \A d \in Aggregators : Aggregation(agg[d])'
    BY <1>3 DEF Aggregation, Candle
  <2> QED
    BY <1>1, <1>2, <2>1 DEF DerivedTypes
<1>5. AggregationMoves
  BY <1>2 DEF AggregationMoves
<1> QED
  BY <1>4, <1>5

(* An aggregation begins, reads its window, or ends. *)
LEMMA WindowEffect ==
    ASSUME Base,
           \/ ReadLatestSource \/ ReadLatestTarget \/ RequestAggregation
           \/ \E a \in Aggregators : FinishAggregation(a) \/ FailAggregation(a)
    PROVE  DerivedTypes' /\ AggregationMoves /\ BesideAggregation /\ used' \in Used
<1>1. BesideAggregation /\ UNCHANGED derived
  BY DEF ReadLatestSource, ReadLatestTarget, RequestAggregation, FinishAggregation,
     FailAggregation, BesideAggregation, ingestVars, backfillVars
<1>2. used' \in Used
  BY UsedTyped DEF ReadLatestSource, ReadLatestTarget, RequestAggregation,
     FinishAggregation, FailAggregation, Base, StoreTypes
<1>3. \E a \in Aggregators : \E g :
        /\ agg' = [agg EXCEPT ![a] = g] /\ Aggregation(g)
        /\ \A c \in g.todo : c \in agg[a].todo
  <2>1. Aggregation(IdleAgg) /\ IdleAgg.todo = {}
    BY DEF IdleAgg, Aggregation, AggPc
  <2>2. CASE ReadLatestSource
    <3> DEFINE g == [IdleAgg EXCEPT !.pc = "target", !.end = row[Max(ClosedMinutes(row))].close]
    <3>1. agg' = [agg EXCEPT !["worker"] = g]
      BY <2>2 DEF ReadLatestSource
    <3>2. g.pc = "target" /\ g.todo = {}
      BY DEF IdleAgg
    <3> HIDE DEF g
    <3> QED
      BY <3>1, <3>2 DEF Aggregators, Aggregation, AggPc
  <2>3. CASE ReadLatestTarget
    <3> DEFINE h == [agg["worker"] EXCEPT !.pc = "range", !.start = StartTime]
               g == IF agg["worker"].end > StartTime THEN h ELSE IdleAgg
    <3>1. agg' = [agg EXCEPT !["worker"] = g]
      BY <2>3 DEF ReadLatestTarget
    <3>2. Aggregation(agg["worker"])
      BY DEF Base, DerivedTypes, Aggregators
    <3>3. g.todo = agg["worker"].todo \/ g = IdleAgg
      OBVIOUS
    <3>4. g.pc \in AggPc
      BY <2>1, <3>3 DEF AggPc, Aggregation
    <3> HIDE DEF g
    <3>5. Aggregation(g) /\ \A c \in g.todo : c \in agg["worker"].todo
      BY <2>1, <3>2, <3>3, <3>4 DEF Aggregation
    <3> QED
      BY <3>1, <3>5 DEF Aggregators
  <2>4. CASE RequestAggregation
    <3> DEFINE g == [IdleAgg EXCEPT !.pc = "range", !.start = 0, !.end = 2 * Horizon]
    <3>1. agg' = [agg EXCEPT !["operator"] = g]
      BY <2>4 DEF RequestAggregation
    <3>2. g.pc = "range" /\ g.todo = {}
      BY DEF IdleAgg
    <3> HIDE DEF g
    <3> QED
      BY <3>1, <3>2 DEF Aggregators, Aggregation, AggPc
  <2>5. ASSUME NEW a \in Aggregators, FinishAggregation(a) \/ FailAggregation(a)
        PROVE  agg' = [agg EXCEPT ![a] = IdleAgg]
    BY <2>5 DEF FinishAggregation, FailAggregation
  <2> QED
    BY <2>1, <2>2, <2>3, <2>4, <2>5
<1>4. PICK a \in Aggregators : \E g :
        /\ agg' = [agg EXCEPT ![a] = g] /\ Aggregation(g)
        /\ \A c \in g.todo : c \in agg[a].todo
  BY <1>3
<1>5. PICK g :
        /\ agg' = [agg EXCEPT ![a] = g] /\ Aggregation(g)
        /\ \A c \in g.todo : c \in agg[a].todo
  BY <1>4
<1>6. DerivedTypes' /\ AggregationMoves
  BY <1>1, <1>5, AggregationSet
<1> QED
  BY <1>1, <1>2, <1>6

(* The candles of a range are made of closed rows. *)
LEMMA GatheredCandles ==
    ASSUME Base, NEW minutes, minutes \subseteq ClosedMinutes(row),
           NEW c \in Aggregated(minutes)
    PROVE  Candle(c) /\ Gathered(c)
<1>1. PICK b \in Buckets :
        /\ CompleteIn(b, minutes)
        /\ c = [bucket |-> b, value |-> [m \in Members(b) |-> row[m].trades]]
  BY DEF Aggregated
<1>2. \A m \in Members(b) : m \in Minutes /\ row[m].state = "closed"
  BY <1>1 DEF CompleteIn, ClosedMinutes
<1>3. \A m \in Minutes : row[m].trades \in Contents
  BY DEF Base, StoreTypes, Row
<1> DEFINE v == [m \in Members(b) |-> row[m].trades]
<1>4. v \in [Members(b) -> Contents] /\ \A m \in Members(b) : v[m] = row[m].trades
  BY <1>2, <1>3
<1>5. c.bucket = b /\ c.value = v
  BY <1>1
<1> HIDE DEF v
<1> QED
  BY <1>2, <1>4, <1>5 DEF Candle, Gathered, Derived

(* An aggregation reads the rows of its window. *)
LEMMA ReadRangeEffect ==
    ASSUME Base, NEW a \in Aggregators, ReadRange(a)
    PROVE  DerivedTypes' /\ AggregationMoves /\ BesideAggregation /\ used' \in Used
<1> DEFINE minutes == {m \in Minutes : InRange(m, agg[a].start, agg[a].end)}
           g == [IdleAgg EXCEPT !.pc = "existing", !.todo = Aggregated(minutes)]
<1>1. agg' = [agg EXCEPT ![a] = g] /\ BesideAggregation /\ UNCHANGED <<derived, used>>
  BY DEF ReadRange, BesideAggregation, ingestVars, backfillVars
<1>2. minutes \subseteq ClosedMinutes(row)
  BY DEF InRange, ClosedMinutes
<1>3. g.pc = "existing" /\ g.todo = Aggregated(minutes)
  BY DEF IdleAgg
<1> HIDE DEF g, minutes
<1>4. \A c \in g.todo : Candle(c) /\ Gathered(c)
  BY <1>2, <1>3, GatheredCandles
<1>5. Aggregation(g)
  BY <1>3, <1>4 DEF Aggregation, AggPc
<1>6. DerivedTypes' /\ AggregationMoves
  BY <1>1, <1>4, <1>5, AggregationSet
<1> QED
  BY <1>1, <1>6 DEF Base, StoreTypes

(* An aggregation keeps the candles that differ. *)
LEMMA ReadExistingEffect ==
    ASSUME Base, NEW a \in Aggregators, ReadExistingDerived(a)
    PROVE  DerivedTypes' /\ AggregationMoves /\ BesideAggregation /\ used' \in Used
<1> DEFINE rest == {c \in agg[a].todo : Outdated(c)}
           g == [IdleAgg EXCEPT !.pc = "write", !.todo = rest]
<1>1. agg' = [agg EXCEPT ![a] = g] /\ BesideAggregation /\ UNCHANGED <<derived, used>>
  BY DEF ReadExistingDerived, BesideAggregation, ingestVars, backfillVars
<1>2. g.pc = "write" /\ g.todo = rest
  BY DEF IdleAgg
<1>3. Aggregation(agg[a])
  BY DEF Base, DerivedTypes
<1>4. Aggregation(g) /\ \A c \in g.todo : c \in agg[a].todo
  <2> HIDE DEF g
  <2> QED
    BY <1>2, <1>3 DEF Aggregation, AggPc
<1> HIDE DEF g, rest
<1>5. DerivedTypes' /\ AggregationMoves
  BY <1>1, <1>4, AggregationSet
<1> QED
  BY <1>1, <1>5 DEF Base, StoreTypes

(* An aggregation writes one derived row. *)
LEMMA UpsertDerivedEffect ==
    ASSUME Base, NEW a \in Aggregators, UpsertDerived(a)
    PROVE  DerivedTypes' /\ AggregationMoves /\ BesideAggregation /\ used' \in Used
<1> DEFINE todo == agg[a].todo
           c == CHOOSE d \in todo : \A e \in todo : d.bucket <= e.bucket
           g == [IdleAgg EXCEPT !.pc = "write", !.todo = todo \ {c}]
<1>1. /\ todo # {} /\ derived' = [derived EXCEPT ![c.bucket] = c.value]
      /\ agg' = [agg EXCEPT ![a] = g] /\ BesideAggregation /\ UNCHANGED used
  BY DEF UpsertDerived, BesideAggregation, ingestVars, backfillVars
<1>2. g.pc = "write" /\ g.todo = todo \ {c}
  BY DEF IdleAgg
<1>3. Aggregation(agg[a])
  BY DEF Base, DerivedTypes
<1>4. c \in todo
  <2> DEFINE T == {d.bucket : d \in todo}
  <2>1. T \subseteq Nat /\ T # {}
    BY <1>1, <1>3, HorizonAssumption DEF Aggregation, Candle, Buckets
  <2>2. PICK x \in T : \A y \in T : x <= y
    BY <2>1, LeastNat
  <2>3. \E d \in todo : \A e \in todo : d.bucket <= e.bucket
    BY <2>2
  <2> QED
    BY <2>3
<1> HIDE DEF c, g
<1>5. Candle(c) /\ Aggregation(g) /\ \A d \in g.todo : d \in agg[a].todo
  BY <1>2, <1>3, <1>4 DEF Aggregation, AggPc
<1>6. /\ DOMAIN agg = Aggregators /\ \A d \in Aggregators : Aggregation(agg[d])
      /\ derived = [b \in Buckets |-> derived[b]]
      /\ \A b \in Buckets : derived[b] = NotDerived \/ derived[b] \in Derived(b)
  BY DEF Base, DerivedTypes
<1>7. /\ DOMAIN agg' = Aggregators
      /\ \A d \in Aggregators : agg'[d] = IF d = a THEN g ELSE agg[d]
  BY <1>1, <1>6
<1>8. /\ derived' = [b \in Buckets |-> derived'[b]]
      /\ \A b \in Buckets : derived'[b] = IF b = c.bucket THEN c.value ELSE derived[b]
  BY <1>1, <1>5, <1>6 DEF Candle
<1>9. DerivedTypes'
  <2>1. \A d \in Aggregators : Aggregation(agg[d])'
    BY <1>5, <1>6, <1>7 DEF Aggregation, Candle
  <2>2. \A b \in Buckets : derived'[b] = NotDerived \/ derived'[b] \in Derived(b)
    BY <1>5, <1>6, <1>8 DEF Candle
  <2> QED
    BY <1>7, <1>8, <2>1, <2>2 DEF DerivedTypes
<1>10. AggregationMoves
  BY <1>4, <1>5, <1>7, <1>8 DEF AggregationMoves
<1> QED
  BY <1>1, <1>9, <1>10 DEF Base, StoreTypes

\* A step of an aggregation.
AggregationStep == Worker \/ Operator \/ \E a \in Aggregators : FailAggregation(a)

(* Every step of an aggregation. *)
LEMMA AggregationEffect ==
    ASSUME Base, AggregationStep
    PROVE  DerivedTypes' /\ AggregationMoves /\ BesideAggregation /\ used' \in Used
<1>1. \/ ReadLatestSource \/ ReadLatestTarget \/ RequestAggregation
      \/ \E a \in Aggregators : FinishAggregation(a) \/ FailAggregation(a)
      \/ \E a \in Aggregators : ReadRange(a) \/ ReadExistingDerived(a) \/ UpsertDerived(a)
  BY DEF AggregationStep, Worker, Operator, Aggregate, Aggregators
<1> QED
  BY <1>1, WindowEffect, ReadRangeEffect, ReadExistingEffect, UpsertDerivedEffect

(* A minute passes. *)
LEMMA TickEffect ==
    ASSUME Base, Tick
    PROVE  /\ clock' = clock + 1 /\ clock \in Nat /\ clock' \in 0 .. Horizon
           /\ UNCHANGED <<row, derived, agg, used, closedAs, builder, accepted, finished,
                          job, run, hydrated, answers>>
  BY HorizonAssumption DEF Base, StoreTypes, Tick, ingestVars, backfillVars

\* The ends of a backfill.
EndBackfill == CompleteBackfill \/ AnnounceBackfill \/ FailBackfill \/ FailEmptyPage

(* The steps. *)
LEMMA StepCases ==
    ASSUME [Next]_vars
    PROVE  \/ Tick \/ RestartIngest \/ (\E m \in Minutes : HandleTrade(m))
           \/ InsertBackfillRun \/ FetchPage \/ ReadExistingRows \/ UpsertKline
           \/ UpdateProgress \/ EndBackfill \/ AggregationStep \/ UNCHANGED vars
  BY DEF Next, Ingest, Backfill, EndBackfill, AggregationStep

(* What each part of the types depends on. *)
LEMMA TypesKept ==
    /\ UNCHANGED <<clock, row, closedAs, used>> /\ StoreTypes => StoreTypes'
    /\ UNCHANGED <<clock, row, closedAs>> /\ StoreTypes /\ used' \in Used => StoreTypes'
    /\ UNCHANGED <<builder, accepted, finished>> /\ IngestTypes => IngestTypes'
    /\ UNCHANGED <<job, run, hydrated, answers>> /\ BackfillTypes => BackfillTypes'
    /\ UNCHANGED <<derived, agg>> /\ DerivedTypes => DerivedTypes'
<1>1. UNCHANGED <<clock, row, closedAs, used>> /\ StoreTypes => StoreTypes'
  BY DEF StoreTypes
<1>2. UNCHANGED <<clock, row, closedAs>> /\ StoreTypes /\ used' \in Used => StoreTypes'
  BY DEF StoreTypes
<1>3. UNCHANGED <<builder, accepted, finished>> /\ IngestTypes => IngestTypes'
  BY DEF IngestTypes
<1>4. UNCHANGED <<job, run, hydrated, answers>> /\ BackfillTypes => BackfillTypes'
  BY DEF BackfillTypes, answers
<1>5. UNCHANGED <<derived, agg>> /\ DerivedTypes => DerivedTypes'
  BY DEF DerivedTypes, Aggregation, Candle
<1> QED
  BY <1>1, <1>2, <1>3, <1>4, <1>5

(* The types hold at the start. *)
LEMMA BaseInit == Init => Base
<1> SUFFICES ASSUME Init PROVE Base
  OBVIOUS
<1>1. 0 \in 0 .. Horizon /\ 0 \in 0 .. 2 * Horizon /\ 0 \in 0 .. MaxTrades /\ {} \in Contents
  BY HorizonAssumption DEF Contents
<1>2. NoRow \in Row
  BY <1>1 DEF NoRow, Row
<1>3. StoreTypes
  BY <1>1, <1>2 DEF Init, StoreTypes, Used
<1>4. IngestTypes
  BY <1>1 DEF Init, IngestTypes, EmptyBuilder, Builder
<1>5. IdleJob \in JobRow /\ IdleJob.todo = {} /\ IdleJob.pc = "idle" /\ NoRun \in RunRow
  BY <1>1 DEF IdleJob, JobRow, NoRun, RunRow
<1>6. BackfillTypes
  BY <1>5 DEF Init, BackfillTypes
<1>7. Aggregation(IdleAgg)
  BY DEF IdleAgg, Aggregation, AggPc
<1>8. DerivedTypes
  BY <1>7 DEF Init, DerivedTypes
<1> QED
  BY <1>3, <1>4, <1>6, <1>8 DEF Base

(* Every step keeps the types. *)
LEMMA BaseStep ==
    ASSUME Base, [Next]_vars
    PROVE  Base'
<1>1. StoreTypes /\ IngestTypes /\ BackfillTypes /\ DerivedTypes
  BY DEF Base
<1>2. CASE Tick
  <2>1. StoreTypes'
    BY <1>1, <1>2, TickEffect DEF StoreTypes
  <2> QED
    BY <1>1, <1>2, <2>1, TickEffect, TypesKept DEF Base
<1>3. CASE RestartIngest
  BY <1>1, <1>3, RestartEffect, TypesKept DEF Base
<1>4. CASE \E m \in Minutes : HandleTrade(m)
  BY <1>1, <1>4, HandleEffect, TypesKept DEF Base
<1>5. CASE InsertBackfillRun
  BY <1>1, <1>5, InsertBackfillEffect, TypesKept DEF Base, BesideBackfill
<1>6. CASE FetchPage
  BY <1>1, <1>6, FetchEffect, TypesKept DEF Base, BesideBackfill, StoreAlone
<1>7. CASE ReadExistingRows
  BY <1>1, <1>7, ReadRowsEffect, TypesKept DEF Base, BesideBackfill, StoreAlone
<1>8. CASE UpsertKline
  BY <1>1, <1>8, UpsertEffect, TypesKept DEF Base, BesideBackfill
<1>9. CASE UpdateProgress
  BY <1>1, <1>9, ProgressEffect, TypesKept DEF Base, BesideBackfill, StoreAlone
<1>10. CASE EndBackfill
  BY <1>1, <1>10, EndBackfillEffect, TypesKept DEF Base, BesideBackfill, EndBackfill
<1>11. CASE AggregationStep
  BY <1>1, <1>11, AggregationEffect, TypesKept DEF Base, BesideAggregation
<1>12. CASE UNCHANGED vars
  BY <1>1, <1>12, TypesKept DEF Base, vars, ingestVars, backfillVars
<1> QED
  BY <1>2, <1>3, <1>4, <1>5, <1>6, <1>7, <1>8, <1>9, <1>10, <1>11, <1>12, StepCases

(* The types hold throughout. *)
LEMMA BaseHolds == Spec => []Base
<1>1. Init => Base
  BY BaseInit
<1>2. Base /\ [Next]_vars => Base'
  BY BaseStep
<1> QED
  BY <1>1, <1>2, PTL DEF Spec

(* The variables of the candle store, of its writers and of the backfill's  *)
(* row have their types in every reachable state.                           *)
THEOREM TypeCorrect == Spec => []TypeOK
<1>1. Base => TypeOK
  BY BaseTypes
<1> QED
  BY <1>1, BaseHolds, PTL

(***************************************************************************)
(* The backfill.                                                           *)
(***************************************************************************)

\* What the backfill knows, and what a COMPLETED one has done.
Filled == BackfillEvidence /\ BackfillCovers

(* Nothing is filled at the start. *)
LEMMA FilledInit == Init => Filled
<1> SUFFICES ASSUME Init PROVE Filled
  OBVIOUS
<1>1. job.pc = "idle" /\ job.batch = {} /\ run.status = "NONE"
  BY DEF Init, IdleJob, NoRun
<1> QED
  BY <1>1 DEF Filled, BackfillEvidence, BackfillCovers

(* A step of another process leaves the backfill where it is. *)
LEMMA FilledBeside ==
    ASSUME Base, Filled, UNCHANGED <<job, run, hydrated, answers>>, clock' \in Nat,
           clock <= clock'
    PROVE  Filled'
<1>1. clock \in Nat /\ job.batch \subseteq Nat
  BY BackfillParts DEF Base, StoreTypes, Minutes
<1>2. \A m \in job.batch : m < clock
  BY DEF Filled, BackfillEvidence
<1>3. \A m \in job.batch : m < clock'
  BY <1>1, <1>2
<1>4. BackfillEvidence'
  BY <1>3 DEF Filled, BackfillEvidence, answers
<1>5. BackfillCovers'
  BY DEF Filled, BackfillCovers, answers
<1> QED
  BY <1>4, <1>5 DEF Filled

(* A new run has nothing behind its cursor. *)
LEMMA FilledInsert ==
    ASSUME Base, Filled, InsertBackfillRun
    PROVE  Filled'
<1>1. /\ job'.pc = "fetch" /\ job'.batch = {} /\ run'.status = "RUNNING"
      /\ run'.start = job'.cursor /\ run'.end = job'.end /\ job'.cursor < job'.end
      /\ run'.fetched = 0 /\ run'.inserted = 0 /\ run'.updated = 0 /\ run'.skipped = 0
      /\ hydrated' = {} /\ asked' = {} /\ given' = {} /\ repeats' = 0 /\ BackfillTypes'
  BY InsertBackfillEffect
<1>2. job'.cursor \in Nat /\ job'.end \in Nat
  BY <1>1 DEF BackfillTypes, JobRow
<1>3. given' \ job'.batch = {} /\ hydrated' \ job'.batch = {} /\ Cardinality({}) = 0
  BY <1>1, FS_EmptySet
<1>4. asked' = run'.start .. job'.cursor - 1
  <2>1. \A m \in Int : ~(job'.cursor <= m /\ m <= job'.cursor - 1)
    BY <1>2
  <2>2. job'.cursor .. job'.cursor - 1 = {}
    BY <1>2, <2>1
  <2> QED
    BY <1>1, <2>2
<1>5. BackfillEvidence'
  BY <1>1, <1>2, <1>3, <1>4 DEF BackfillEvidence
<1> QED
  BY <1>1, <1>5 DEF Filled, BackfillCovers

\* What the invariant says of the pages behind the cursor and of the page at it.
Behind ==
    /\ run.status = "RUNNING" /\ run.end = job.end
    /\ run.start <= job.cursor /\ job.cursor <= job.end
    /\ \A m \in given \ job.batch : run.start <= m /\ m < job.cursor
    /\ given \ job.batch = hydrated \ job.batch
    /\ run.inserted + run.updated + run.skipped = Cardinality(given \ job.batch)
AtCursor ==
    /\ job.cursor < job.end
    /\ job.batch \subseteq given
    /\ \A m \in job.batch : job.cursor <= m /\ m < PageEnd(job.cursor, job.end)
    /\ asked = run.start .. PageEnd(job.cursor, job.end) - 1
    /\ run.fetched + job.rows = Cardinality(given) + repeats

(* The page that is fetched lies ahead of what is stored. *)
LEMMA FilledFetch ==
    ASSUME Base, Filled, FetchPage
    PROVE  Filled'
<1> DEFINE top == PageEnd(job.cursor, job.end)
<1>1. /\ job.pc = "fetch" /\ job.cursor < job.end /\ job'.pc = "read"
      /\ job'.cursor = job.cursor /\ job'.end = job.end
      /\ \A m \in job'.batch : job.cursor <= m /\ m < top /\ m < clock
      /\ given' = given \union job'.batch /\ asked' = asked \union (job.cursor .. top - 1)
      /\ clock' = clock /\ UNCHANGED <<run, hydrated>> /\ BackfillTypes'
  BY FetchEffect DEF BesideBackfill
<1>2. PICK repeated \in Nat : /\ repeats' = repeats + repeated
                              /\ job'.rows = Cardinality(job'.batch) + repeated
  BY FetchEffect
<1>3. /\ job.cursor \in Nat /\ job.end \in Nat /\ top \in Nat /\ job.cursor < top
      /\ run.start \in Nat /\ given \subseteq Minutes /\ job'.batch \subseteq Minutes
      /\ run.fetched \in Nat /\ repeats \in Nat
  <2>1. /\ job.cursor \in 0 .. Horizon /\ job.end \in 0 .. Horizon
        /\ run.start \in 0 .. Horizon /\ run.fetched \in Nat
    BY BackfillParts DEF Base
  <2>2. top \in 0 .. Horizon /\ job.cursor < top
    BY <1>1, <2>1, PageEndBounds
  <2> QED
    BY <1>1, <2>1, <2>2 DEF Base, BackfillTypes, JobRow
<1>4. /\ job.batch = {} /\ Behind
      /\ asked = run.start .. job.cursor - 1 /\ run.fetched = Cardinality(given) + repeats
  BY <1>1 DEF Filled, BackfillEvidence, Behind
<1>5. given \ {} = given /\ hydrated \ {} = hydrated
  OBVIOUS
<1>6. /\ \A m \in given : run.start <= m /\ m < job.cursor
      /\ given = hydrated /\ run.start <= job.cursor
      /\ run.inserted + run.updated + run.skipped = Cardinality(given)
  BY <1>4, <1>5 DEF Behind
<1> HIDE DEF top
<1>7. given \cap job'.batch = {}
  <2>1. \A m \in given : m \in Nat /\ m < job.cursor
    BY <1>3, <1>6 DEF Minutes
  <2>2. \A m \in given : ~(job.cursor <= m)
    BY <1>3, <2>1
  <2> QED
    BY <1>1, <2>2
<1>8. given' \ job'.batch = given /\ hydrated' \ job'.batch = hydrated
  BY <1>1, <1>6, <1>7
<1>9. Behind'
  BY <1>1, <1>4, <1>6, <1>8 DEF Behind
<1>10. asked' = run.start .. top - 1
  <2>1. (run.start .. job.cursor - 1) \union (job.cursor .. top - 1) = run.start .. top - 1
    BY <1>3, <1>6
  <2> QED
    BY <1>1, <1>4, <2>1
<1>11. run.fetched + job'.rows = Cardinality(given') + repeats'
  <2>1. Cardinality(given') = Cardinality(given) + Cardinality(job'.batch)
    BY <1>1, <1>3, <1>7, DisjointCount
  <2>2. Cardinality(given) \in Nat /\ Cardinality(job'.batch) \in Nat
    BY <1>3, MinutesFinite
  <2> QED
    BY <1>2, <1>3, <1>4, <2>1, <2>2
<1>12. AtCursor'
  BY <1>1, <1>10, <1>11 DEF AtCursor, top
<1>13. hydrated' \cap job'.batch = {}
  BY <1>1, <1>6, <1>7
<1>14. BackfillEvidence'
  BY <1>1, <1>9, <1>12, <1>13 DEF BackfillEvidence, Behind, AtCursor
<1> QED
  BY <1>9, <1>14 DEF Filled, BackfillCovers, Behind

(* The rows that match are stored already. *)
LEMMA FilledRead ==
    ASSUME Base, Filled, ReadExistingRows
    PROVE  Filled'
<1>1. /\ job.pc = "read" /\ job'.pc = "write" /\ job'.rows = job.rows
      /\ job'.cursor = job.cursor /\ job'.end = job.end /\ job'.batch = job.batch
      /\ job'.todo = job.batch \ Matching /\ hydrated' = hydrated \union Matching
      /\ Cardinality(job'.batch) = job'.inserted + job'.updated + job'.skipped
      /\ run' = run /\ clock' = clock
      /\ asked' = asked /\ given' = given /\ repeats' = repeats
  BY ReadRowsEffect DEF BesideBackfill, answers
<1>2. /\ (\A m \in job.batch : m < clock) /\ Behind /\ AtCursor
      /\ hydrated \cap job.batch = {}
  BY <1>1 DEF Filled, BackfillEvidence, Behind, AtCursor
<1>3. Matching \subseteq job.batch
  BY DEF Matching
<1>4. /\ hydrated' \ job'.batch = hydrated \ job.batch
      /\ hydrated' \cap job'.batch = job'.batch \ job'.todo
  BY <1>1, <1>2, <1>3
<1>5. Behind'
  BY <1>1, <1>2, <1>4 DEF Behind
<1>6. AtCursor'
  BY <1>1, <1>2 DEF AtCursor
<1>7. BackfillEvidence'
  BY <1>1, <1>2, <1>4, <1>5, <1>6 DEF BackfillEvidence, Behind, AtCursor
<1> QED
  BY <1>5, <1>7 DEF Filled, BackfillCovers, Behind

(* A kline of the batch is stored. *)
LEMMA FilledUpsert ==
    ASSUME Base, Filled, UpsertKline
    PROVE  Filled'
<1>1. /\ job.pc = "write" /\ job'.pc = "write" /\ job'.rows = job.rows
      /\ job'.cursor = job.cursor /\ job'.end = job.end /\ job'.batch = job.batch
      /\ job'.inserted = job.inserted /\ job'.updated = job.updated
      /\ job'.skipped = job.skipped /\ run' = run /\ clock' = clock
      /\ asked' = asked /\ given' = given /\ repeats' = repeats
      /\ \E m \in job.todo :
            job'.todo = job.todo \ {m} /\ hydrated' = hydrated \union {m}
  BY UpsertEffect DEF BesideBackfill, answers
<1>2. PICK m \in job.todo : job'.todo = job.todo \ {m} /\ hydrated' = hydrated \union {m}
  BY <1>1
<1>3. /\ (\A k \in job.batch : k < clock) /\ Behind /\ AtCursor
      /\ hydrated \cap job.batch = job.batch \ job.todo
      /\ Cardinality(job.batch) = job.inserted + job.updated + job.skipped
  BY <1>1 DEF Filled, BackfillEvidence, Behind, AtCursor
<1>4. m \in job.batch
  BY DEF Base, BackfillTypes
<1>5. /\ hydrated' \ job'.batch = hydrated \ job.batch
      /\ hydrated' \cap job'.batch = job'.batch \ job'.todo
  BY <1>1, <1>2, <1>3, <1>4
<1>6. Behind'
  BY <1>1, <1>3, <1>5 DEF Behind
<1>7. AtCursor'
  BY <1>1, <1>3 DEF AtCursor
<1>8. BackfillEvidence'
  BY <1>1, <1>3, <1>5, <1>6, <1>7 DEF BackfillEvidence, Behind, AtCursor
<1> QED
  BY <1>6, <1>8 DEF Filled, BackfillCovers, Behind

(* A page that is written lies behind the next cursor. *)
LEMMA FilledProgress ==
    ASSUME Base, Filled, UpdateProgress
    PROVE  Filled'
<1> DEFINE top == PageEnd(job.cursor, job.end)
           n == Cardinality(job.batch)
           before == Cardinality(given \ job.batch)
<1>1. /\ job.pc = "write" /\ job.todo = {} /\ job'.pc = "fetch"
      /\ job'.batch = {} /\ job'.end = job.end /\ job'.cursor = top
      /\ run'.status = run.status /\ run'.start = run.start /\ run'.end = run.end
      /\ run'.fetched = run.fetched + job.rows
      /\ run'.inserted = run.inserted + job.inserted
      /\ run'.updated = run.updated + job.updated
      /\ run'.skipped = run.skipped + job.skipped
      /\ hydrated' = hydrated /\ asked' = asked /\ given' = given /\ repeats' = repeats
  BY ProgressEffect DEF answers
<1>2. /\ Behind /\ AtCursor /\ hydrated \cap job.batch = job.batch \ job.todo
      /\ n = job.inserted + job.updated + job.skipped
  BY <1>1 DEF Filled, BackfillEvidence, Behind, AtCursor
<1>3. /\ job.cursor \in Nat /\ job.end \in Nat /\ run.start \in Nat
      /\ job.inserted \in Nat /\ job.updated \in Nat /\ job.skipped \in Nat
      /\ run.inserted \in Nat /\ run.updated \in Nat /\ run.skipped \in Nat
      /\ given \subseteq Minutes /\ job.batch \subseteq Minutes
  BY BackfillParts DEF Base, BackfillTypes
<1>4. top \in Nat /\ top <= job.end /\ job.cursor < top
  <2>1. job.cursor \in 0 .. Horizon /\ job.end \in 0 .. Horizon /\ job.cursor < job.end
    BY <1>2, BackfillParts DEF Base, AtCursor
  <2>2. top \in 0 .. Horizon /\ top <= job.end /\ job.cursor < top
    BY <2>1, PageEndBounds
  <2> QED
    BY <2>2
<1>5. /\ job.batch \subseteq given /\ given = hydrated
      /\ asked = run.start .. top - 1 /\ run.fetched + job.rows = Cardinality(given) + repeats
  BY <1>1, <1>2 DEF AtCursor, Behind
<1>6. Cardinality(given) = before + n /\ before \in Nat /\ n \in Nat
  <2>1. (given \ job.batch) \subseteq Minutes /\ (given \ job.batch) \cap job.batch = {}
    BY <1>3
  <2>2. given = (given \ job.batch) \cup job.batch
    BY <1>5
  <2>3. Cardinality((given \ job.batch) \cup job.batch) = before + n
    BY <1>3, <2>1, DisjointCount
  <2> QED
    BY <1>3, <2>1, <2>2, <2>3, MinutesFinite
<1> HIDE DEF top, n, before
<1>7. given' \ job'.batch = given /\ hydrated' \ job'.batch = hydrated
  BY <1>1
<1>8. run'.inserted + run'.updated + run'.skipped = Cardinality(given)
  <2>1. run.inserted + run.updated + run.skipped = before
    BY <1>2 DEF Behind, before
  <2> QED
    BY <1>1, <1>2, <1>3, <1>6, <2>1
<1>9. \A m \in given : run.start <= m /\ m < top
  <2>1. \A m \in given \ job.batch : run.start <= m /\ m < job.cursor
    BY <1>2 DEF Behind
  <2>2. \A m \in job.batch : job.cursor <= m /\ m < top
    BY <1>2 DEF AtCursor, top
  <2>3. run.start <= job.cursor
    BY <1>2 DEF Behind
  <2> QED
    BY <1>3, <1>4, <2>1, <2>2, <2>3 DEF Minutes
<1>10. /\ run'.status = "RUNNING" /\ run'.end = job'.end
       /\ run'.start <= job'.cursor /\ job'.cursor <= job'.end
  BY <1>1, <1>2, <1>3, <1>4 DEF Behind
<1>11. BackfillEvidence'
  BY <1>1, <1>5, <1>7, <1>8, <1>9, <1>10 DEF BackfillEvidence
<1> QED
  BY <1>10, <1>11 DEF Filled, BackfillCovers

(* A backfill that completes has the whole window behind its cursor. *)
LEMMA FilledEnd ==
    ASSUME Base, Filled, EndBackfill
    PROVE  Filled'
<1>1. /\ job'.pc \in {"idle", "announce"} /\ job'.batch = {}
      /\ run'.start = run.start /\ run'.end = run.end
      /\ run'.fetched = run.fetched /\ run'.inserted = run.inserted
      /\ run'.updated = run.updated /\ run'.skipped = run.skipped
      /\ hydrated' = hydrated /\ asked' = asked /\ given' = given /\ repeats' = repeats
      /\ \/ run'.status = run.status
         \/ run'.status = "FAILED"
         \/ job.pc = "fetch" /\ job.cursor >= job.end
  BY EndBackfillEffect DEF EndBackfill, EndedBackfill, answers
<1>2. BackfillEvidence'
  BY <1>1 DEF Filled, BackfillEvidence
<1>3. CASE run'.status = run.status
  BY <1>1, <1>2, <1>3 DEF Filled, BackfillCovers
<1>4. CASE run'.status = "FAILED"
  BY <1>2, <1>4 DEF Filled, BackfillCovers
<1>5. CASE job.pc = "fetch" /\ job.cursor >= job.end
  <2>1. /\ Behind /\ job.batch = {} /\ asked = run.start .. job.cursor - 1
        /\ run.fetched = Cardinality(given) + repeats
    BY <1>5 DEF Filled, BackfillEvidence, Behind
  <2>2. job.cursor \in Nat /\ job.end \in Nat
    BY BackfillParts DEF Base
  <2>3. given \ job.batch = given /\ hydrated \ job.batch = hydrated
    BY <2>1
  <2>4. job.cursor = job.end /\ run.end = job.end
    BY <1>5, <2>1, <2>2 DEF Behind
  <2>5. /\ hydrated = given
        /\ run.inserted + run.updated + run.skipped = Cardinality(given)
    BY <2>1, <2>3 DEF Behind
  <2>6. BackfillCovers'
    BY <1>1, <2>1, <2>4, <2>5 DEF BackfillCovers
  <2> QED
    BY <1>2, <2>6 DEF Filled
<1> QED
  BY <1>1, <1>3, <1>4, <1>5

(* Every step keeps what the backfill knows. *)
LEMMA FilledStep ==
    ASSUME Base, Base', Filled, [Next]_vars
    PROVE  Filled'
<1>1. clock \in Nat /\ clock' \in Nat
  BY DEF Base, StoreTypes
<1>2. CASE Tick
  BY <1>1, <1>2, TickEffect, FilledBeside
<1>3. CASE RestartIngest
  BY <1>1, <1>3, RestartEffect, FilledBeside
<1>4. CASE \E m \in Minutes : HandleTrade(m)
  BY <1>1, <1>4, HandleEffect, FilledBeside
<1>5. CASE AggregationStep
  BY <1>1, <1>5, AggregationEffect, FilledBeside DEF BesideAggregation
<1>6. CASE UNCHANGED vars
  BY <1>1, <1>6, FilledBeside DEF vars, backfillVars
<1> QED
  BY <1>2, <1>3, <1>4, <1>5, <1>6, StepCases, FilledInsert, FilledFetch, FilledRead,
     FilledUpsert, FilledProgress, FilledEnd

(* What the backfill knows holds throughout. *)
LEMMA FilledHolds == Spec => []Filled
<1>1. Init => Filled
  BY FilledInit
<1>2. Base /\ Base' /\ Filled /\ [Next]_vars => Filled'
  BY FilledStep
<1> QED
  BY <1>1, <1>2, BaseHolds, PTL DEF Spec

(* A COMPLETED backfill has seen the kline stored for every minute of its   *)
(* window that was over when it began, whatever the pages, the crashes and  *)
(* the writes of the ingest in between, and its counters account for each   *)
(* candle once.                                                             *)
THEOREM BackfillComplete == Spec => []BackfillCovers
<1>1. Filled => BackfillCovers
  BY DEF Filled
<1> QED
  BY <1>1, FilledHolds, PTL

(***************************************************************************)
(* Closed candles.                                                         *)
(***************************************************************************)

\* A closed row: its minute is over, and its contents are remembered.
RowsOver ==
    \A m \in Minutes : row[m].state = "closed" => m < clock /\ row[m].trades \in closedAs[m]

\* What the ingest knows of its active minute and of the ones it closed.
BuilderKnows ==
    /\ builder.minute = NoMinute
          => finished = {} /\ \A m \in Minutes : accepted[m] = {}
    /\ builder.minute # NoMinute
          => /\ builder.minute <= clock
             /\ builder.trades = accepted[builder.minute]
             /\ \A m \in Minutes : m > builder.minute => accepted[m] = {}
             /\ \A m \in finished : m < builder.minute

\* Contents of a bucket's minutes, each of which was closed with them.
Over(b, value) == \A m \in Members(b) : m < clock /\ value[m] \in closedAs[m]

\* The derived candles, stored or still to be written.
DerivedOver ==
    /\ \A b \in Buckets : derived[b] # NotDerived => Over(b, derived[b])
    /\ \A a \in Aggregators : \A c \in agg[a].todo : Over(c.bucket, c.value)

Closing == RowsOver /\ BuilderKnows /\ DerivedOver /\ FinishedKept

(* The parts are those of the inductive invariant of the model. *)
LEMMA ClosingParts ==
    ASSUME Base, Closing
    PROVE  IngestEvidence /\ AggregateEvidence /\ DerivedFromClosed
<1>1. IngestEvidence
  BY DEF Closing, RowsOver, BuilderKnows, IngestEvidence
<1>2. AggregateEvidence
  <2>1. \A a \in Aggregators : \A c \in agg[a].todo : Candle(c) /\ Over(c.bucket, c.value)
    BY DEF Base, DerivedTypes, Aggregation, Closing, DerivedOver
  <2> QED
    BY <2>1 DEF AggregateEvidence, FromClosed, Candle, Over
<1>3. DerivedFromClosed
  BY DEF Closing, RowsOver, DerivedOver, Over, DerivedFromClosed, DerivedBuckets
<1> QED
  BY <1>1, <1>2, <1>3

(* The minutes of a bucket are numbers. *)
LEMMA MembersNat ==
    ASSUME NEW b \in Buckets
    PROVE  Members(b) \subseteq Nat
<1>1. b \in Nat /\ BucketSize \in Nat
  BY HorizonAssumption DEF Buckets
<1>2. b * BucketSize \in Nat /\ (b + 1) * BucketSize \in Nat
  BY <1>1
<1> QED
  BY <1>2 DEF Members

(* What is over stays over. *)
LEMMA OverKept ==
    ASSUME Base, clock' \in Nat, clock <= clock',
           \A m \in Minutes : closedAs[m] \subseteq closedAs'[m],
           NEW b \in Buckets, NEW value, Over(b, value)
    PROVE  \A m \in Members(b) : m < clock' /\ value[m] \in closedAs'[m]
<1> SUFFICES ASSUME NEW m \in Members(b)
             PROVE  m < clock' /\ value[m] \in closedAs'[m]
  OBVIOUS
<1>1. m \in Nat /\ m < clock /\ value[m] \in closedAs[m] /\ clock \in 0 .. Horizon
  BY MembersNat DEF Over, Base, StoreTypes
<1>2. m \in Minutes
  BY <1>1, HorizonAssumption DEF Minutes
<1> QED
  BY <1>1, <1>2

(* A step that does not derive keeps the derived candles. *)
LEMMA DerivedKept ==
    ASSUME Base, DerivedOver, UNCHANGED <<derived, agg>>, clock' \in Nat, clock <= clock',
           \A m \in Minutes : closedAs[m] \subseteq closedAs'[m]
    PROVE  DerivedOver'
<1>1. \A b \in Buckets : derived[b] # NotDerived =>
        \A m \in Members(b) : m < clock' /\ derived[b][m] \in closedAs'[m]
  BY OverKept DEF DerivedOver
<1>2. \A a \in Aggregators : \A c \in agg[a].todo :
        \A m \in Members(c.bucket) : m < clock' /\ c.value[m] \in closedAs'[m]
  <2> SUFFICES ASSUME NEW a \in Aggregators, NEW c \in agg[a].todo
               PROVE  \A m \in Members(c.bucket) : m < clock' /\ c.value[m] \in closedAs'[m]
    OBVIOUS
  <2>1. c.bucket \in Buckets
    BY DEF Base, DerivedTypes, Aggregation, Candle
  <2>2. Over(c.bucket, c.value)
    BY DEF DerivedOver
  <2> QED
    BY <2>1, <2>2, OverKept
<1> QED
  BY <1>1, <1>2 DEF DerivedOver, Over

(* A step that leaves the rows and the ingest alone. *)
LEMMA IngestBeside ==
    ASSUME Base, RowsOver, BuilderKnows, FinishedKept, clock' \in Nat, clock <= clock',
           UNCHANGED <<row, closedAs, builder, accepted, finished>>
    PROVE  RowsOver' /\ BuilderKnows' /\ FinishedKept'
<1>1. clock \in Nat /\ builder.minute \in Minutes \union {NoMinute}
  BY DEF Base, StoreTypes, IngestTypes, Builder
<1>2. RowsOver'
  <2>1. \A m \in Minutes : m < clock => m < clock'
    BY <1>1 DEF Minutes
  <2> QED
    BY <2>1 DEF RowsOver
<1>3. builder.minute <= clock => builder.minute <= clock'
  BY <1>1 DEF Minutes, NoMinute
<1>4. BuilderKnows'
  BY <1>3 DEF BuilderKnows
<1>5. FinishedKept'
  BY DEF FinishedKept
<1> QED
  BY <1>2, <1>4, <1>5

(* The trades of a builder. *)
LEMMA TakenKnows ==
    ASSUME Base, BuilderKnows, NEW m \in Minutes, m <= clock, InOrder(builder, m), Taken(m)
    PROVE  /\ builder'.minute = m /\ m # NoMinute /\ builder'.trades = accepted'[m]
           /\ \A k \in Minutes : k > m => accepted'[k] = {}
           /\ \A k \in Minutes : k # m => accepted'[k] = accepted[k]
           /\ \A k \in finished : k \in Minutes /\ k < m
<1> DEFINE t == used.trades + 1
<1>1. /\ accepted \in [Minutes -> Contents] /\ finished \subseteq Minutes
      /\ builder.minute \in Minutes \union {NoMinute}
  BY DEF Base, IngestTypes, Builder
<1>2. /\ builder'.minute = m
      /\ builder'.trades = IF builder.minute = m THEN builder.trades \union {t} ELSE {t}
      /\ accepted' = [accepted EXCEPT ![m] = accepted[m] \union {t}]
  BY DEF Taken
<1> HIDE DEF t
<1>3. /\ \A k \in Minutes : k # m => accepted'[k] = accepted[k]
      /\ accepted'[m] = accepted[m] \union {t}
  BY <1>1, <1>2
<1>4. m # NoMinute
  BY DEF Minutes, NoMinute
<1>5. CASE builder.minute = NoMinute
  <2>1. finished = {} /\ \A k \in Minutes : accepted[k] = {}
    BY <1>5 DEF BuilderKnows
  <2>2. builder'.trades = accepted'[m]
    BY <1>2, <1>3, <1>4, <1>5, <2>1
  <2>3. \A k \in Minutes : k > m => accepted'[k] = {}
    BY <1>3, <2>1 DEF Minutes
  <2> QED
    BY <1>2, <1>3, <1>4, <2>1, <2>2, <2>3
<1>6. CASE builder.minute # NoMinute
  <2>1. /\ builder.minute \in Minutes /\ builder.minute <= m
        /\ builder.trades = accepted[builder.minute]
        /\ \A k \in Minutes : k > builder.minute => accepted[k] = {}
        /\ \A k \in finished : k < builder.minute
    BY <1>1, <1>6 DEF BuilderKnows, InOrder, Minutes
  <2>2. builder.minute # m => accepted[m] = {}
    BY <2>1 DEF Minutes
  <2>3. builder'.trades = accepted'[m]
    BY <1>2, <1>3, <2>1, <2>2
  <2>4. \A k \in Minutes : k > m => accepted'[k] = {}
    BY <1>3, <2>1 DEF Minutes
  <2>5. \A k \in finished : k \in Minutes /\ k < m
    BY <1>1, <2>1 DEF Minutes
  <2> QED
    BY <1>2, <1>3, <1>4, <2>3, <2>4, <2>5
<1> QED
  BY <1>5, <1>6

(* A trade keeps what the ingest closed. *)
LEMMA ClosingTrade ==
    ASSUME Base, Closing, NEW m \in Minutes, HandleTrade(m)
    PROVE  RowsOver' /\ BuilderKnows' /\ FinishedKept'
<1>1. /\ m <= clock /\ InOrder(builder, m) /\ Taken(m) /\ clock' = clock
      /\ Written(m) \/ UNCHANGED <<row, closedAs, finished>>
  BY HandleEffect
<1>2. RowsOver /\ BuilderKnows /\ FinishedKept
  BY DEF Closing
<1>3. /\ builder'.minute = m /\ m # NoMinute /\ builder'.trades = accepted'[m]
      /\ \A k \in Minutes : k > m => accepted'[k] = {}
      /\ \A k \in Minutes : k # m => accepted'[k] = accepted[k]
      /\ \A k \in finished : k \in Minutes /\ k < m
  BY <1>1, <1>2, TakenKnows
<1>4. /\ clock \in Nat /\ builder.minute \in Minutes \union {NoMinute}
      /\ builder.trades \in Contents /\ row \in [Minutes -> Row]
  BY DEF Base, StoreTypes, IngestTypes, Builder
<1>5. \A k \in finished : accepted'[k] = accepted[k]
  <2>1. \A k \in finished : k # m
    BY <1>3 DEF Minutes
  <2> QED
    BY <1>3, <2>1
<1>6. CASE UNCHANGED <<row, closedAs, finished>>
  <2>1. RowsOver'
    BY <1>1, <1>2, <1>6 DEF RowsOver
  <2>2. BuilderKnows'
    BY <1>1, <1>3, <1>6 DEF BuilderKnows
  <2>3. FinishedKept'
    BY <1>2, <1>5, <1>6 DEF FinishedKept
  <2> QED
    BY <2>1, <2>2, <2>3
<1>7. CASE Written(m)
  <2>1. Closes(builder, m) =>
          /\ builder.minute \in Minutes /\ builder.minute < m /\ builder.minute # m
          /\ builder.minute < clock /\ builder.trades = accepted[builder.minute]
          /\ \A k \in finished : k # builder.minute
    <3>1. SUFFICES ASSUME Closes(builder, m)
                   PROVE  /\ builder.minute \in Minutes /\ builder.minute < m
                          /\ builder.minute # m /\ builder.minute < clock
                          /\ builder.trades = accepted[builder.minute]
                          /\ \A k \in finished : k # builder.minute
      OBVIOUS
    <3>2. /\ builder.minute # NoMinute /\ m > builder.minute
          /\ builder.minute \in Minutes
      BY <1>4, <3>1 DEF Closes
    <3>3. /\ builder.trades = accepted[builder.minute]
          /\ \A k \in finished : k < builder.minute
      BY <1>2, <3>2 DEF BuilderKnows
    <3>4. \A k \in finished : k # builder.minute
      BY <1>3, <3>2, <3>3 DEF Minutes
    <3> QED
      BY <1>1, <1>4, <3>2, <3>3, <3>4 DEF Minutes
  <2>2. /\ \A k \in Minutes : k # m /\ ~(Closes(builder, m) /\ k = builder.minute)
                                 => row'[k] = row[k]
        /\ row'[m].state = "open"
        /\ Closes(builder, m) => /\ row'[builder.minute].state = "closed"
                                 /\ row'[builder.minute].trades = builder.trades
    <3>1. row'[m] = Live(m, builder'.trades, "open")
      BY <1>7 DEF Written
    <3>2. row'[m].state = "open"
      BY <3>1 DEF Live
    <3>3. Closes(builder, m) =>
            row'[builder.minute] = Live(builder.minute, builder.trades, "closed")
      BY <1>7, <2>1 DEF Written
    <3>4. Closes(builder, m) => /\ row'[builder.minute].state = "closed"
                                /\ row'[builder.minute].trades = builder.trades
      BY <3>3 DEF Live
    <3>5. \A k \in Minutes : k # m /\ ~(Closes(builder, m) /\ k = builder.minute)
                                => row'[k] = row[k]
      BY <1>7 DEF Written
    <3> QED
      BY <3>2, <3>4, <3>5
  <2>3. RowsOver'
    <3>1. \A k \in Minutes : row'[k].state = "closed" => row'[k].trades \in closedAs'[k]
      BY <1>7 DEF Written
    <3>2. \A k \in Minutes : row'[k].state = "closed" => k < clock
      BY <1>2, <2>1, <2>2 DEF RowsOver
    <3> QED
      BY <1>1, <3>1, <3>2 DEF RowsOver
  <2>4. finished' = IF Closes(builder, m) THEN finished \union {builder.minute} ELSE finished
    BY <1>7 DEF Written
  <2>5. BuilderKnows'
    <3>1. \A k \in finished' : k < m
      BY <1>3, <2>1, <2>4
    <3> QED
      BY <1>1, <1>3, <3>1 DEF BuilderKnows
  <2>6. FinishedKept'
    <3>1. ASSUME NEW k \in finished'
          PROVE  row'[k].state = "closed" /\ row'[k].trades \in {accepted'[k], {Kline}}
      <4>1. CASE Closes(builder, m) /\ k = builder.minute
        BY <1>3, <2>1, <2>2, <4>1
      <4>2. CASE ~(Closes(builder, m) /\ k = builder.minute)
        <5>1. k \in finished
          BY <2>4, <4>2
        <5>2. k \in Minutes /\ k # m
          BY <1>3, <5>1 DEF Minutes
        <5>3. row'[k] = row[k]
          BY <2>2, <4>2, <5>2
        <5> QED
          BY <1>2, <1>5, <5>1, <5>3 DEF FinishedKept
      <4> QED
        BY <4>1, <4>2
    <3> QED
      BY <3>1 DEF FinishedKept
  <2> QED
    BY <2>3, <2>5, <2>6
<1> QED
  BY <1>1, <1>6, <1>7

(* A kline is stored of a minute that is over. *)
LEMMA ClosingUpsert ==
    ASSUME Base, Filled, Closing, UpsertKline
    PROVE  RowsOver' /\ BuilderKnows' /\ FinishedKept'
<1>1. /\ UNCHANGED <<clock, builder, accepted, finished>>
      /\ \E m \in job.todo : row' = [row EXCEPT ![m] = KlineOf(m)]
      /\ \A k \in Minutes : row'[k].state = "closed" => row'[k].trades \in closedAs'[k]
  BY UpsertEffect DEF BesideBackfill
<1>2. PICK m \in job.todo : row' = [row EXCEPT ![m] = KlineOf(m)]
  BY <1>1
<1>3. m \in job.batch /\ m \in Minutes
  BY BackfillParts DEF Base
<1>4. m < clock
  BY <1>3 DEF Filled, BackfillEvidence
<1>5. /\ \A k \in Minutes : k # m => row'[k] = row[k]
      /\ row'[m] = KlineOf(m)
  BY <1>2, <1>3 DEF Base, StoreTypes
<1>6. KlineOf(m).state = "closed" /\ KlineOf(m).trades = {Kline}
  BY <1>3, RowsTyped
<1>7. RowsOver'
  BY <1>1, <1>4, <1>5 DEF Closing, RowsOver
<1>8. BuilderKnows'
  BY <1>1 DEF Closing, BuilderKnows
<1>9. FinishedKept'
  <2>1. finished \subseteq Minutes
    BY DEF Base, IngestTypes
  <2> QED
    BY <1>1, <1>5, <1>6, <2>1 DEF Closing, FinishedKept
<1> QED
  BY <1>7, <1>8, <1>9

(* What an aggregation gathers or writes is over. *)
LEMMA ClosingDerives ==
    ASSUME Base, Closing, AggregationMoves, BesideAggregation
    PROVE  DerivedOver'
<1>1. /\ clock' = clock /\ closedAs' = closedAs
      /\ RowsOver /\ DerivedOver
  BY DEF BesideAggregation, Closing
<1>2. \A c : Gathered(c) => Over(c.bucket, c.value)
  BY <1>1 DEF Gathered, Over, RowsOver
<1>3. \A a \in Aggregators : \A c \in agg'[a].todo : Over(c.bucket, c.value)
  BY <1>1, <1>2 DEF AggregationMoves, DerivedOver
<1>4. \A b \in Buckets : derived'[b] # NotDerived => Over(b, derived'[b])
  BY <1>1 DEF AggregationMoves, DerivedOver
<1> QED
  BY <1>1, <1>3, <1>4 DEF DerivedOver, Over

(* Nothing is closed at the start. *)
LEMMA ClosingInit == Init => Closing
<1> SUFFICES ASSUME Init PROVE Closing
  OBVIOUS
<1>1. \A m \in Minutes : row[m].state = "none"
  BY DEF Init, NoRow
<1>2. RowsOver
  BY <1>1 DEF RowsOver
<1>3. builder.minute = NoMinute /\ finished = {} /\ \A m \in Minutes : accepted[m] = {}
  BY DEF Init, EmptyBuilder
<1>4. BuilderKnows /\ FinishedKept
  BY <1>3 DEF BuilderKnows, FinishedKept
<1>5. /\ \A b \in Buckets : derived[b] = NotDerived
      /\ \A a \in Aggregators : agg[a].todo = {}
  BY DEF Init, IdleAgg
<1>6. DerivedOver
  BY <1>5 DEF DerivedOver
<1> QED
  BY <1>2, <1>4, <1>6 DEF Closing

(* Every step keeps the closed candles. *)
LEMMA ClosingStep ==
    ASSUME Base, Base', Filled, Closing, [Next]_vars
    PROVE  Closing'
<1>1. clock \in Nat /\ clock' \in Nat
  BY DEF Base, StoreTypes
<1>2. RowsOver /\ BuilderKnows /\ DerivedOver /\ FinishedKept
  BY DEF Closing
\* A step that writes no row and is not one of the ingest.
<1>3. ASSUME clock <= clock', UNCHANGED <<row, closedAs, builder, accepted, finished>>
      PROVE  RowsOver' /\ BuilderKnows' /\ FinishedKept'
  BY <1>1, <1>2, <1>3, IngestBeside
<1>4. ASSUME clock <= clock', UNCHANGED <<row, closedAs, builder, accepted, finished>>,
             UNCHANGED <<derived, agg>>
      PROVE  Closing'
  <2>1. DerivedOver'
    BY <1>1, <1>2, <1>4, DerivedKept
  <2> QED
    BY <1>3, <1>4, <2>1 DEF Closing
<1>5. CASE Tick
  BY <1>1, <1>4, <1>5, TickEffect
<1>6. CASE RestartIngest
  <2>1. /\ builder'.minute = NoMinute /\ finished' = {}
        /\ \A m \in Minutes : accepted'[m] = {}
        /\ UNCHANGED <<clock, row, derived, agg, closedAs>>
    BY <1>6, RestartEffect
  <2>2. BuilderKnows' /\ FinishedKept'
    BY <2>1 DEF BuilderKnows, FinishedKept
  <2>3. RowsOver'
    BY <1>2, <2>1 DEF RowsOver
  <2>4. DerivedOver'
    BY <1>1, <1>2, <2>1, DerivedKept
  <2> QED
    BY <2>2, <2>3, <2>4 DEF Closing
<1>7. CASE \E m \in Minutes : HandleTrade(m)
  <2>1. PICK m \in Minutes : HandleTrade(m)
    BY <1>7
  <2>2. /\ UNCHANGED <<clock, derived, agg>>
        /\ Written(m) \/ UNCHANGED <<row, closedAs, finished>>
    BY <2>1, HandleEffect
  <2>3. \A k \in Minutes : closedAs[k] \subseteq closedAs'[k]
    BY <2>2 DEF Written
  <2>4. DerivedOver'
    BY <1>1, <1>2, <2>2, <2>3, DerivedKept
  <2> QED
    BY <2>1, <2>4, ClosingTrade DEF Closing
<1>8. CASE InsertBackfillRun
  BY <1>1, <1>4, <1>8, InsertBackfillEffect DEF BesideBackfill
<1>9. CASE FetchPage
  BY <1>1, <1>4, <1>9, FetchEffect DEF BesideBackfill, StoreAlone
<1>10. CASE ReadExistingRows
  BY <1>1, <1>4, <1>10, ReadRowsEffect DEF BesideBackfill, StoreAlone
<1>11. CASE UpsertKline
  <2>1. /\ UNCHANGED <<clock, derived, agg>>
        /\ \A k \in Minutes : closedAs[k] \subseteq closedAs'[k]
    BY <1>11, UpsertEffect DEF BesideBackfill
  <2>2. DerivedOver'
    BY <1>1, <1>2, <2>1, DerivedKept
  <2> QED
    BY <1>11, <2>2, ClosingUpsert DEF Closing
<1>12. CASE UpdateProgress
  BY <1>1, <1>4, <1>12, ProgressEffect DEF BesideBackfill, StoreAlone
<1>13. CASE EndBackfill
  BY <1>1, <1>4, <1>13, EndBackfillEffect DEF BesideBackfill, EndBackfill
<1>14. CASE AggregationStep
  <2>1. AggregationMoves /\ BesideAggregation
    BY <1>14, AggregationEffect
  <2>2. DerivedOver'
    BY <2>1, ClosingDerives
  <2>3. clock' = clock /\ UNCHANGED <<row, closedAs, builder, accepted, finished>>
    BY <2>1 DEF BesideAggregation
  <2> QED
    BY <1>1, <1>3, <2>2, <2>3 DEF Closing
<1>15. CASE UNCHANGED vars
  BY <1>1, <1>4, <1>15 DEF vars, ingestVars
<1> QED
  BY <1>5, <1>6, <1>7, <1>8, <1>9, <1>10, <1>11, <1>12, <1>13, <1>14, <1>15, StepCases

(* The closed candles are as claimed throughout. *)
LEMMA ClosingHolds == Spec => []Closing
<1>1. Init => Closing
  BY ClosingInit
<1>2. Base /\ Base' /\ Filled /\ Closing /\ [Next]_vars => Closing'
  BY ClosingStep
<1> QED
  BY <1>1, <1>2, BaseHolds, FilledHolds, PTL DEF Spec

(* A minute the ingest has closed stays closed until the ingest restarts    *)
(* and holds every trade its builder took for it, or the exchange's kline,  *)
(* however the backfill's writes and the ingest's failed ones interleave.   *)
THEOREM FinishedStays == Spec => []FinishedKept
<1>1. Closing => FinishedKept
  BY DEF Closing
<1> QED
  BY <1>1, ClosingHolds, PTL

(* A candle is marked closed only when its minute is over, and a derived    *)
(* candle holds, for each of its minutes, contents that minute was closed   *)
(* with, although an aggregation writes what it read some time before.      *)
THEOREM DerivedClosed == Spec => []DerivedFromClosed
<1>1. Base /\ Closing => DerivedFromClosed
  BY ClosingParts
<1> QED
  BY <1>1, BaseHolds, ClosingHolds, PTL
=============================================================================
