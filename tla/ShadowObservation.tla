------------------------- MODULE ShadowObservation -------------------------
(***************************************************************************)
(* The testnet shadow runner and what shares its tables: scheduled ticks,  *)
(* RUN_ONCE, START, STOP, PAUSE and RESUME, direct shadow runs, and the    *)
(* observe-once requests of promoted research candidates.  A shadow run    *)
(* evaluates a strategy on the last closed candle and records what it      *)
(* would have submitted; it never submits.  Every job awaits between its   *)
(* statements, and the runner's single state row is written back from the  *)
(* snapshot a job read when it began.                                      *)
(*                                                                         *)
(* A key is a strategy on a symbol in one timeframe.  A candle is the      *)
(* number of its open time, 0 is none.  A kind is the side and the reason  *)
(* of a signal: which one a strategy finds on a candle depends on its      *)
(* parameters, which operators change.  The clock counts the moments that  *)
(* code compares; the moment at which a run began is also the id of its    *)
(* row, of the signal it generates and of its risk decision.               *)
(***************************************************************************)
EXTENDS Integers, Sequences, FiniteSets, FiniteSetsExt

CONSTANTS
    Keys,           \* strategy, symbol and timeframe
    Strategies,
    StrategyOf,     \* the strategy of each key
    Kinds,          \* the side and the reason of a signal
    NoKind,
    Candidates,     \* research candidates
    KeyOf,          \* the key of each candidate
    NoCandidate,
    Configs,        \* runner configurations, the invalid ones left behind too
    DefaultConfig,  \* default_testnet_shadow_runner_config
    FoundIn,        \* the statuses the runner may be found in at first
    Workers,        \* the daemon and the tasks of requests and scheduled jobs
    MaxCandle,      \* bound on the candles that close
    MaxUpdates,     \* bound on the changes of candidates
    MaxJobs         \* bound on the ticks and requests

Null == -1

ASSUME KeysAssumption == KeyOf \in [Candidates -> Keys] /\ NoCandidate \notin Candidates
ASSUME StrategiesAssumption == StrategyOf \in [Keys -> Strategies]
ASSUME ConfigsAssumption ==
    /\ DefaultConfig \in Configs /\ DefaultConfig.pairs # <<>>
    /\ \A c \in Configs : /\ c.enabled \in BOOLEAN
                          /\ c.valid \in BOOLEAN
                          /\ c.pairs \in Seq(Keys)
                          /\ c.max_runs_per_tick \in Nat \ {0}
ASSUME BoundsAssumption == MaxCandle \in Nat /\ MaxUpdates \in Nat /\ MaxJobs \in Nat

VARIABLES
    config,         \* testnet_shadow_runner_config
    runner,         \* testnet_shadow_runner_state
    candle,         \* the last closed candle of each key
    candidate,      \* research_candidates, as far as they matter here
    signals,        \* signals
    last,           \* strategy_state.last_signal_id, one row for each strategy
    decisions,      \* risk_decisions
    rows,           \* testnet_shadow_runs
    links,          \* research_candidate_shadow_runs
    clock,
    pc, op,         \* each job's next step and what it is
    snap, todo, done,   \* a tick's snapshot, pairs left and runs completed
    run,            \* the locals of run_testnet_shadow_once
    obs,            \* the locals of observe-once
    recorded,       \* history: rows recorded by ticks
    claims,         \* history: answers with independent_evidence_created
    word,           \* history: the status last chosen by a control or an invalid tick
    overlap,        \* history: two jobs held a snapshot at one time
    updates, begun  \* history: changes of candidates and jobs, for their bounds

dbVars == <<config, runner, candle, candidate, signals, last,
            decisions, rows, links>>
jobVars == <<pc, op, snap, todo, done, run, obs>>
histVars == <<recorded, claims, word, overlap>>
bounds == <<updates, begun>>
vars == <<dbVars, clock, jobVars, histVars, bounds>>

-----------------------------------------------------------------------------
(* Rows and locals.                                                        *)

Status == {"STOPPED", "RUNNING", "PAUSED", "ERROR"}
ASSUME StatusAssumption == FoundIn \subseteq Status
ControlOps == {"START", "STOP", "PAUSE", "RESUME"}
TickOps == {"TICK", "RUN_ONCE"}
\* INVALID is a tick of either kind that found an invalid configuration.
Ops == ControlOps \cup TickOps \cup {"none", "INVALID", "RUN", "OBSERVE"}
\* The decisions with status COMPLETED.  SKIPPED stands for every decision
\* taken before the strategy is evaluated: SKIPPED_KILL_SWITCH,
\* SKIPPED_DISABLED_STRATEGY, CANDLE_DATA_STALE and ERROR for a timeframe that
\* is not the strategy's.
Completed == {"NO_SIGNAL", "WOULD_SUBMIT"}
Decision == Completed \cup {"SKIPPED", "RISK_REJECTED", "SKIPPED_STALE_PRICE"}
Labels == {"idle", "state", "pair", "write", "align", "evaluated", "plan",
           "begin", "candle", "signal", "risk", "match", "insert", "link"}
RunLabels == {"begin", "candle", "signal", "risk", "match", "insert", "link"}

Runner(status, ticks, runs) ==
    [status |-> status, total_ticks |-> ticks, total_runs |-> runs]

Run(key, created, seen, kind, decision, signal, risk, cand) ==
    [key |-> key, created |-> created, candle |-> seen, kind |-> kind,
     decision |-> decision, signal |-> signal, risk |-> risk, cand |-> cand]

NoRun == Run(DefaultConfig.pairs[1], 0, 0, NoKind, "none", 0, 0, NoCandidate)

Observation(cand, now, since, latest, duplicate) ==
    [cand |-> cand, now |-> now, since |-> since, latest |-> latest,
     duplicate |-> duplicate]

NoObservation == Observation(NoCandidate, 0, 0, 0, FALSE)

\* A database in which nothing runs: new, or left behind by earlier requests
\* that configured and controlled the runner and promoted candidates.
Init ==
    /\ config \in Configs
    /\ word \in FoundIn
    /\ runner = Runner(word, 0, 0)
    /\ candle = [k \in Keys |-> 0]
    /\ \E promoted \in SUBSET Candidates :
          candidate = [c \in Candidates |->
                         [promoted |-> c \in promoted,
                          promoted_at |-> IF c \in promoted THEN 0 ELSE Null,
                          updated_at |-> 0]]
    /\ signals = {} /\ decisions = {} /\ rows = {} /\ links = {}
    /\ last = [s \in Strategies |-> 0]
    /\ clock = 0
    /\ pc = [w \in Workers |-> "idle"]
    /\ op = [w \in Workers |-> "none"]
    /\ snap = [w \in Workers |-> Runner("STOPPED", 0, 0)]
    /\ todo = [w \in Workers |-> <<>>]
    /\ done = [w \in Workers |-> 0]
    /\ run = [w \in Workers |-> NoRun]
    /\ obs = [w \in Workers |-> NoObservation]
    /\ recorded = 0
    /\ claims = {}
    /\ overlap = FALSE
    /\ updates = 0 /\ begun = 0

Goto(w, label) == pc' = [pc EXCEPT ![w] = label]

Start(w) ==
    /\ pc[w] = "idle"
    /\ begun < MaxJobs
    /\ begun' = begun + 1
    /\ UNCHANGED updates

\* The job answers, or ends.
Over(w) ==
    /\ Goto(w, "idle")
    /\ op' = [op EXCEPT ![w] = "none"]
    /\ snap' = [snap EXCEPT ![w] = Runner("STOPPED", 0, 0)]
    /\ todo' = [todo EXCEPT ![w] = <<>>]
    /\ done' = [done EXCEPT ![w] = 0]
    /\ run' = [run EXCEPT ![w] = NoRun]
    /\ obs' = [obs EXCEPT ![w] = NoObservation]

\* The jobs that will write the runner's state from what they read.
Holding(w) == \/ pc[w] = "write"
              \/ op[w] \in TickOps /\ pc[w] \in RunLabels \cup {"pair"}

-----------------------------------------------------------------------------
(* The environment: operators, the feed and the candidates' handlers.      *)

\* update_exchange_testnet_shadow_runner_config_handler, a valid payload.
SaveConfig ==
    /\ \E c \in Configs \ {config} : c.valid /\ config' = c
    /\ UNCHANGED <<runner, candle, candidate, signals, last, decisions,
                   rows, links, clock, jobVars, histVars, bounds>>

CloseCandle(k) ==
    /\ candle[k] < MaxCandle
    /\ candle' = [candle EXCEPT ![k] = candle[k] + 1]
    /\ UNCHANGED <<config, runner, candidate, signals, last, decisions,
                   rows, links, clock, jobVars, histVars, bounds>>

\* update_research_candidate_status, as the resolver and the window see it:
\* promoted_at is kept once it is set, updated_at is the moment of the change.
UpdateCandidate(c) ==
    /\ updates < MaxUpdates
    /\ updates' = updates + 1
    /\ clock' = clock + 1
    /\ candidate' = [candidate EXCEPT ![c] =
          [promoted |-> ~candidate[c].promoted,
           promoted_at |-> IF candidate[c].promoted \/ candidate[c].promoted_at # Null
                           THEN candidate[c].promoted_at ELSE clock + 1,
           updated_at |-> clock + 1]]
    /\ UNCHANGED <<config, runner, candle, signals, last, decisions,
                   rows, links, jobVars, histVars, begun>>

-----------------------------------------------------------------------------
(* run_testnet_shadow_once.                                                *)

SetRun(w, key, created, seen, kind, decision, signal, risk, cand) ==
    run' = [run EXCEPT ![w] =
              Run(key, created, seen, kind, decision, signal, risk, cand)]

\* The run begins.  The gates it reads next (the kill switch, the strategy's
\* configuration, the feed) may be in any state.
RunOnce(w, key) ==
    /\ clock' = clock + 1
    /\ SetRun(w, key, clock + 1, 0, NoKind, "none", 0, 0, NoCandidate)
    /\ Goto(w, "candle")

RunPair(w) ==
    /\ pc[w] = "pair"
    /\ todo[w] # <<>>
    /\ RunOnce(w, Head(todo[w]))
    /\ todo' = [todo EXCEPT ![w] = Tail(todo[w])]
    /\ UNCHANGED <<dbVars, op, snap, done, obs, histVars, bounds>>

RunRequest(w) ==
    /\ Start(w)
    /\ \E key \in Keys : RunOnce(w, key)
    /\ op' = [op EXCEPT ![w] = "RUN"]
    /\ UNCHANGED <<dbVars, snap, todo, done, obs, histVars>>

RunObservation(w) ==
    /\ pc[w] = "begin"
    /\ RunOnce(w, KeyOf[obs[w].cand])
    /\ UNCHANGED <<dbVars, op, snap, todo, done, obs, histVars, bounds>>

\* The decisions of evaluate_shadow_outcome that need no signal: the kill
\* switch or another gate, or a strategy that finds nothing on this candle.
\* Without a candle the history is insufficient.
WithoutSignal(seen) ==
    IF seen = 0 THEN {"SKIPPED"} ELSE {"SKIPPED", "NO_SIGNAL"}

\* The candles are read and the run ends without a signal.
EvaluateNothing(w) ==
    LET r == run[w]
        seen == candle[r.key]
    IN  /\ pc[w] = "candle"
        /\ \E decision \in WithoutSignal(seen) :
              /\ SetRun(w, r.key, r.created, seen, NoKind, decision, 0, 0, NoCandidate)
              /\ last' = IF decision = "NO_SIGNAL"
                         THEN [last EXCEPT ![StrategyOf[r.key]] = 0] ELSE last
        /\ Goto(w, "match")
        /\ UNCHANGED <<config, runner, candle, candidate, signals,
                       decisions, rows, links, clock, op, snap, todo, done,
                       obs, histVars, bounds>>

\* Every gate is passed and the strategy generates a signal, of any kind.
EvaluateSignal(w) ==
    LET r == run[w]
    IN  /\ pc[w] = "candle"
        /\ candle[r.key] > 0
        /\ \E kind \in Kinds :
              SetRun(w, r.key, r.created, candle[r.key], kind, "none", 0, 0, NoCandidate)
        /\ Goto(w, "signal")
        /\ UNCHANGED <<dbVars, clock, op, snap, todo, done, obs, histVars, bounds>>

\* The signals with the values of the unique index: strategy, symbol, timeframe,
\* candle, side and reason.
Identical(r) ==
    {s \in signals : s.key = r.key /\ s.candle = r.candle /\ s.kind = r.kind}

\* Mutant: the insert has no ON CONFLICT clause.
DedupedNever(r) == {}

\* The signals the insert conflicts with.
Deduped(r) == Identical(r)

\* insert_signal_deduped, then update_strategy_state.
InsertSignal(w) ==
    LET r == run[w]
        new == [id |-> r.created, key |-> r.key, candle |-> r.candle, kind |-> r.kind]
    IN  /\ pc[w] = "signal"
        /\ signals' = IF Deduped(r) = {} THEN signals \cup {new} ELSE signals
        /\ \E s \in IF Deduped(r) = {} THEN {new} ELSE Deduped(r) :
              /\ SetRun(w, r.key, r.created, r.candle, r.kind, "none", s.id, 0, NoCandidate)
              /\ last' = [last EXCEPT ![StrategyOf[r.key]] = s.id]
        /\ Goto(w, "risk")
        /\ UNCHANGED <<config, runner, candle, candidate, decisions,
                       rows, links, clock, op, snap, todo, done, obs,
                       histVars, bounds>>

\* load_risk_state_snapshot, evaluate (the decision is any: the
\* snapshot is of other components), insert_risk_decision for the signal that is persisted, and for an
\* approval the price.
EvaluateRisk(w) ==
    LET r == run[w]
    IN  /\ pc[w] = "risk"
        /\ \E approved, priced \in BOOLEAN :
              /\ decisions' = decisions \cup
                    {[id |-> r.created, signal |-> r.signal, approved |-> approved]}
              /\ SetRun(w, r.key, r.created, r.candle, r.kind,
                        IF ~approved THEN "RISK_REJECTED"
                        ELSE IF priced THEN "WOULD_SUBMIT" ELSE "SKIPPED_STALE_PRICE",
                        r.signal, r.created, NoCandidate)
        /\ Goto(w, "match")
        /\ UNCHANGED <<config, runner, candle, candidate, signals, last,
                       rows, links, clock, op, snap, todo, done, obs,
                       histVars, bounds>>

\* resolve_promoted_research_candidate_for_shadow_run: the newest promotion,
\* and none when two are equally new.
Promoted(key) == {c \in Candidates : candidate[c].promoted /\ KeyOf[c] = key}
Newest(key) ==
    {c \in Promoted(key) :
        \A d \in Promoted(key) : candidate[d].promoted_at <= candidate[c].promoted_at}
Resolved(key) == IF \E c \in Candidates : Newest(key) = {c}
                 THEN CHOOSE c \in Candidates : Newest(key) = {c}
                 ELSE NoCandidate

MatchCandidate(w) ==
    LET r == run[w]
    IN  /\ pc[w] = "match"
        /\ SetRun(w, r.key, r.created, r.candle, r.kind, r.decision, r.signal,
                  r.risk, Resolved(r.key))
        /\ Goto(w, "insert")
        /\ UNCHANGED <<dbVars, clock, op, snap, todo, done, obs, histVars, bounds>>

\* Mutant: the id of the generated signal is taken as it is.
StabilizedAsIs(r) == {r.created}

\* stabilize_shadow_signal_id: the generated signal, or the one of its identity
\* that was there before it.  Without one the run is refused.
Stabilized(r) == IF \E s \in signals : s.id = r.created THEN {r.created}
                 ELSE {s.id : s \in Identical(r)}

\* insert_testnet_shadow_run.
InsertRun(w) ==
    LET r == run[w]
    IN  /\ pc[w] = "insert"
        /\ \E signal \in IF r.risk = 0 THEN {0} ELSE Stabilized(r) :
              rows' = rows \cup {[id |-> r.created, key |-> r.key,
                                  candle |-> r.candle, decision |-> r.decision,
                                  signal |-> signal, risk |-> r.risk]}
        /\ recorded' = IF op[w] \in TickOps THEN recorded + 1 ELSE recorded
        /\ Goto(w, "link")
        /\ UNCHANGED <<config, runner, candle, candidate, signals, last,
                       decisions, links, clock, op, snap, todo, done, run, obs,
                       claims, word, overlap, bounds>>

Linkable(r) == r.cand # NoCandidate /\ candidate[r.cand].promoted

\* Mutant: a candle that is already evaluated counts again.
IndependentAgain(r, o) ==
    /\ r.decision \in Completed
    /\ r.candle > 0
    /\ IF o.latest > 0 THEN r.candle >= o.latest ELSE ~o.duplicate

\* independent_evidence_created, from the candles read before the run.
Independent(r, o) ==
    /\ r.decision \in Completed
    /\ r.candle > 0
    /\ IF o.latest > 0 THEN r.candle > o.latest ELSE ~o.duplicate

\* Mutant: a tick counts the runs it attempted.
ReturnAttempted(w, completed) ==
    IF op[w] \in TickOps
    THEN /\ Goto(w, "pair")
         /\ done' = [done EXCEPT ![w] = done[w] + 1]
         /\ run' = [run EXCEPT ![w] = NoRun]
         /\ UNCHANGED <<op, snap, todo, obs>>
    ELSE Over(w)

\* The run's caller goes on: a tick counts it and takes its next pair.
Return(w, completed) ==
    IF op[w] \in TickOps
    THEN /\ Goto(w, "pair")
         /\ done' = [done EXCEPT ![w] = done[w] + completed]
         /\ run' = [run EXCEPT ![w] = NoRun]
         /\ UNCHANGED <<op, snap, todo, obs>>
    ELSE Over(w)

\* insert_research_candidate_shadow_run_link, if the candidate is still
\* promoted; then the run's caller goes on.
LinkRun(w) ==
    LET r == run[w]
        o == obs[w]
    IN  /\ pc[w] = "link"
        /\ links' = IF Linkable(r) THEN links \cup {[run |-> r.created, cand |-> r.cand]}
                    ELSE links
        /\ Return(w, 1)
        /\ claims' = IF op[w] = "OBSERVE" /\ Independent(r, o)
                     THEN claims \cup {[cand |-> o.cand, candle |-> r.candle,
                                        since |-> o.since, from |-> o.now, to |-> clock,
                                        linked |-> Linkable(r) /\ r.cand = o.cand]}
                     ELSE claims
        /\ UNCHANGED <<config, runner, candle, candidate, signals, last,
                       decisions, rows, clock, recorded, word, overlap, bounds>>

\* A statement of the run fails: the tick goes on with its next pair, any
\* other caller answers with the error.  A failure at a label that is not
\* listed leaves the same rows as one at the label before it.
FailRun(w) ==
    /\ pc[w] \in {"candle", "risk", "match", "link"}
    /\ Return(w, 0)
    /\ UNCHANGED <<dbVars, clock, histVars, bounds>>

-----------------------------------------------------------------------------
(* The runner.                                                             *)

\* bounded_strategy_symbol_pairs.
BoundedPairs(c) ==
    IF c.max_runs_per_tick < Len(c.pairs)
    THEN SubSeq(c.pairs, 1, c.max_runs_per_tick) ELSE c.pairs

\* A tick reads the configuration and validates it.  A scheduled one ends if it
\* is valid and disabled.
StartTick(w) ==
    /\ Start(w)
    /\ \E kind \in TickOps :
          IF kind = "TICK" /\ config.valid /\ ~config.enabled
          THEN Over(w)
          ELSE /\ Goto(w, "state")
               /\ op' = [op EXCEPT ![w] = IF config.valid THEN kind ELSE "INVALID"]
               /\ todo' = [todo EXCEPT ![w] = BoundedPairs(config)]
               /\ UNCHANGED <<snap, done, run, obs>>
    /\ UNCHANGED <<dbVars, clock, histVars>>

\* A job reads the runner's state: from here to its write it holds a snapshot.
TakeSnapshot(w) ==
    /\ snap' = [snap EXCEPT ![w] = runner]
    /\ overlap' = (overlap \/ \E v \in Workers \ {w} : Holding(v))

\* Then it reads the state.  With an invalid configuration it goes on to write
\* ERROR.  scheduled_tick_noop_reason: a scheduled tick ends while the runner is
\* PAUSED or STOPPED; it goes on in ERROR.
LoadState(w) ==
    /\ pc[w] = "state"
    /\ IF op[w] = "TICK" /\ runner.status \in {"PAUSED", "STOPPED"}
       THEN Over(w) /\ UNCHANGED overlap
       ELSE /\ Goto(w, IF op[w] = "INVALID" THEN "write" ELSE "pair")
            /\ TakeSnapshot(w)
            /\ UNCHANGED <<op, todo, done, run, obs>>
    /\ UNCHANGED <<dbVars, clock, recorded, claims, word, bounds>>

\* The state a tick writes, from the one it read and its completed runs.
Ticked(s, n) == Runner(s.status, s.total_ticks + 1, s.total_runs + n)

SaveTick(w) ==
    /\ pc[w] = "pair"
    /\ todo[w] = <<>>
    /\ runner' = Ticked(snap[w], done[w])
    /\ Over(w)
    /\ UNCHANGED <<config, candle, candidate, signals, last, decisions,
                   rows, links, clock, histVars, bounds>>

\* The status a control action may start from.
MayControl(kind, status) ==
    /\ kind = "PAUSE" => status = "RUNNING"
    /\ kind = "RESUME" => status \in {"PAUSED", "ERROR"}

\* Mutant: a stop writes a status the runner does not know.
TargetDisabled(kind) == IF kind \in {"START", "RESUME"} THEN "RUNNING"
                        ELSE IF kind = "STOP" THEN "DISABLED"
                        ELSE IF kind = "PAUSE" THEN "PAUSED" ELSE "ERROR"

\* The status a control action, or a tick on an invalid configuration, writes.
Target(kind) == IF kind \in {"START", "RESUME"} THEN "RUNNING"
                ELSE IF kind = "STOP" THEN "STOPPED"
                ELSE IF kind = "PAUSE" THEN "PAUSED" ELSE "ERROR"

\* apply_testnet_shadow_runner_control_action: read, refuse or go on.
StartControl(w) ==
    /\ Start(w)
    /\ \E kind \in ControlOps :
          IF MayControl(kind, runner.status)
          THEN /\ Goto(w, "write")
               /\ op' = [op EXCEPT ![w] = kind]
               /\ TakeSnapshot(w)
               /\ UNCHANGED <<todo, done, run, obs>>
          ELSE Over(w) /\ UNCHANGED overlap
    /\ UNCHANGED <<dbVars, clock, recorded, claims, word>>

\* The control action's status, or the invalid tick's ERROR, over the snapshot.
SaveStatus(w) ==
    /\ pc[w] = "write"
    /\ runner' = Runner(Target(op[w]), snap[w].total_ticks, snap[w].total_runs)
    /\ word' = Target(op[w])
    /\ Over(w)
    /\ UNCHANGED <<config, candle, candidate, signals, last, decisions,
                   rows, links, clock, recorded, claims, overlap, bounds>>

-----------------------------------------------------------------------------
(* observe_research_candidate_shadow_once_handler, and the scheduled job.  *)

\* The candidate is read; it must be promoted.
StartObservation(w) ==
    /\ Start(w)
    /\ \E c \in Candidates :
          IF candidate[c].promoted
          THEN /\ Goto(w, "align")
               /\ op' = [op EXCEPT ![w] = "OBSERVE"]
               /\ obs' = [obs EXCEPT ![w] =
                            Observation(c, clock + 1, candidate[c].updated_at, 0, FALSE)]
               /\ UNCHANGED <<snap, todo, done, run>>
          ELSE Over(w)
    /\ clock' = clock + 1
    /\ UNCHANGED <<dbVars, histVars>>

\* candidate_runner_alignment_current.
Covers(c, key) == \E i \in DOMAIN c.pairs : c.pairs[i] = key

CheckAlignment(w) ==
    /\ pc[w] = "align"
    /\ IF Covers(config, KeyOf[obs[w].cand])
       THEN Goto(w, "evaluated") /\ UNCHANGED <<op, snap, todo, done, run, obs>>
       ELSE Over(w)
    /\ UNCHANGED <<dbVars, clock, histVars, bounds>>

\* get_research_candidate_shadow_performance, as far as it is used here: the
\* latest candle of the runs linked to the candidate since it last changed.
Evaluated(o) ==
    {r.candle : r \in {x \in rows : /\ [run |-> x.id, cand |-> o.cand] \in links
                                    /\ o.since <= x.id /\ x.id <= o.now}}
LatestEvaluated(o) == Max(Evaluated(o) \cup {0})

ReadEvaluated(w) ==
    LET o == obs[w]
    IN  /\ pc[w] = "evaluated"
        /\ obs' = [obs EXCEPT ![w] =
                     Observation(o.cand, o.now, o.since, LatestEvaluated(o), FALSE)]
        /\ Goto(w, "plan")
        /\ UNCHANGED <<dbVars, clock, op, snap, todo, done, run, histVars, bounds>>

\* plan_shadow_observe_once: no new candle ends the request, unless it allows
\* a duplicate operational check.
NoNewCandle(latest, available) ==
    available = 0 \/ (latest > 0 /\ available <= latest)

PlanObservation(w) ==
    LET o == obs[w]
        duplicate == NoNewCandle(o.latest, candle[KeyOf[o.cand]])
    IN  /\ pc[w] = "plan"
        /\ \E allowed \in BOOLEAN :
              IF duplicate /\ ~allowed THEN Over(w)
              ELSE /\ Goto(w, "begin")
                   /\ obs' = [obs EXCEPT ![w] =
                                Observation(o.cand, o.now, o.since, o.latest, duplicate)]
                   /\ UNCHANGED <<op, snap, todo, done, run>>
        /\ UNCHANGED <<dbVars, clock, histVars, bounds>>

-----------------------------------------------------------------------------
RunStep(w) ==
    \/ RunPair(w) \/ RunRequest(w) \/ RunObservation(w)
    \/ EvaluateNothing(w) \/ EvaluateSignal(w) \/ InsertSignal(w)
    \/ EvaluateRisk(w) \/ MatchCandidate(w) \/ InsertRun(w) \/ LinkRun(w)
    \/ FailRun(w)

RunnerStep(w) ==
    \/ StartTick(w) \/ LoadState(w) \/ SaveTick(w)
    \/ StartControl(w) \/ SaveStatus(w)

ObserverStep(w) ==
    \/ StartObservation(w) \/ CheckAlignment(w) \/ ReadEvaluated(w)
    \/ PlanObservation(w)

Environment ==
    \/ SaveConfig
    \/ \E k \in Keys : CloseCandle(k)
    \/ \E c \in Candidates : UpdateCandidate(c)

Next == Environment \/ \E w \in Workers : RunStep(w) \/ RunnerStep(w) \/ ObserverStep(w)

Spec == Init /\ [][Next]_vars

-----------------------------------------------------------------------------
(* Properties.                                                             *)

\* Every variable keeps its type; a run row has one of the decisions.
TypeOK ==
    /\ config \in Configs
    /\ runner \in [status : Status, total_ticks : Nat, total_runs : Nat]
    /\ candle \in [Keys -> Nat]
    /\ candidate \in [Candidates -> [promoted : BOOLEAN, promoted_at : Nat \cup {Null},
                                     updated_at : Nat]]
    /\ signals \subseteq [id : Nat, key : Keys, candle : Nat, kind : Kinds]
    /\ last \in [Strategies -> Nat]
    /\ decisions \subseteq [id : Nat, signal : Nat, approved : BOOLEAN]
    /\ rows \subseteq [id : Nat, key : Keys, candle : Nat, decision : Decision,
                       signal : Nat, risk : Nat]
    /\ links \subseteq [run : Nat, cand : Candidates]
    /\ clock \in Nat /\ updates \in Nat /\ begun \in Nat
    /\ pc \in [Workers -> Labels]
    /\ op \in [Workers -> Ops]
    /\ snap \in [Workers -> [status : Status, total_ticks : Nat, total_runs : Nat]]
    /\ todo \in [Workers -> Seq(Keys)]
    /\ done \in [Workers -> Nat]
    /\ run \in [Workers -> [key : Keys, created : Nat, candle : Nat,
                            kind : Kinds \cup {NoKind},
                            decision : Decision \cup {"none"}, signal : Nat, risk : Nat,
                            cand : Candidates \cup {NoCandidate}]]
    /\ obs \in [Workers -> [cand : Candidates \cup {NoCandidate}, now : Nat,
                            since : Nat, latest : Nat, duplicate : BOOLEAN]]
    /\ recorded \in Nat
    /\ claims \subseteq [cand : Candidates, candle : Nat, since : Nat, from : Nat,
                         to : Nat, linked : BOOLEAN]
    /\ word \in Status
    /\ overlap \in BOOLEAN

\* However runs on one candle interleave, they share one signal for each side
\* and reason (insert_signal_deduped); a candle has two only when the strategy
\* found two kinds on it.  And strategy_state, the one row that runs on all
\* symbols of a strategy overwrite, names a persisted signal of that strategy.
SignalsUnique ==
    /\ \A s, t \in signals : /\ s.key = t.key /\ s.candle = t.candle
                             /\ s.kind = t.kind
                             => s = t
    /\ \A g \in Strategies : last[g] # 0 =>
          \E s \in signals : s.id = last[g] /\ StrategyOf[s.key] = g

\* A shadow run's row names the very signal its risk decision was made for,
\* and that signal is of the row's key and candle, also when another run had
\* persisted the signal first and the id had to be repaired.  The row agrees
\* with what was decided.
RunsTraceable ==
    \A r \in rows :
        /\ r.decision \in {"WOULD_SUBMIT", "RISK_REJECTED", "SKIPPED_STALE_PRICE"}
              <=> r.signal # 0
        /\ r.signal # 0 =>
              /\ \E s \in signals : s.id = r.signal /\ s.key = r.key /\ s.candle = r.candle
              /\ \E d \in decisions :
                    /\ d.id = r.risk /\ d.signal = r.signal
                    /\ d.approved <=> r.decision # "RISK_REJECTED"

\* What a tick writes from its old snapshot of the runner's state: it may lose
\* counts, in any interleaving of ticks and controls, but never counts a run no
\* tick recorded; and unless two jobs held a snapshot at one time the status is
\* the one the last control action, or tick on an invalid configuration, wrote,
\* so that any other tick alone never starts, stops or pauses the runner.
StaleTicksHarmless ==
    /\ runner.total_runs <= recorded
    /\ \A w \in Workers : Holding(w) => snap[w].total_runs + done[w] <= recorded
    /\ ~overlap => runner.status = word

\* Two observe-once answers that claim independent evidence of one candidate
\* for one candle, and whose runs were linked to it, come from requests that
\* overlapped or from two sides of a change of the candidate.
EvidenceOnce ==
    \A x, y \in claims :
        /\ x # y
        /\ x.cand = y.cand /\ x.candle = y.candle /\ x.linked /\ y.linked
        => \/ x.since # y.since
           \/ x.from <= y.to /\ y.from <= x.to

-----------------------------------------------------------------------------
(* The inductive invariants behind these properties.                       *)

Running == RunLabels \ {"begin"}

\* A job's label says what kind of job it is and how far its run has come.
Task(w) ==
    /\ pc[w] = "state" => op[w] \in TickOps \cup {"INVALID"}
    /\ pc[w] = "pair" => op[w] \in TickOps
    /\ pc[w] = "signal" => run[w].kind \in Kinds
    /\ pc[w] \in Running => op[w] \in TickOps \cup {"RUN", "OBSERVE"}
    /\ pc[w] \in {"align", "evaluated", "plan", "begin"} => op[w] = "OBSERVE"
    /\ op[w] = "OBSERVE" => obs[w].cand \in Candidates
    /\ pc[w] \in {"match", "insert", "link"} => run[w].decision \in Decision

TaskEvidence == \A w \in Workers : Task(w)

\* A snapshot is taken with nothing done; a run that is about to return to its
\* tick is recorded; and without an overlap the one job that holds a snapshot
\* holds the status that was last written.
Counted(w) ==
    /\ pc[w] \in {"idle", "state"} => done[w] = 0
    /\ pc[w] = "link" /\ op[w] \in TickOps
          => snap[w].total_runs + done[w] + 1 <= recorded

SnapshotEvidence ==
    /\ \A w \in Workers : Counted(w)
    /\ ~overlap => \A w \in Workers : Holding(w) =>
          snap[w].status = word /\ \A v \in Workers : Holding(v) => v = w

\* A run has the persisted signal of its key, candle and kind, its own if there
\* is one with its id.
Signalled(r) ==
    /\ \E s \in signals : /\ s.id = r.signal /\ s.key = r.key
                          /\ s.candle = r.candle /\ s.kind = r.kind
    /\ \A s \in signals : s.id = r.created => r.signal = r.created

\* A run that has been evaluated ended before its signal, or has the risk
\* decision of that signal.
Decided(r) ==
    IF r.risk = 0
    THEN r.decision \in {"SKIPPED", "NO_SIGNAL"}
    ELSE /\ r.decision \in {"WOULD_SUBMIT", "RISK_REJECTED", "SKIPPED_STALE_PRICE"}
         /\ Signalled(r)
         /\ \E d \in decisions : /\ d.id = r.risk /\ d.signal = r.signal
                                 /\ d.approved <=> r.decision # "RISK_REJECTED"

\* The ids of runs under way are moments of their own, which no other run has
\* given to a signal.
Fresh(w) ==
    /\ pc[w] \in Running => 0 < run[w].created /\ run[w].created <= clock
    /\ pc[w] \in {"candle", "signal"} => \A s \in signals : s.id # run[w].created
    /\ pc[w] = "risk" => Signalled(run[w])
    /\ pc[w] \in {"match", "insert", "link"} => Decided(run[w])

RunEvidence ==
    /\ \A s \in signals : 0 < s.id /\ s.id <= clock
    /\ \A w \in Workers : Fresh(w)
    /\ \A v, w \in Workers : v # w /\ pc[v] \in Running /\ pc[w] \in Running
                             => run[v].created # run[w].created

\* Candles are bounded, so that there is a latest one.
CandleEvidence ==
    /\ \A k \in Keys : candle[k] <= MaxCandle
    /\ \A w \in Workers : run[w].candle <= MaxCandle
    /\ \A r \in rows : r.candle <= MaxCandle

\* A claim whose run was linked left a row and a link behind, inside the window
\* of every later observation since the same change.
ClaimEvidence ==
    \A x \in claims :
        /\ x.candle > 0 /\ x.since <= x.from /\ x.from <= x.to /\ x.to <= clock
        /\ x.linked => \E r \in rows :
              /\ x.since <= r.id /\ r.id <= x.to /\ r.candle = x.candle
              /\ [run |-> r.id, cand |-> x.cand] \in links

\* The candles an observation has read cover the claims that were made before
\* it began.
Aware(o) ==
    \A x \in claims :
        x.cand = o.cand /\ x.linked /\ x.since = o.since /\ x.to < o.now
            => x.candle <= o.latest

Observer(w) ==
    /\ op[w] = "OBSERVE" => obs[w].since <= obs[w].now /\ obs[w].now <= clock
    /\ op[w] = "OBSERVE" /\ pc[w] \in Running
          => obs[w].now <= run[w].created /\ run[w].created <= clock
    /\ op[w] = "OBSERVE" /\ pc[w] \in {"plan", "begin"} \cup Running => Aware(obs[w])
    /\ pc[w] = "link" => \E r \in rows : r.id = run[w].created /\ r.candle = run[w].candle

ObserverEvidence ==
    /\ \A c \in Candidates : candidate[c].updated_at <= clock
    /\ \A w \in Workers : Observer(w)
=============================================================================
