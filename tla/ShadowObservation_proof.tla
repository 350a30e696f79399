---------------------- MODULE ShadowObservation_proof ----------------------
(***************************************************************************)
(* Proofs about ShadowObservation, for any number of keys, candidates,     *)
(* configurations, jobs and candles: the types, that a candle has one      *)
(* signal of each side and reason, that a shadow run's row names the       *)
(* signal of its risk decision,                                            *)
(* that stale ticks lose counts but invent none, and that independent      *)
(* evidence is claimed once.                                               *)
(*                                                                         *)
(* The invariants are proved one after the other; each may use the earlier *)
(* ones in both states of a step.                                          *)
(***************************************************************************)
EXTENDS ShadowObservation, WellFoundedInduction, TLAPS

RunnerRow == [status : Status, total_ticks : Nat, total_runs : Nat]
CandidateRow == [promoted : BOOLEAN, promoted_at : Nat \cup {Null}, updated_at : Nat]
SignalRow == [id : Nat, key : Keys, candle : Nat, kind : Kinds]
DecisionRow == [id : Nat, signal : Nat, approved : BOOLEAN]
ShadowRow == [id : Nat, key : Keys, candle : Nat, decision : Decision,
              signal : Nat, risk : Nat]
RunRow == [key : Keys, created : Nat, candle : Nat, kind : Kinds \cup {NoKind},
           decision : Decision \cup {"none"}, signal : Nat, risk : Nat, cand : Candidates \cup {NoCandidate}]
ObservationRow == [cand : Candidates \cup {NoCandidate}, now : Nat, since : Nat,
                   latest : Nat, duplicate : BOOLEAN]
ClaimRow == [cand : Candidates, candle : Nat, since : Nat, from : Nat, to : Nat,
             linked : BOOLEAN]

\* The types of the jobs' locals, and of everything else.
JobTypes ==
    /\ pc \in [Workers -> Labels] /\ op \in [Workers -> Ops]
    /\ snap \in [Workers -> RunnerRow] /\ todo \in [Workers -> Seq(Keys)]
    /\ done \in [Workers -> Nat] /\ run \in [Workers -> RunRow]
    /\ obs \in [Workers -> ObservationRow]

DbTypes ==
    /\ config \in Configs /\ runner \in RunnerRow /\ candle \in [Keys -> Nat]
    /\ candidate \in [Candidates -> CandidateRow]
    /\ signals \subseteq SignalRow /\ last \in [Strategies -> Nat]
    /\ decisions \subseteq DecisionRow /\ rows \subseteq ShadowRow
    /\ links \subseteq [run : Nat, cand : Candidates]

HistoryTypes ==
    /\ clock \in Nat /\ updates \in Nat /\ begun \in Nat /\ recorded \in Nat
    /\ claims \subseteq ClaimRow /\ word \in Status /\ overlap \in BOOLEAN

(* The type invariant, in three parts. *)
LEMMA TypeParts == TypeOK <=> JobTypes /\ DbTypes /\ HistoryTypes
  BY DEF TypeOK, JobTypes, DbTypes, HistoryTypes, RunnerRow, CandidateRow, SignalRow,
     DecisionRow, ShadowRow, RunRow, ObservationRow, ClaimRow

(* The same of the state after a step. *)
LEMMA TypePartsNext == JobTypes' /\ DbTypes' /\ HistoryTypes' => TypeOK'
  BY DEF TypeOK, JobTypes, DbTypes, HistoryTypes, RunnerRow, CandidateRow, SignalRow,
     DecisionRow, ShadowRow, RunRow, ObservationRow, ClaimRow

(***************************************************************************)
(* Rows and locals.                                                        *)
(***************************************************************************)

(* The state of the runner, of typed parts. *)
LEMMA RunnerTyped ==
    ASSUME NEW status \in Status, NEW ticks \in Nat, NEW runs \in Nat
    PROVE  /\ Runner(status, ticks, runs) \in RunnerRow
           /\ Runner(status, ticks, runs).status = status
           /\ Runner(status, ticks, runs).total_runs = runs
  BY DEF Runner, RunnerRow

(* The locals of a run, of typed parts. *)
LEMMA RunTyped ==
    ASSUME NEW key \in Keys, NEW created \in Nat, NEW seen \in Nat,
           NEW kind \in Kinds \cup {NoKind}, NEW decision \in Decision \cup {"none"}, NEW signal \in Nat, NEW risk \in Nat,
           NEW cand \in Candidates \cup {NoCandidate}
    PROVE  LET r == Run(key, created, seen, kind, decision, signal, risk, cand)
           IN  /\ r \in RunRow /\ r.key = key /\ r.created = created
               /\ r.candle = seen /\ r.kind = kind /\ r.decision = decision
               /\ r.signal = signal
               /\ r.risk = risk /\ r.cand = cand
  BY DEF Run, RunRow

(* Parts of the locals of a run. *)
LEMMA RunParts ==
    ASSUME NEW r \in RunRow
    PROVE  /\ r.key \in Keys /\ r.created \in Nat /\ r.candle \in Nat
           /\ r.kind \in Kinds \cup {NoKind}
           /\ r.decision \in Decision \cup {"none"} /\ r.signal \in Nat /\ r.risk \in Nat
           /\ r.cand \in Candidates \cup {NoCandidate}
  BY DEF RunRow

(* A task without a run. *)
LEMMA NoRunTyped == NoRun \in RunRow /\ NoRun.candle = 0
<1>1. DefaultConfig.pairs \in Seq(Keys) /\ DefaultConfig.pairs # <<>>
  BY ConfigsAssumption
<1>2. DefaultConfig.pairs[1] \in Keys
  BY <1>1
<1> QED
  BY <1>2 DEF NoRun, Run, RunRow

(* The locals of an observation, of typed parts. *)
LEMMA ObservationTyped ==
    ASSUME NEW cand \in Candidates \cup {NoCandidate}, NEW now \in Nat, NEW since \in Nat,
           NEW latest \in Nat, NEW duplicate \in BOOLEAN
    PROVE  LET o == Observation(cand, now, since, latest, duplicate)
           IN  /\ o \in ObservationRow /\ o.cand = cand /\ o.now = now
               /\ o.since = since /\ o.latest = latest /\ o.duplicate = duplicate
  BY DEF Observation, ObservationRow

(* Parts of the locals of an observation. *)
LEMMA ObservationParts ==
    ASSUME NEW o \in ObservationRow
    PROVE  /\ o.cand \in Candidates \cup {NoCandidate} /\ o.now \in Nat
           /\ o.since \in Nat /\ o.latest \in Nat /\ o.duplicate \in BOOLEAN
  BY DEF ObservationRow

(* A task without an observation. *)
LEMMA NoObservationTyped == NoObservation \in ObservationRow
  BY ObservationTyped DEF NoObservation

(* The pairs a tick may run are pairs of the configuration. *)
LEMMA BoundedPairsTyped ==
    ASSUME NEW c \in Configs
    PROVE  BoundedPairs(c) \in Seq(Keys)
<1>1. c.pairs \in Seq(Keys) /\ c.max_runs_per_tick \in Nat
  BY ConfigsAssumption
<1> QED
  BY <1>1 DEF BoundedPairs

(***************************************************************************)
(* The latest candle.                                                      *)
(***************************************************************************)

(* The natural numbers are well-ordered. *)
LEMMA LeastNat ==
    ASSUME NEW T, T \subseteq Nat, T # {}
    PROVE  \E x \in T : \A y \in T : x <= y
<1> DEFINE R == OpToRel(<, Nat)
<1>1. IsWellFoundedOn(R, Nat)
  BY NatLessThanWellFounded DEF OpToRel
<1>2. \A x, y \in Nat : <<y, x>> \in R <=> y < x
  BY DEF OpToRel
<1> HIDE DEF R
<1>3. PICK x \in T : \A y \in T : ~(<<y, x>> \in R)
  BY <1>1, WFMin
<1>4. \A y \in T : ~(y < x)
  BY <1>2, <1>3
<1> QED
  BY <1>4

(* So a bounded set of numbers has a maximum. *)
LEMMA MaxOfBounded ==
    ASSUME NEW S, S \subseteq Nat, S # {}, NEW b \in Nat, \A y \in S : y <= b
    PROVE  Max(S) \in S /\ \A y \in S : y <= Max(S)
<1> DEFINE T == {n \in Nat : \A y \in S : y <= n}
<1>1. T \subseteq Nat /\ T # {}
  BY Zenon
<1>2. PICK m \in T : \A y \in T : m <= y
  BY <1>1, LeastNat
<1>3. m \in S
  <2> SUFFICES ASSUME m \notin S PROVE FALSE
    OBVIOUS
  <2>1. PICK z \in S : TRUE
    OBVIOUS
  <2>2. \A y \in S : y < m
    OBVIOUS
  <2>3. m - 1 \in Nat /\ \A y \in S : y <= m - 1
    BY <2>1, <2>2
  <2>4. m - 1 \in T
    BY <2>3
  <2> QED
    BY <1>2, <2>4
<1>4. \A y \in S : m >= y
  BY <1>2
<1> QED
  BY <1>3, <1>4 DEF Max

(* latest_evaluated is a candle, at least every evaluated one. *)
LEMMA LatestBounds ==
    ASSUME TypeOK, CandleEvidence, NEW o \in ObservationRow
    PROVE  LatestEvaluated(o) \in Nat /\ \A c \in Evaluated(o) : c <= LatestEvaluated(o)
<1> DEFINE S == Evaluated(o) \cup {0}
<1>1. \A c \in S : c \in Nat /\ c <= MaxCandle
  <2>1. ASSUME NEW c \in Evaluated(o) PROVE c \in Nat /\ c <= MaxCandle
    <3>1. PICK r \in rows : c = r.candle
      BY <2>1 DEF Evaluated
    <3>2. r.candle \in Nat
      BY DEF TypeOK
    <3> QED
      BY <3>1, <3>2 DEF CandleEvidence
  <2> QED
    BY <2>1, BoundsAssumption
<1>2. S \subseteq Nat /\ S # {} /\ \A c \in S : c <= MaxCandle
  BY <1>1
<1> HIDE DEF S
<1>3. Max(S) \in S /\ \A c \in S : c <= Max(S)
  BY <1>2, BoundsAssumption, MaxOfBounded
<1> QED
  BY <1>2, <1>3 DEF S, LatestEvaluated

(***************************************************************************)
(* What a step does to the jobs.                                           *)
(***************************************************************************)

\* The other jobs are as they were.
Frame(w) ==
    \A v \in Workers : v # w =>
        /\ pc'[v] = pc[v] /\ op'[v] = op[v] /\ snap'[v] = snap[v]
        /\ done'[v] = done[v] /\ run'[v] = run[v] /\ obs'[v] = obs[v]

\* The job goes on with the locals of its caller.
Kept(w) ==
    op'[w] = op[w] /\ snap'[w] = snap[w] /\ done'[w] = done[w] /\ obs'[w] = obs[w]

\* The job is over.
Ended(w) == pc'[w] = "idle" /\ op'[w] = "none" /\ done'[w] = 0 /\ run'[w] = NoRun

(* Ending a job. *)
LEMMA OverEffect ==
    ASSUME JobTypes, NEW w \in Workers, Over(w)
    PROVE  JobTypes' /\ Frame(w) /\ Ended(w)
<1>1. /\ NoRun \in RunRow /\ NoObservation \in ObservationRow
      /\ Runner("STOPPED", 0, 0) \in RunnerRow /\ <<>> \in Seq(Keys)
      /\ "idle" \in Labels /\ "none" \in Ops
  BY NoRunTyped, NoObservationTyped, RunnerTyped DEF Labels, Ops, Status
<1>2. pc' \in [Workers -> Labels] /\ op' \in [Workers -> Ops] /\ done' \in [Workers -> Nat]
  BY <1>1 DEF JobTypes, Over, Goto
<1>3. snap' \in [Workers -> RunnerRow] /\ todo' \in [Workers -> Seq(Keys)]
  BY <1>1 DEF JobTypes, Over
<1>4. run' \in [Workers -> RunRow] /\ obs' \in [Workers -> ObservationRow]
  BY <1>1 DEF JobTypes, Over
<1>5. Frame(w)
  BY DEF JobTypes, Over, Goto, Frame
<1>6. Ended(w)
  BY DEF JobTypes, Over, Goto, Ended
<1> QED
  BY <1>2, <1>3, <1>4, <1>5, <1>6 DEF JobTypes

(* Returning to the caller of a run. *)
LEMMA ReturnEffect ==
    ASSUME JobTypes, NEW w \in Workers, NEW n \in Nat, Return(w, n)
    PROVE  /\ JobTypes' /\ Frame(w) /\ run'[w] = NoRun
           /\ op[w] \in TickOps =>
                 /\ pc'[w] = "pair" /\ op'[w] = op[w] /\ snap'[w] = snap[w]
                 /\ done'[w] = done[w] + n /\ obs'[w] = obs[w]
           /\ op[w] \notin TickOps => Ended(w)
<1>1. CASE op[w] \in TickOps
  <2>1. /\ Goto(w, "pair") /\ done' = [done EXCEPT ![w] = done[w] + n]
        /\ run' = [run EXCEPT ![w] = NoRun] /\ UNCHANGED <<op, snap, todo, obs>>
    BY <1>1 DEF Return
  <2>2. "pair" \in Labels /\ NoRun \in RunRow /\ done[w] + n \in Nat
    BY NoRunTyped DEF Labels, JobTypes
  <2>3. pc' \in [Workers -> Labels] /\ done' \in [Workers -> Nat] /\ run' \in [Workers -> RunRow]
    BY <2>1, <2>2 DEF JobTypes, Goto
  <2>4. Frame(w)
    BY <2>1 DEF JobTypes, Goto, Frame
  <2>5. /\ pc'[w] = "pair" /\ op'[w] = op[w] /\ snap'[w] = snap[w]
        /\ done'[w] = done[w] + n /\ obs'[w] = obs[w] /\ run'[w] = NoRun
    BY <2>1 DEF JobTypes, Goto
  <2> QED
    BY <1>1, <2>1, <2>3, <2>4, <2>5 DEF JobTypes
<1>2. CASE op[w] \notin TickOps
  BY <1>2, OverEffect DEF Return, Ended
<1> QED
  BY <1>1, <1>2

(* Moving a run on. *)
LEMMA RunEffect ==
    ASSUME JobTypes, NEW w \in Workers, NEW label \in Labels, Goto(w, label),
           NEW r \in RunRow, run' = [run EXCEPT ![w] = r],
           UNCHANGED <<op, snap, done, obs>>, todo' \in [Workers -> Seq(Keys)]
    PROVE  JobTypes' /\ Frame(w) /\ Kept(w) /\ pc'[w] = label /\ run'[w] = r
<1>1. pc' \in [Workers -> Labels] /\ run' \in [Workers -> RunRow]
  BY DEF JobTypes, Goto
<1>2. Frame(w)
  BY DEF JobTypes, Goto, Frame
<1>3. Kept(w) /\ pc'[w] = label /\ run'[w] = r
  BY DEF JobTypes, Goto, Kept
<1> QED
  BY <1>1, <1>2, <1>3 DEF JobTypes

(* Moving a job on that leaves its run alone. *)
LEMMA GotoEffect ==
    ASSUME JobTypes, NEW w \in Workers, NEW label \in Labels, Goto(w, label),
           UNCHANGED <<op, snap, todo, done, run, obs>>
    PROVE  JobTypes' /\ Frame(w) /\ Kept(w) /\ pc'[w] = label /\ run'[w] = run[w]
<1>1. pc' \in [Workers -> Labels]
  BY DEF JobTypes, Goto
<1>2. Frame(w)
  BY DEF JobTypes, Goto, Frame
<1>3. Kept(w) /\ pc'[w] = label /\ run'[w] = run[w]
  BY DEF JobTypes, Goto, Kept
<1> QED
  BY <1>1, <1>2, <1>3 DEF JobTypes

(* A run begins, with the next moment as its id. *)
LEMMA BeginEffect ==
    ASSUME TypeOK, TaskEvidence, NEW w \in Workers,
           RunPair(w) \/ RunObservation(w) \/ RunRequest(w)
    PROVE  /\ JobTypes' /\ Frame(w) /\ pc'[w] = "candle" /\ clock' = clock + 1
           /\ run'[w].created = clock + 1 /\ run'[w].candle = 0
           /\ UNCHANGED <<dbVars, histVars, updates>> /\ begun' \in Nat
           /\ ~RunRequest(w) => Kept(w) /\ pc[w] \in {"pair", "begin"}
           /\ RunRequest(w) => pc[w] = "idle" /\ op'[w] = "RUN"
<1>1. JobTypes /\ HistoryTypes
  BY TypeParts
<1>2. ASSUME NEW key \in Keys
      PROVE  LET r == Run(key, clock + 1, 0, NoKind, "none", 0, 0, NoCandidate)
             IN  r \in RunRow /\ r.created = clock + 1 /\ r.candle = 0
  BY <1>1 DEF HistoryTypes, Run, RunRow
<1>3. "candle" \in Labels
  BY DEF Labels
<1>4. CASE RunPair(w)
  <2> DEFINE key == Head(todo[w])
             r == Run(key, clock + 1, 0, NoKind, "none", 0, 0, NoCandidate)
  <2>1. todo[w] \in Seq(Keys) /\ todo[w] # <<>>
    BY <1>1, <1>4 DEF JobTypes, RunPair
  <2>2. key \in Keys /\ Tail(todo[w]) \in Seq(Keys)
    BY <2>1
  <2>3. r \in RunRow /\ r.created = clock + 1 /\ r.candle = 0
    BY <1>2, <2>2
  <2>4. /\ Goto(w, "candle") /\ run' = [run EXCEPT ![w] = r] /\ clock' = clock + 1
        /\ todo' = [todo EXCEPT ![w] = Tail(todo[w])] /\ pc[w] = "pair"
        /\ UNCHANGED <<dbVars, op, snap, done, obs, histVars, bounds>>
    BY <1>4 DEF RunPair, RunOnce, SetRun
  <2>5. todo' \in [Workers -> Seq(Keys)]
    BY <1>1, <2>2, <2>4 DEF JobTypes
  <2> HIDE DEF r
  <2>6. JobTypes' /\ Frame(w) /\ Kept(w) /\ pc'[w] = "candle" /\ run'[w] = r
    BY <1>1, <1>3, <2>3, <2>4, <2>5, RunEffect
  <2>7. ~RunRequest(w) /\ begun' \in Nat /\ UNCHANGED updates
    BY <1>1, <2>4 DEF RunRequest, Start, HistoryTypes, bounds
  <2> QED
    BY <2>3, <2>4, <2>6, <2>7
<1>5. CASE RunObservation(w)
  <2> DEFINE key == KeyOf[obs[w].cand]
             r == Run(key, clock + 1, 0, NoKind, "none", 0, 0, NoCandidate)
  <2>1. obs[w].cand \in Candidates /\ pc[w] = "begin"
    BY <1>5 DEF TaskEvidence, Task, RunObservation
  <2>2. key \in Keys
    BY <2>1, KeysAssumption
  <2>3. r \in RunRow /\ r.created = clock + 1 /\ r.candle = 0
    BY <1>2, <2>2
  <2>4. /\ Goto(w, "candle") /\ run' = [run EXCEPT ![w] = r] /\ clock' = clock + 1
        /\ UNCHANGED <<dbVars, op, snap, todo, done, obs, histVars, bounds>>
    BY <1>5 DEF RunObservation, RunOnce, SetRun
  <2> HIDE DEF r
  <2>5. JobTypes' /\ Frame(w) /\ Kept(w) /\ pc'[w] = "candle" /\ run'[w] = r
    BY <1>1, <1>3, <2>3, <2>4, RunEffect DEF JobTypes
  <2>6. ~RunRequest(w) /\ begun' \in Nat /\ UNCHANGED updates
    BY <1>1, <2>1, <2>4 DEF RunRequest, Start, HistoryTypes, bounds
  <2> QED
    BY <2>1, <2>3, <2>4, <2>5, <2>6
<1>6. CASE RunRequest(w)
  <2>1. PICK key \in Keys : RunOnce(w, key)
    BY <1>6 DEF RunRequest
  <2> DEFINE r == Run(key, clock + 1, 0, NoKind, "none", 0, 0, NoCandidate)
  <2>2. r \in RunRow /\ r.created = clock + 1 /\ r.candle = 0
    BY <1>2
  <2>3. /\ Goto(w, "candle") /\ run' = [run EXCEPT ![w] = r] /\ clock' = clock + 1
        /\ op' = [op EXCEPT ![w] = "RUN"] /\ pc[w] = "idle"
        /\ begun' = begun + 1 /\ UNCHANGED updates
        /\ UNCHANGED <<dbVars, snap, todo, done, obs, histVars>>
    BY <1>6, <2>1 DEF RunRequest, RunOnce, SetRun, Start
  <2> HIDE DEF r
  <2>4. pc' \in [Workers -> Labels] /\ run' \in [Workers -> RunRow] /\ "RUN" \in Ops
    BY <1>1, <1>3, <2>2, <2>3 DEF JobTypes, Goto, Ops
  <2>5. op' \in [Workers -> Ops]
    BY <1>1, <2>3, <2>4 DEF JobTypes
  <2>6. JobTypes'
    BY <1>1, <2>3, <2>4, <2>5 DEF JobTypes
  <2>7. Frame(w)
    BY <1>1, <2>3 DEF JobTypes, Goto, Frame
  <2>8. pc'[w] = "candle" /\ op'[w] = "RUN" /\ run'[w] = r
    BY <1>1, <2>3 DEF JobTypes, Goto
  <2>9. begun' \in Nat
    BY <1>1, <2>3 DEF HistoryTypes
  <2> QED
    BY <1>6, <2>2, <2>3, <2>6, <2>7, <2>8, <2>9
<1> QED
  BY <1>4, <1>5, <1>6

\* The run is still the one that began.
Carried(w) == run'[w].key = run[w].key /\ run'[w].created = run[w].created

(* The locals of a task are typed. *)
LEMMA LocalParts ==
    ASSUME TypeOK, NEW w \in Workers
    PROVE  /\ run[w] \in RunRow /\ run[w].key \in Keys /\ run[w].created \in Nat
           /\ run[w].candle \in Nat /\ run[w].kind \in Kinds \cup {NoKind}
           /\ run[w].decision \in Decision \cup {"none"}
           /\ run[w].signal \in Nat /\ run[w].risk \in Nat
           /\ run[w].cand \in Candidates \cup {NoCandidate}
           /\ obs[w] \in ObservationRow
           /\ obs[w].cand \in Candidates \cup {NoCandidate} /\ obs[w].now \in Nat
           /\ obs[w].since \in Nat /\ obs[w].latest \in Nat /\ obs[w].duplicate \in BOOLEAN
<1>1. run[w] \in RunRow /\ obs[w] \in ObservationRow
  BY TypeParts DEF JobTypes
<1>2. /\ run[w].key \in Keys /\ run[w].created \in Nat
      /\ run[w].candle \in Nat /\ run[w].kind \in Kinds \cup {NoKind}
      /\ run[w].decision \in Decision \cup {"none"}
      /\ run[w].signal \in Nat /\ run[w].risk \in Nat
      /\ run[w].cand \in Candidates \cup {NoCandidate}
  BY <1>1, RunParts
<1>3. /\ obs[w].cand \in Candidates \cup {NoCandidate} /\ obs[w].now \in Nat
      /\ obs[w].since \in Nat /\ obs[w].latest \in Nat /\ obs[w].duplicate \in BOOLEAN
  BY <1>1, ObservationParts
<1> QED
  BY <1>1, <1>2, <1>3

(* A run that ends without a signal. *)
LEMMA NothingEffect ==
    ASSUME TypeOK, NEW w \in Workers, EvaluateNothing(w)
    PROVE  /\ JobTypes' /\ Frame(w) /\ Kept(w) /\ Carried(w)
           /\ pc[w] = "candle" /\ pc'[w] = "match"
           /\ run'[w].candle = candle[run[w].key]
           /\ run'[w].decision \in {"SKIPPED", "NO_SIGNAL"} /\ run'[w].risk = 0
           /\ last' = last \/ last' = [last EXCEPT ![StrategyOf[run[w].key]] = 0]
           /\ UNCHANGED <<config, runner, candle, candidate, signals, decisions,
                          rows, links, clock, histVars, bounds>>
<1> DEFINE seen == candle[run[w].key]
<1>1. JobTypes /\ seen \in Nat /\ run[w].key \in Keys /\ run[w].created \in Nat
  BY TypeParts, LocalParts DEF DbTypes
<1>2. PICK decision \in WithoutSignal(seen) :
        /\ SetRun(w, run[w].key, run[w].created, seen, NoKind, decision, 0, 0, NoCandidate)
        /\ last' = IF decision = "NO_SIGNAL"
                   THEN [last EXCEPT ![StrategyOf[run[w].key]] = 0] ELSE last
  BY DEF EvaluateNothing
<1>3. decision \in {"SKIPPED", "NO_SIGNAL"} /\ {"SKIPPED", "NO_SIGNAL"} \subseteq Decision
  BY DEF WithoutSignal, Decision, Completed
<1> DEFINE r == Run(run[w].key, run[w].created, seen, NoKind, decision, 0, 0, NoCandidate)
<1>4. /\ Goto(w, "match") /\ pc[w] = "candle" /\ "match" \in Labels
      /\ UNCHANGED <<config, runner, candle, candidate, signals, decisions, rows, links,
                     clock, op, snap, todo, done, obs, histVars, bounds>>
  BY DEF EvaluateNothing, Labels
<1> HIDE DEF seen
<1>5. /\ r \in RunRow /\ r.key = run[w].key /\ r.created = run[w].created
      /\ r.candle = seen /\ r.decision = decision /\ r.risk = 0
  BY <1>1, <1>3 DEF Run, RunRow
<1>6. run' = [run EXCEPT ![w] = r]
  BY <1>2 DEF SetRun
<1> HIDE DEF r
<1>7. JobTypes' /\ Frame(w) /\ Kept(w) /\ pc'[w] = "match" /\ run'[w] = r
  BY <1>1, <1>4, <1>5, <1>6, RunEffect DEF JobTypes
<1> QED
  BY <1>2, <1>3, <1>4, <1>5, <1>7 DEF Carried, seen

(* A run whose strategy generates a signal. *)
LEMMA SignalEffect ==
    ASSUME TypeOK, NEW w \in Workers, EvaluateSignal(w)
    PROVE  /\ JobTypes' /\ Frame(w) /\ Kept(w) /\ Carried(w)
           /\ pc[w] = "candle" /\ pc'[w] = "signal"
           /\ run'[w].candle = candle[run[w].key] /\ run'[w].kind \in Kinds
           /\ UNCHANGED <<dbVars, clock, histVars, bounds>>
<1> DEFINE seen == candle[run[w].key]
<1>0. PICK kind \in Kinds :
        SetRun(w, run[w].key, run[w].created, seen, kind, "none", 0, 0, NoCandidate)
  BY DEF EvaluateSignal
<1> DEFINE r == Run(run[w].key, run[w].created, seen, kind, "none", 0, 0, NoCandidate)
<1>1. JobTypes /\ seen \in Nat /\ run[w].key \in Keys /\ run[w].created \in Nat
  BY TypeParts, LocalParts DEF DbTypes
<1>2. /\ Goto(w, "signal") /\ pc[w] = "candle" /\ "signal" \in Labels
      /\ run' = [run EXCEPT ![w] = r]
      /\ UNCHANGED <<dbVars, clock, op, snap, todo, done, obs, histVars, bounds>>
  BY <1>0 DEF EvaluateSignal, SetRun, Labels
<1> HIDE DEF seen
<1>3. /\ r \in RunRow /\ r.key = run[w].key /\ r.created = run[w].created
      /\ r.candle = seen /\ r.kind = kind
  BY <1>1 DEF Run, RunRow
<1> HIDE DEF r
<1>4. JobTypes' /\ Frame(w) /\ Kept(w) /\ pc'[w] = "signal" /\ run'[w] = r
  BY <1>1, <1>2, <1>3, RunEffect DEF JobTypes
<1> QED
  BY <1>2, <1>3, <1>4 DEF Carried, seen

(* The deduplicated insertion of a signal. *)
LEMMA InsertSignalEffect ==
    ASSUME TypeOK, TaskEvidence, NEW w \in Workers, InsertSignal(w)
    PROVE  /\ JobTypes' /\ Frame(w) /\ Kept(w) /\ Carried(w)
           /\ pc[w] = "signal" /\ pc'[w] = "risk"
           /\ run'[w].candle = run[w].candle /\ run'[w].kind = run[w].kind
           /\ run'[w].risk = 0
           /\ \E s \in signals' : /\ s.id = run'[w].signal /\ s.key = run[w].key
                                  /\ s.candle = run[w].candle /\ s.kind = run[w].kind
                                  /\ last' = [last EXCEPT ![StrategyOf[run[w].key]] = s.id]
           /\ \/ signals' = signals /\ Identical(run[w]) # {}
              \/ /\ Identical(run[w]) = {} /\ run'[w].signal = run[w].created
                 /\ signals' = signals \cup {[id |-> run[w].created, key |-> run[w].key,
                                              candle |-> run[w].candle,
                                              kind |-> run[w].kind]}
           /\ UNCHANGED <<config, runner, candle, candidate, decisions,
                          rows, links, clock, histVars, bounds>>
<1> DEFINE new == [id |-> run[w].created, key |-> run[w].key, candle |-> run[w].candle,
                   kind |-> run[w].kind]
           same == Identical(run[w])
<1>1. /\ JobTypes /\ signals \subseteq SignalRow /\ run[w].key \in Keys
      /\ run[w].created \in Nat /\ run[w].candle \in Nat /\ run[w].kind \in Kinds
  BY TypeParts, LocalParts DEF DbTypes, TaskEvidence, Task, InsertSignal
<1>2. /\ pc[w] = "signal" /\ Goto(w, "risk") /\ "risk" \in Labels
      /\ signals' = IF same = {} THEN signals \cup {new} ELSE signals
      /\ UNCHANGED <<config, runner, candle, candidate, decisions,
                     rows, links, clock, op, snap, todo, done, obs, histVars, bounds>>
  BY DEF InsertSignal, Deduped, Labels
<1>3. PICK s \in IF same = {} THEN {new} ELSE same :
        /\ SetRun(w, run[w].key, run[w].created, run[w].candle, run[w].kind, "none", s.id, 0,
                  NoCandidate)
        /\ last' = [last EXCEPT ![StrategyOf[run[w].key]] = s.id]
  BY DEF InsertSignal, Deduped
<1>4. \A t \in same : /\ t \in signals /\ t.key = run[w].key /\ t.candle = run[w].candle
                      /\ t.kind = run[w].kind
  BY DEF Identical
<1>5. /\ new \in SignalRow /\ new.id = run[w].created /\ new.key = run[w].key
      /\ new.candle = run[w].candle /\ new.kind = run[w].kind
  BY <1>1 DEF SignalRow
<1> HIDE DEF new, same
<1>6. /\ s \in signals' /\ s.key = run[w].key /\ s.candle = run[w].candle
      /\ s.kind = run[w].kind /\ s.id \in Nat
      /\ same = {} => s.id = run[w].created
  <2>1. CASE same = {}
    BY <1>1, <1>2, <1>3, <1>5, <2>1
  <2>2. CASE same # {}
    BY <1>1, <1>2, <1>3, <1>4, <2>2 DEF SignalRow
  <2> QED
    BY <2>1, <2>2
<1> DEFINE r == Run(run[w].key, run[w].created, run[w].candle, run[w].kind, "none", s.id, 0,
                    NoCandidate)
<1>7. /\ r \in RunRow /\ r.key = run[w].key /\ r.created = run[w].created
      /\ r.candle = run[w].candle /\ r.kind = run[w].kind /\ r.signal = s.id /\ r.risk = 0
  BY <1>1, <1>6 DEF Run, RunRow
<1>8. run' = [run EXCEPT ![w] = r]
  BY <1>3 DEF SetRun
<1> HIDE DEF r
<1>9. JobTypes' /\ Frame(w) /\ Kept(w) /\ pc'[w] = "risk" /\ run'[w] = r
  BY <1>1, <1>2, <1>7, <1>8, RunEffect DEF JobTypes
<1>10. \/ signals' = signals /\ same # {}
       \/ same = {} /\ run'[w].signal = run[w].created /\ signals' = signals \cup {new}
  BY <1>2, <1>6, <1>7, <1>9
<1>11. \E t \in signals' : /\ t.id = run'[w].signal /\ t.key = run[w].key
                           /\ t.candle = run[w].candle /\ t.kind = run[w].kind
                           /\ last' = [last EXCEPT ![StrategyOf[run[w].key]] = t.id]
  BY <1>3, <1>6, <1>7, <1>9
<1> QED
  BY <1>2, <1>7, <1>9, <1>10, <1>11 DEF Carried, new, same

\* A risk decision for the run's signal is recorded.
RiskDecided(w) ==
    \E d \in DecisionRow :
        /\ decisions' = decisions \cup {d}
        /\ d.id = run[w].created /\ d.signal = run[w].signal
        /\ d.approved <=> run'[w].decision # "RISK_REJECTED"

(* The risk decision. *)
LEMMA RiskEffect ==
    ASSUME TypeOK, NEW w \in Workers, EvaluateRisk(w)
    PROVE  /\ JobTypes' /\ Frame(w) /\ Kept(w) /\ Carried(w)
           /\ pc[w] = "risk" /\ pc'[w] = "match"
           /\ run'[w].candle = run[w].candle /\ run'[w].kind = run[w].kind
           /\ run'[w].signal = run[w].signal /\ run'[w].risk = run[w].created
           /\ run'[w].decision \in {"WOULD_SUBMIT", "RISK_REJECTED", "SKIPPED_STALE_PRICE"}
           /\ RiskDecided(w)
           /\ UNCHANGED <<config, runner, candle, candidate, signals, last,
                          rows, links, clock, histVars, bounds>>
<1>1. /\ JobTypes /\ run[w].key \in Keys /\ run[w].created \in Nat
      /\ run[w].candle \in Nat /\ run[w].kind \in Kinds \cup {NoKind}
      /\ run[w].signal \in Nat
  BY TypeParts, LocalParts
<1>2. PICK approved \in BOOLEAN, priced \in BOOLEAN :
        /\ decisions' = decisions \cup
              {[id |-> run[w].created, signal |-> run[w].signal, approved |-> approved]}
        /\ SetRun(w, run[w].key, run[w].created, run[w].candle, run[w].kind,
                  IF ~approved THEN "RISK_REJECTED"
                  ELSE IF priced THEN "WOULD_SUBMIT" ELSE "SKIPPED_STALE_PRICE",
                  run[w].signal, run[w].created, NoCandidate)
  BY DEF EvaluateRisk
<1> DEFINE d == [id |-> run[w].created, signal |-> run[w].signal, approved |-> approved]
           decision == IF ~approved THEN "RISK_REJECTED"
                       ELSE IF priced THEN "WOULD_SUBMIT" ELSE "SKIPPED_STALE_PRICE"
           r == Run(run[w].key, run[w].created, run[w].candle, run[w].kind, decision,
                    run[w].signal, run[w].created, NoCandidate)
<1>3. /\ pc[w] = "risk" /\ Goto(w, "match") /\ "match" \in Labels
      /\ UNCHANGED <<config, runner, candle, candidate, signals, last,
                     rows, links, clock, op, snap, todo, done, obs, histVars, bounds>>
  BY DEF EvaluateRisk, Labels
<1>4. /\ decision \in {"WOULD_SUBMIT", "RISK_REJECTED", "SKIPPED_STALE_PRICE"}
      /\ decision \in Decision
  BY DEF Decision, Completed
<1>5. approved <=> decision # "RISK_REJECTED"
  OBVIOUS
<1>6. run' = [run EXCEPT ![w] = r] /\ decisions' = decisions \cup {d}
  BY <1>2 DEF SetRun
<1>7. /\ d \in DecisionRow /\ d.id = run[w].created /\ d.signal = run[w].signal
      /\ d.approved = approved
  BY <1>1 DEF DecisionRow
<1> HIDE DEF decision, d
<1>8. /\ r \in RunRow /\ r.key = run[w].key /\ r.created = run[w].created
      /\ r.candle = run[w].candle /\ r.kind = run[w].kind
      /\ r.signal = run[w].signal /\ r.risk = run[w].created
      /\ r.decision = decision
  BY <1>1, <1>4 DEF Run, RunRow
<1> HIDE DEF r
<1>9. JobTypes' /\ Frame(w) /\ Kept(w) /\ pc'[w] = "match" /\ run'[w] = r
  BY <1>1, <1>3, <1>6, <1>8, RunEffect DEF JobTypes
<1>10. RiskDecided(w)
  <2>1. d.approved <=> run'[w].decision # "RISK_REJECTED"
    BY <1>5, <1>7, <1>8, <1>9, Zenon
  <2> QED
    BY <1>6, <1>7, <2>1, Zenon DEF RiskDecided
<1>11. /\ Carried(w) /\ run'[w].candle = run[w].candle /\ run'[w].kind = run[w].kind
       /\ run'[w].signal = run[w].signal /\ run'[w].risk = run[w].created
       /\ run'[w].decision \in {"WOULD_SUBMIT", "RISK_REJECTED", "SKIPPED_STALE_PRICE"}
  BY <1>4, <1>8, <1>9 DEF Carried
<1>12. /\ pc[w] = "risk"
       /\ UNCHANGED <<config, runner, candle, candidate, signals, last,
                      rows, links, clock, histVars, bounds>>
  BY <1>3
<1> QED
  BY <1>9, <1>10, <1>11, <1>12

(* The candidate of a run. *)
LEMMA MatchEffect ==
    ASSUME TypeOK, NEW w \in Workers, MatchCandidate(w)
    PROVE  /\ JobTypes' /\ Frame(w) /\ Kept(w) /\ Carried(w)
           /\ pc[w] = "match" /\ pc'[w] = "insert"
           /\ run'[w].candle = run[w].candle /\ run'[w].kind = run[w].kind
           /\ run'[w].decision = run[w].decision
           /\ run'[w].signal = run[w].signal /\ run'[w].risk = run[w].risk
           /\ UNCHANGED <<dbVars, clock, histVars, bounds>>
<1> DEFINE cand == Resolved(run[w].key)
           r == Run(run[w].key, run[w].created, run[w].candle, run[w].kind, run[w].decision,
                    run[w].signal, run[w].risk, cand)
<1>1. /\ JobTypes /\ run[w].key \in Keys /\ run[w].created \in Nat
      /\ run[w].candle \in Nat /\ run[w].kind \in Kinds \cup {NoKind}
      /\ run[w].decision \in Decision \cup {"none"}
      /\ run[w].signal \in Nat /\ run[w].risk \in Nat
  BY TypeParts, LocalParts
<1>2. cand \in Candidates \cup {NoCandidate}
  BY DEF Resolved
<1>3. /\ pc[w] = "match" /\ Goto(w, "insert") /\ "insert" \in Labels
      /\ run' = [run EXCEPT ![w] = r]
      /\ UNCHANGED <<dbVars, clock, op, snap, todo, done, obs, histVars, bounds>>
  BY DEF MatchCandidate, SetRun, Labels
<1> HIDE DEF cand
<1>4. /\ r \in RunRow /\ r.key = run[w].key /\ r.created = run[w].created
      /\ r.candle = run[w].candle /\ r.kind = run[w].kind /\ r.decision = run[w].decision
      /\ r.signal = run[w].signal /\ r.risk = run[w].risk
  BY <1>1, <1>2 DEF Run, RunRow
<1> HIDE DEF r
<1>5. JobTypes' /\ Frame(w) /\ Kept(w) /\ pc'[w] = "insert" /\ run'[w] = r
  BY <1>1, <1>3, <1>4, RunEffect DEF JobTypes
<1> QED
  BY <1>3, <1>4, <1>5 DEF Carried

(* The row of a run. *)
LEMMA InsertRunEffect ==
    ASSUME TypeOK, TaskEvidence, NEW w \in Workers, InsertRun(w)
    PROVE  /\ JobTypes' /\ Frame(w) /\ Kept(w) /\ run'[w] = run[w]
           /\ pc[w] = "insert" /\ pc'[w] = "link"
           /\ \E x \in ShadowRow :
                 /\ rows' = rows \cup {x} /\ x.id = run[w].created /\ x.key = run[w].key
                 /\ x.candle = run[w].candle /\ x.decision = run[w].decision
                 /\ x.risk = run[w].risk
                 /\ x.signal \in IF run[w].risk = 0 THEN {0} ELSE Stabilized(run[w])
           /\ recorded' = IF op[w] \in TickOps THEN recorded + 1 ELSE recorded
           /\ UNCHANGED <<config, runner, candle, candidate, signals, last, decisions,
                          links, clock, claims, word, overlap, bounds>>
<1>1. JobTypes /\ signals \subseteq SignalRow
  BY TypeParts DEF DbTypes
<1>2. /\ pc[w] = "insert" /\ Goto(w, "link") /\ "link" \in Labels
      /\ recorded' = IF op[w] \in TickOps THEN recorded + 1 ELSE recorded
      /\ UNCHANGED <<config, runner, candle, candidate, signals, last, decisions, links,
                     clock, op, snap, todo, done, run, obs, claims, word, overlap, bounds>>
  BY DEF InsertRun, Labels
<1>3. PICK signal \in IF run[w].risk = 0 THEN {0} ELSE Stabilized(run[w]) :
         rows' = rows \cup {[id |-> run[w].created, key |-> run[w].key,
                             candle |-> run[w].candle, decision |-> run[w].decision,
                             signal |-> signal, risk |-> run[w].risk]}
  BY DEF InsertRun
<1>4. /\ run[w].key \in Keys /\ run[w].created \in Nat /\ run[w].candle \in Nat
      /\ run[w].risk \in Nat /\ run[w].decision \in Decision
  BY <1>2, LocalParts DEF TaskEvidence, Task
<1>5. signal \in Nat
  <2>1. \A s \in signals : s.id \in Nat
    BY <1>1 DEF SignalRow
  <2> QED
    BY <1>3, <1>4, <2>1 DEF Stabilized, Identical
<1> DEFINE x == [id |-> run[w].created, key |-> run[w].key, candle |-> run[w].candle,
                 decision |-> run[w].decision, signal |-> signal, risk |-> run[w].risk]
<1>6. /\ x \in ShadowRow /\ x.id = run[w].created /\ x.key = run[w].key
      /\ x.candle = run[w].candle /\ x.decision = run[w].decision
      /\ x.risk = run[w].risk /\ x.signal = signal
  BY <1>4, <1>5 DEF ShadowRow
<1>7. rows' = rows \cup {x}
  BY <1>3
<1> HIDE DEF x
<1>8. JobTypes' /\ Frame(w) /\ Kept(w) /\ pc'[w] = "link" /\ run'[w] = run[w]
  BY <1>1, <1>2, GotoEffect
<1> QED
  BY <1>2, <1>6, <1>7, <1>8

(* The link of a run, after which its caller goes on. *)
LEMMA LinkEffect ==
    ASSUME TypeOK, TaskEvidence, NEW w \in Workers, LinkRun(w)
    PROVE  /\ JobTypes' /\ Frame(w) /\ run'[w] = NoRun /\ pc[w] = "link"
           /\ op[w] \in TickOps =>
                 /\ pc'[w] = "pair" /\ op'[w] = op[w] /\ snap'[w] = snap[w]
                 /\ done'[w] = done[w] + 1 /\ obs'[w] = obs[w]
           /\ op[w] \notin TickOps => Ended(w)
           /\ links \subseteq links' /\ links' \subseteq [run : Nat, cand : Candidates]
           /\ UNCHANGED <<config, runner, candle, candidate, signals, last, decisions,
                          rows, clock, recorded, word, overlap, bounds>>
<1>1. JobTypes /\ links \subseteq [run : Nat, cand : Candidates]
  BY TypeParts DEF DbTypes
<1>2. /\ pc[w] = "link" /\ Return(w, 1)
      /\ UNCHANGED <<config, runner, candle, candidate, signals, last, decisions,
                     rows, clock, recorded, word, overlap, bounds>>
  BY DEF LinkRun
<1>3. /\ JobTypes' /\ Frame(w) /\ run'[w] = NoRun
      /\ op[w] \in TickOps =>
            /\ pc'[w] = "pair" /\ op'[w] = op[w] /\ snap'[w] = snap[w]
            /\ done'[w] = done[w] + 1 /\ obs'[w] = obs[w]
      /\ op[w] \notin TickOps => Ended(w)
  BY <1>1, <1>2, ReturnEffect
<1>4. links \subseteq links' /\ links' \subseteq [run : Nat, cand : Candidates]
  <2>1. run[w].created \in Nat /\ run[w].cand \in Candidates \cup {NoCandidate}
    BY LocalParts
  <2>2. Linkable(run[w]) => run[w].cand \in Candidates
    BY <2>1 DEF Linkable
  <2>3. \/ links' = links
        \/ /\ Linkable(run[w])
           /\ links' = links \cup {[run |-> run[w].created, cand |-> run[w].cand]}
    BY DEF LinkRun
  <2> QED
    BY <1>1, <2>1, <2>2, <2>3
<1> QED
  BY <1>2, <1>3, <1>4

(* A failed run. *)
LEMMA FailEffect ==
    ASSUME TypeOK, NEW w \in Workers, FailRun(w)
    PROVE  /\ JobTypes' /\ Frame(w) /\ run'[w] = NoRun /\ pc[w] \in Running
           /\ op[w] \in TickOps =>
                 /\ pc'[w] = "pair" /\ op'[w] = op[w] /\ snap'[w] = snap[w]
                 /\ done'[w] = done[w] /\ obs'[w] = obs[w]
           /\ op[w] \notin TickOps => Ended(w)
           /\ UNCHANGED <<dbVars, clock, histVars, bounds>>
<1>1. JobTypes /\ done[w] \in Nat
  BY TypeParts DEF JobTypes
<1>2. /\ pc[w] \in Running /\ Return(w, 0)
      /\ UNCHANGED <<dbVars, clock, histVars, bounds>>
  BY DEF FailRun, Running, RunLabels
<1>3. /\ JobTypes' /\ Frame(w) /\ run'[w] = NoRun
      /\ op[w] \in TickOps =>
            /\ pc'[w] = "pair" /\ op'[w] = op[w] /\ snap'[w] = snap[w]
            /\ done'[w] = done[w] + 0 /\ obs'[w] = obs[w]
      /\ op[w] \notin TickOps => Ended(w)
  BY <1>1, <1>2, ReturnEffect
<1>4. done[w] + 0 = done[w]
  BY <1>1
<1> QED
  BY <1>2, <1>3, <1>4

\* What a tick is while it reads: one that validated its configuration, or not.
ReadingOps == TickOps \cup {"INVALID"}

(* A tick that begins, or is disabled. *)
LEMMA StartTickEffect ==
    ASSUME TypeOK, NEW w \in Workers, StartTick(w)
    PROVE  /\ JobTypes' /\ Frame(w) /\ pc[w] = "idle" /\ begun' \in Nat
           /\ \/ Ended(w)
              \/ /\ pc'[w] = "state" /\ op'[w] \in ReadingOps /\ snap'[w] = snap[w]
                 /\ done'[w] = done[w] /\ run'[w] = run[w]
           /\ UNCHANGED <<dbVars, clock, histVars, updates>>
<1>1. JobTypes /\ config \in Configs /\ begun \in Nat
  BY TypeParts DEF DbTypes, HistoryTypes
<1>2. /\ pc[w] = "idle" /\ begun' = begun + 1
      /\ UNCHANGED <<dbVars, clock, histVars, updates>>
  BY DEF StartTick, Start
<1>3. CASE Over(w)
  BY <1>1, <1>2, <1>3, OverEffect
<1>4. ASSUME NEW kind \in ReadingOps, Goto(w, "state"), op' = [op EXCEPT ![w] = kind],
             todo' = [todo EXCEPT ![w] = BoundedPairs(config)],
             UNCHANGED <<snap, done, run, obs>>
      PROVE  /\ JobTypes' /\ Frame(w)
             /\ pc'[w] = "state" /\ op'[w] \in ReadingOps /\ snap'[w] = snap[w]
             /\ done'[w] = done[w] /\ run'[w] = run[w]
  <2>1. "state" \in Labels /\ kind \in Ops /\ BoundedPairs(config) \in Seq(Keys)
    BY <1>1, BoundedPairsTyped DEF Labels, Ops, ReadingOps
  <2>2. pc' \in [Workers -> Labels] /\ op' \in [Workers -> Ops]
    BY <1>1, <1>4, <2>1 DEF JobTypes, Goto
  <2>3. todo' \in [Workers -> Seq(Keys)]
    BY <1>1, <1>4, <2>1 DEF JobTypes
  <2>4. JobTypes'
    BY <1>1, <1>4, <2>2, <2>3 DEF JobTypes
  <2>5. Frame(w)
    BY <1>1, <1>4 DEF JobTypes, Goto, Frame
  <2>6. /\ pc'[w] = "state" /\ op'[w] \in ReadingOps /\ snap'[w] = snap[w]
        /\ done'[w] = done[w] /\ run'[w] = run[w]
    BY <1>1, <1>4 DEF JobTypes, Goto
  <2> QED
    BY <2>4, <2>5, <2>6
<1>5. begun' \in Nat
  BY <1>1, <1>2
<1>6. PICK kind \in TickOps :
        IF kind = "TICK" /\ config.valid /\ ~config.enabled
        THEN Over(w)
        ELSE /\ Goto(w, "state")
             /\ op' = [op EXCEPT ![w] = IF config.valid THEN kind ELSE "INVALID"]
             /\ todo' = [todo EXCEPT ![w] = BoundedPairs(config)]
             /\ UNCHANGED <<snap, done, run, obs>>
  BY DEF StartTick
<1>7. CASE ~Over(w)
  <2>1. /\ JobTypes' /\ Frame(w)
        /\ pc'[w] = "state" /\ op'[w] \in ReadingOps /\ snap'[w] = snap[w]
        /\ done'[w] = done[w] /\ run'[w] = run[w]
    <3>1. (IF config.valid THEN kind ELSE "INVALID") \in ReadingOps
      BY DEF ReadingOps
    <3>2. PICK known \in ReadingOps : known = IF config.valid THEN kind ELSE "INVALID"
      BY <3>1
    <3> QED
      BY <1>4, <1>6, <1>7, <3>2
  <2> QED
    BY <1>2, <1>5, <2>1
<1> QED
  BY <1>2, <1>3, <1>5, <1>7

\* The job has just read the runner's state.
Snapped(w) ==
    /\ snap'[w] = runner /\ done'[w] = done[w] /\ run'[w] = run[w] /\ obs'[w] = obs[w]
    /\ overlap' = (overlap \/ \E v \in Workers \ {w} : Holding(v))

(* A tick that reads the runner's state, or finds it not running. *)
LEMMA LoadStateEffect ==
    ASSUME TypeOK, NEW w \in Workers, LoadState(w)
    PROVE  /\ JobTypes' /\ Frame(w) /\ pc[w] = "state"
           /\ \/ Ended(w) /\ UNCHANGED overlap
              \/ /\ pc'[w] = IF op[w] = "INVALID" THEN "write" ELSE "pair"
                 /\ op'[w] = op[w] /\ Snapped(w)
           /\ UNCHANGED <<dbVars, clock, recorded, claims, word, bounds>>
<1>1. JobTypes /\ runner \in RunnerRow
  BY TypeParts DEF DbTypes
<1>2. pc[w] = "state" /\ UNCHANGED <<dbVars, clock, recorded, claims, word, bounds>>
  BY DEF LoadState
<1>3. CASE Over(w) /\ UNCHANGED overlap
  BY <1>1, <1>2, <1>3, OverEffect
<1>4. CASE /\ Goto(w, IF op[w] = "INVALID" THEN "write" ELSE "pair")
           /\ TakeSnapshot(w) /\ UNCHANGED <<op, todo, done, run, obs>>
  <2>0. (IF op[w] = "INVALID" THEN "write" ELSE "pair") \in Labels
    BY DEF Labels
  <2>1. pc' \in [Workers -> Labels]
    BY <1>1, <1>4, <2>0 DEF JobTypes, Goto
  <2>2. snap' \in [Workers -> RunnerRow]
    BY <1>1, <1>4 DEF JobTypes, TakeSnapshot
  <2>3. JobTypes'
    BY <1>1, <1>4, <2>1, <2>2 DEF JobTypes
  <2>4. Frame(w)
    BY <1>1, <1>4 DEF JobTypes, Goto, TakeSnapshot, Frame
  <2>5. /\ pc'[w] = IF op[w] = "INVALID" THEN "write" ELSE "pair"
        /\ op'[w] = op[w] /\ Snapped(w)
    BY <1>1, <1>4 DEF JobTypes, Goto, TakeSnapshot, Snapped
  <2> QED
    BY <1>2, <2>3, <2>4, <2>5
<1> QED
  BY <1>3, <1>4 DEF LoadState

(* A control action that reads it, or is refused. *)
LEMMA StartControlEffect ==
    ASSUME TypeOK, NEW w \in Workers, StartControl(w)
    PROVE  /\ JobTypes' /\ Frame(w) /\ pc[w] = "idle" /\ begun' \in Nat
           /\ \/ Ended(w) /\ UNCHANGED overlap
              \/ pc'[w] = "write" /\ op'[w] \in ControlOps /\ Snapped(w)
           /\ UNCHANGED <<dbVars, clock, recorded, claims, word, updates>>
<1>1. JobTypes /\ runner \in RunnerRow /\ begun \in Nat
  BY TypeParts DEF DbTypes, HistoryTypes
<1>2. /\ pc[w] = "idle" /\ begun' = begun + 1
      /\ UNCHANGED <<dbVars, clock, recorded, claims, word, updates>>
  BY DEF StartControl, Start
<1>3. begun' \in Nat
  BY <1>1, <1>2
<1>4. CASE Over(w) /\ UNCHANGED overlap
  BY <1>1, <1>2, <1>3, <1>4, OverEffect
<1>5. ASSUME NEW kind \in ControlOps, Goto(w, "write"), op' = [op EXCEPT ![w] = kind],
             TakeSnapshot(w), UNCHANGED <<todo, done, run, obs>>
      PROVE  /\ JobTypes' /\ Frame(w)
             /\ pc'[w] = "write" /\ op'[w] \in ControlOps /\ Snapped(w)
  <2>1. pc' \in [Workers -> Labels] /\ kind \in Ops
    BY <1>1, <1>5 DEF JobTypes, Goto, Labels, Ops
  <2>2. snap' \in [Workers -> RunnerRow] /\ op' \in [Workers -> Ops]
    BY <1>1, <1>5, <2>1 DEF JobTypes, TakeSnapshot
  <2>3. JobTypes'
    BY <1>1, <1>5, <2>1, <2>2 DEF JobTypes
  <2>4. Frame(w)
    BY <1>1, <1>5 DEF JobTypes, Goto, TakeSnapshot, Frame
  <2>5. pc'[w] = "write" /\ op'[w] \in ControlOps /\ Snapped(w)
    BY <1>1, <1>5 DEF JobTypes, Goto, TakeSnapshot, Snapped
  <2> QED
    BY <2>3, <2>4, <2>5
<1>6. PICK kind \in ControlOps :
        IF MayControl(kind, runner.status)
        THEN /\ Goto(w, "write") /\ op' = [op EXCEPT ![w] = kind] /\ TakeSnapshot(w)
             /\ UNCHANGED <<todo, done, run, obs>>
        ELSE Over(w) /\ UNCHANGED overlap
  BY DEF StartControl
<1>7. CASE ~(Over(w) /\ UNCHANGED overlap)
  <2>1. /\ JobTypes' /\ Frame(w)
        /\ pc'[w] = "write" /\ op'[w] \in ControlOps /\ Snapped(w)
    BY <1>5, <1>6, <1>7
  <2> QED
    BY <1>2, <1>3, <2>1
<1> QED
  BY <1>4, <1>7

(* The two writes of the runner's state end their jobs. *)
LEMMA SaveEffect ==
    ASSUME TypeOK, NEW w \in Workers, SaveTick(w) \/ SaveStatus(w)
    PROVE  /\ JobTypes' /\ Frame(w) /\ Ended(w) /\ runner' \in RunnerRow
           /\ \/ /\ pc[w] = "pair" /\ UNCHANGED word
                 /\ runner'.status = snap[w].status
                 /\ runner'.total_runs = snap[w].total_runs + done[w]
              \/ /\ pc[w] = "write" /\ runner'.status = word' /\ word' \in Status
                 /\ runner'.total_runs = snap[w].total_runs
           /\ UNCHANGED <<config, candle, candidate, signals, last, decisions, rows,
                          links, clock, recorded, claims, overlap, bounds>>
<1>1. JobTypes /\ snap[w] \in RunnerRow /\ done[w] \in Nat
  BY TypeParts DEF JobTypes
<1>2. /\ snap[w].status \in Status /\ snap[w].total_ticks \in Nat
      /\ snap[w].total_runs \in Nat
  BY <1>1 DEF RunnerRow
<1>3. CASE SaveTick(w)
  <2>1. /\ pc[w] = "pair" /\ Over(w)
        /\ runner' = Runner(snap[w].status, snap[w].total_ticks + 1,
                            snap[w].total_runs + done[w])
        /\ UNCHANGED <<config, candle, candidate, signals, last, decisions, rows,
                       links, clock, recorded, claims, overlap, word, bounds>>
    BY <1>3 DEF SaveTick, Ticked, histVars
  <2>2. snap[w].total_ticks + 1 \in Nat /\ snap[w].total_runs + done[w] \in Nat
    BY <1>1, <1>2
  <2>3. /\ runner' \in RunnerRow /\ runner'.status = snap[w].status
        /\ runner'.total_runs = snap[w].total_runs + done[w]
    BY <1>2, <2>1, <2>2, RunnerTyped
  <2>4. JobTypes' /\ Frame(w) /\ Ended(w)
    BY <1>1, <2>1, OverEffect
  <2> QED
    BY <2>1, <2>3, <2>4
<1>4. CASE SaveStatus(w)
  <2>1. /\ pc[w] = "write" /\ Over(w) /\ word' = Target(op[w])
        /\ runner' = Runner(Target(op[w]), snap[w].total_ticks, snap[w].total_runs)
        /\ UNCHANGED <<config, candle, candidate, signals, last, decisions, rows,
                       links, clock, recorded, claims, overlap, bounds>>
    BY <1>4 DEF SaveStatus
  <2>2. Target(op[w]) \in Status
    BY DEF Target, Status
  <2>3. /\ runner' \in RunnerRow /\ runner'.status = Target(op[w])
        /\ runner'.total_runs = snap[w].total_runs
    BY <1>2, <2>1, <2>2, RunnerTyped
  <2>4. JobTypes' /\ Frame(w) /\ Ended(w)
    BY <1>1, <2>1, OverEffect
  <2> QED
    BY <2>1, <2>2, <2>3, <2>4
<1> QED
  BY <1>3, <1>4

(* Setting the locals of an observation. *)
LEMMA ObsEffect ==
    ASSUME JobTypes, NEW w \in Workers, NEW label \in Labels, Goto(w, label),
           NEW o \in ObservationRow, obs' = [obs EXCEPT ![w] = o],
           UNCHANGED <<op, snap, todo, done, run>>
    PROVE  /\ JobTypes' /\ Frame(w)
           /\ pc'[w] = label /\ op'[w] = op[w] /\ snap'[w] = snap[w] /\ done'[w] = done[w]
           /\ run'[w] = run[w] /\ obs'[w] = o
<1>1. pc' \in [Workers -> Labels] /\ op' \in [Workers -> Ops]
  BY DEF JobTypes, Goto
<1>2. obs' \in [Workers -> ObservationRow]
  BY DEF JobTypes
<1>3. Frame(w)
  BY DEF JobTypes, Goto, Frame
<1>4. /\ pc'[w] = label /\ op'[w] = op[w] /\ snap'[w] = snap[w] /\ done'[w] = done[w]
      /\ run'[w] = run[w] /\ obs'[w] = o
  BY DEF JobTypes, Goto
<1> QED
  BY <1>1, <1>2, <1>3, <1>4 DEF JobTypes

(* An observe-once request that begins, or is refused. *)
LEMMA StartObservationEffect ==
    ASSUME TypeOK, NEW w \in Workers, StartObservation(w)
    PROVE  /\ JobTypes' /\ Frame(w) /\ pc[w] = "idle" /\ begun' \in Nat
           /\ \/ Ended(w)
              \/ /\ pc'[w] = "align" /\ op'[w] = "OBSERVE" /\ snap'[w] = snap[w]
                 /\ done'[w] = done[w] /\ run'[w] = run[w]
                 /\ obs'[w].cand \in Candidates /\ obs'[w].now = clock + 1
                 /\ obs'[w].since = candidate[obs'[w].cand].updated_at
           /\ clock' = clock + 1 /\ UNCHANGED <<dbVars, histVars, updates>>
<1>1. JobTypes /\ begun \in Nat /\ clock \in Nat
  BY TypeParts DEF HistoryTypes
<1>2. /\ pc[w] = "idle" /\ begun' = begun + 1 /\ clock' = clock + 1
      /\ UNCHANGED <<dbVars, histVars, updates>>
  BY DEF StartObservation, Start
<1>3. begun' \in Nat /\ clock + 1 \in Nat
  BY <1>1, <1>2
<1>4. CASE Over(w)
  BY <1>1, <1>2, <1>3, <1>4, OverEffect
<1>5. CASE ~Over(w)
  <2>1. PICK c \in Candidates :
          /\ Goto(w, "align") /\ op' = [op EXCEPT ![w] = "OBSERVE"]
          /\ obs' = [obs EXCEPT ![w] =
                       Observation(c, clock + 1, candidate[c].updated_at, 0, FALSE)]
          /\ UNCHANGED <<snap, todo, done, run>>
    BY <1>5 DEF StartObservation
  <2> DEFINE o == Observation(c, clock + 1, candidate[c].updated_at, 0, FALSE)
  <2>2. candidate[c].updated_at \in Nat
    BY TypeParts DEF DbTypes, CandidateRow
  <2>3. /\ o \in ObservationRow /\ o.cand = c /\ o.now = clock + 1
        /\ o.since = candidate[c].updated_at
    BY <1>3, <2>2 DEF Observation, ObservationRow
  <2>4. "align" \in Labels /\ "OBSERVE" \in Ops
    BY DEF Labels, Ops
  <2>5. /\ Goto(w, "align") /\ obs' = [obs EXCEPT ![w] = o]
        /\ op' = [op EXCEPT ![w] = "OBSERVE"] /\ UNCHANGED <<snap, todo, done, run>>
    BY <2>1
  <2> HIDE DEF o
  <2>6. JobTypes' /\ Frame(w)
    <3>1. pc' \in [Workers -> Labels] /\ op' \in [Workers -> Ops]
      BY <1>1, <2>4, <2>5 DEF JobTypes, Goto
    <3>2. obs' \in [Workers -> ObservationRow]
      BY <1>1, <2>3, <2>5 DEF JobTypes
    <3>3. JobTypes'
      BY <1>1, <2>5, <3>1, <3>2 DEF JobTypes
    <3>4. Frame(w)
      BY <1>1, <2>5 DEF JobTypes, Goto, Frame
    <3> QED
      BY <3>3, <3>4
  <2>7. /\ pc'[w] = "align" /\ op'[w] = "OBSERVE" /\ snap'[w] = snap[w]
        /\ done'[w] = done[w] /\ run'[w] = run[w] /\ obs'[w] = o
    BY <1>1, <2>5 DEF JobTypes, Goto
  <2> QED
    BY <1>2, <1>3, <2>3, <2>6, <2>7
<1> QED
  BY <1>4, <1>5

(* Its checks and reads. *)
LEMMA ObserverEffect ==
    ASSUME TypeOK, CandleEvidence, NEW w \in Workers,
           CheckAlignment(w) \/ ReadEvaluated(w) \/ PlanObservation(w)
    PROVE  /\ JobTypes' /\ Frame(w) /\ UNCHANGED <<dbVars, clock, histVars, bounds>>
           /\ \/ Ended(w)
              \/ /\ op'[w] = op[w] /\ snap'[w] = snap[w] /\ done'[w] = done[w]
                 /\ run'[w] = run[w] /\ obs'[w].cand = obs[w].cand
                 /\ obs'[w].now = obs[w].now /\ obs'[w].since = obs[w].since
                 /\ \/ /\ pc[w] = "align" /\ pc'[w] = "evaluated"
                    \/ /\ pc[w] = "evaluated" /\ pc'[w] = "plan"
                       /\ obs'[w].latest = LatestEvaluated(obs[w])
                    \/ /\ pc[w] = "plan" /\ pc'[w] = "begin"
                       /\ obs'[w].latest = obs[w].latest
<1>1. JobTypes /\ op[w] \in Ops
  BY TypeParts DEF JobTypes
<1>2. UNCHANGED <<dbVars, clock, histVars, bounds>>
  BY DEF CheckAlignment, ReadEvaluated, PlanObservation
<1>3. {"evaluated", "plan", "begin"} \subseteq Labels
  BY DEF Labels
<1>4. /\ obs[w] \in ObservationRow /\ obs[w].cand \in Candidates \cup {NoCandidate}
      /\ obs[w].now \in Nat /\ obs[w].since \in Nat /\ obs[w].latest \in Nat
  BY LocalParts
<1>5. CASE Over(w)
  BY <1>1, <1>2, <1>5, OverEffect
<1>6. CASE CheckAlignment(w) /\ ~Over(w)
  <2>1. /\ pc[w] = "align" /\ Goto(w, "evaluated")
        /\ UNCHANGED <<op, snap, todo, done, run, obs>>
    BY <1>6 DEF CheckAlignment
  <2>2. JobTypes' /\ Frame(w) /\ Kept(w) /\ pc'[w] = "evaluated" /\ run'[w] = run[w]
    BY <1>1, <1>3, <2>1, GotoEffect
  <2> QED
    BY <1>2, <2>1, <2>2 DEF Kept
<1>7. CASE ReadEvaluated(w)
  <2> DEFINE o == Observation(obs[w].cand, obs[w].now, obs[w].since,
                              LatestEvaluated(obs[w]), FALSE)
  <2>1. /\ pc[w] = "evaluated" /\ Goto(w, "plan") /\ obs' = [obs EXCEPT ![w] = o]
        /\ UNCHANGED <<op, snap, todo, done, run>>
    BY <1>7 DEF ReadEvaluated
  <2>2. LatestEvaluated(obs[w]) \in Nat
    BY <1>4, LatestBounds
  <2>3. /\ o \in ObservationRow /\ o.cand = obs[w].cand /\ o.now = obs[w].now
        /\ o.since = obs[w].since /\ o.latest = LatestEvaluated(obs[w])
    BY <1>4, <2>2 DEF Observation, ObservationRow
  <2> HIDE DEF o
  <2>4. /\ JobTypes' /\ Frame(w)
        /\ pc'[w] = "plan" /\ op'[w] = op[w] /\ snap'[w] = snap[w]
        /\ done'[w] = done[w] /\ run'[w] = run[w] /\ obs'[w] = o
    BY <1>1, <1>3, <2>1, <2>3, ObsEffect
  <2> QED
    BY <1>2, <2>1, <2>3, <2>4
<1>8. CASE PlanObservation(w) /\ ~Over(w)
  <2> DEFINE duplicate == NoNewCandle(obs[w].latest, candle[KeyOf[obs[w].cand]])
             o == Observation(obs[w].cand, obs[w].now, obs[w].since, obs[w].latest, duplicate)
  <2>1. /\ pc[w] = "plan" /\ Goto(w, "begin") /\ obs' = [obs EXCEPT ![w] = o]
        /\ UNCHANGED <<op, snap, todo, done, run>>
    BY <1>8 DEF PlanObservation
  <2>2. duplicate \in BOOLEAN
    BY DEF NoNewCandle
  <2> HIDE DEF duplicate
  <2>3. /\ o \in ObservationRow /\ o.cand = obs[w].cand /\ o.now = obs[w].now
        /\ o.since = obs[w].since /\ o.latest = obs[w].latest
    BY <1>4, <2>2 DEF Observation, ObservationRow
  <2> HIDE DEF o
  <2>4. /\ JobTypes' /\ Frame(w)
        /\ pc'[w] = "begin" /\ op'[w] = op[w] /\ snap'[w] = snap[w]
        /\ done'[w] = done[w] /\ run'[w] = run[w] /\ obs'[w] = o
    BY <1>1, <1>3, <2>1, <2>3, ObsEffect
  <2> QED
    BY <1>2, <2>1, <2>3, <2>4
<1> QED
  BY <1>5, <1>6, <1>7, <1>8

\* An answer that claims independent evidence, of the run that is linked now.
Claimed(w) ==
    /\ op[w] = "OBSERVE" /\ Independent(run[w], obs[w])
    /\ \E x \in ClaimRow :
          /\ claims' = claims \cup {x} /\ x.cand = obs[w].cand
          /\ x.candle = run[w].candle /\ x.since = obs[w].since
          /\ x.from = obs[w].now /\ x.to = clock
          /\ x.linked => [run |-> run[w].created, cand |-> obs[w].cand] \in links'

(* What the link of a run claims. *)
LEMMA ClaimEffect ==
    ASSUME TypeOK, TaskEvidence, NEW w \in Workers, LinkRun(w)
    PROVE  UNCHANGED claims \/ Claimed(w)
<1> DEFINE linked == Linkable(run[w]) /\ run[w].cand = obs[w].cand
           x == [cand |-> obs[w].cand, candle |-> run[w].candle, since |-> obs[w].since,
                 from |-> obs[w].now, to |-> clock, linked |-> linked]
<1> SUFFICES ASSUME claims' # claims PROVE Claimed(w)
  OBVIOUS
<1>1. /\ op[w] = "OBSERVE" /\ Independent(run[w], obs[w]) /\ claims' = claims \cup {x}
      /\ pc[w] = "link"
      /\ links' = IF Linkable(run[w])
                  THEN links \cup {[run |-> run[w].created, cand |-> run[w].cand]} ELSE links
  BY DEF LinkRun
<1>2. /\ obs[w].cand \in Candidates /\ run[w].candle \in Nat /\ obs[w].since \in Nat
      /\ obs[w].now \in Nat /\ clock \in Nat
  BY <1>1, LocalParts, TypeParts DEF HistoryTypes, TaskEvidence, Task
<1>3. linked \in BOOLEAN
  OBVIOUS
<1>4. linked => [run |-> run[w].created, cand |-> obs[w].cand] \in links'
  BY <1>1
<1> HIDE DEF linked
<1>5. /\ x \in ClaimRow /\ x.cand = obs[w].cand /\ x.candle = run[w].candle
      /\ x.since = obs[w].since /\ x.from = obs[w].now /\ x.to = clock
  BY <1>2, <1>3 DEF ClaimRow
<1>6. x.linked = linked
  OBVIOUS
<1> HIDE DEF x
<1>7. x.linked => [run |-> run[w].created, cand |-> obs[w].cand] \in links'
  BY <1>4, <1>6, Zenon
<1> QED
  BY <1>1, <1>5, <1>7, Zenon DEF Claimed

(***************************************************************************)
(* The types, what a label says of a job, and the bound on candles.        *)
(***************************************************************************)

Base == TypeOK /\ TaskEvidence /\ CandleEvidence

(* A job's step keeps what the labels say, if it does for that job. *)
LEMMA BaseFrame ==
    ASSUME TaskEvidence, CandleEvidence, NEW w \in Workers, Frame(w), Task(w)',
           run'[w].candle <= MaxCandle, UNCHANGED candle,
           \A r \in rows' : r.candle <= MaxCandle
    PROVE  TaskEvidence' /\ CandleEvidence'
<1>1. ASSUME NEW v \in Workers, v # w PROVE Task(v)'
  BY <1>1 DEF Frame, TaskEvidence, Task
<1>2. ASSUME NEW v \in Workers PROVE run'[v].candle <= MaxCandle
  BY <1>2 DEF Frame, CandleEvidence
<1> QED
  BY <1>1, <1>2 DEF TaskEvidence, CandleEvidence

(* An ended job has nothing to show. *)
LEMMA EndedTask ==
    ASSUME NEW w \in Workers, Ended(w)
    PROVE  Task(w)' /\ run'[w].candle <= MaxCandle
<1>1. Task(w)'
  BY DEF Ended, Task, Running, RunLabels, TickOps
<1>2. run'[w].candle <= MaxCandle
  BY NoRunTyped, BoundsAssumption DEF Ended
<1> QED
  BY <1>1, <1>2

(* Tables that a step leaves alone keep their types. *)
LEMMA DbFrame ==
    ASSUME DbTypes, UNCHANGED dbVars
    PROVE  DbTypes' /\ UNCHANGED <<candle, rows>>
  BY DEF DbTypes, dbVars

(* Counters and histories, too. *)
LEMMA HistoryFrame ==
    ASSUME HistoryTypes, UNCHANGED histVars, clock' \in Nat, updates' \in Nat, begun' \in Nat
    PROVE  HistoryTypes'
  BY DEF HistoryTypes, histVars

(* A run that begins. *)
LEMMA BaseBegin ==
    ASSUME Base, NEW w \in Workers, RunPair(w) \/ RunObservation(w) \/ RunRequest(w)
    PROVE  Base'
<1>1. /\ JobTypes' /\ Frame(w) /\ pc'[w] = "candle" /\ clock' = clock + 1
      /\ run'[w].candle = 0
      /\ UNCHANGED <<dbVars, histVars, updates>> /\ begun' \in Nat
      /\ ~RunRequest(w) => Kept(w) /\ pc[w] \in {"pair", "begin"}
      /\ RunRequest(w) => op'[w] = "RUN"
  BY BeginEffect DEF Base
<1>2. Task(w)'
  BY <1>1 DEF Base, Kept, TaskEvidence, Task, Running, RunLabels, TickOps
<1>3. DbTypes' /\ UNCHANGED <<candle, rows>>
  BY <1>1, TypeParts, DbFrame DEF Base
<1>4. clock' \in Nat /\ updates' \in Nat
  BY <1>1, TypeParts DEF Base, HistoryTypes
<1>5. HistoryTypes'
  BY <1>1, <1>4, TypeParts, HistoryFrame DEF Base
<1>6. run'[w].candle <= MaxCandle
  BY <1>1, BoundsAssumption
<1>7. \A r \in rows' : r.candle <= MaxCandle
  BY <1>3 DEF Base, CandleEvidence
<1>8. TaskEvidence' /\ CandleEvidence'
  BY <1>1, <1>2, <1>3, <1>6, <1>7, BaseFrame DEF Base
<1> QED
  BY <1>1, <1>3, <1>5, <1>8, TypePartsNext DEF Base

(* A job's step that leaves the candles and the rows of runs alone. *)
LEMMA BaseJob ==
    ASSUME Base, NEW w \in Workers, JobTypes', DbTypes', HistoryTypes', Frame(w), Task(w)',
           run'[w].candle <= MaxCandle, UNCHANGED <<candle, rows>>
    PROVE  Base'
<1>1. \A r \in rows' : r.candle <= MaxCandle
  BY DEF Base, CandleEvidence
<1>2. TaskEvidence' /\ CandleEvidence'
  BY <1>1, BaseFrame DEF Base
<1> QED
  BY <1>2, TypePartsNext DEF Base

(* A job's step that leaves every table alone. *)
LEMMA BaseLocal ==
    ASSUME Base, NEW w \in Workers, JobTypes', Frame(w), Task(w)',
           run'[w].candle <= MaxCandle, UNCHANGED <<dbVars, clock, bounds>>,
           UNCHANGED histVars
    PROVE  Base'
<1>1. DbTypes' /\ UNCHANGED <<candle, rows>>
  BY TypeParts, DbFrame DEF Base
<1>2. clock' \in Nat /\ updates' \in Nat /\ begun' \in Nat
  BY TypeParts DEF Base, HistoryTypes, bounds
<1>3. HistoryTypes'
  BY <1>2, TypeParts, HistoryFrame DEF Base
<1> QED
  BY <1>1, <1>3, BaseJob

(* An evaluation without a signal, or with one. *)
LEMMA BaseEvaluate ==
    ASSUME Base, NEW w \in Workers, EvaluateNothing(w) \/ EvaluateSignal(w)
    PROVE  Base'
<1>1. run[w].key \in Keys /\ candle[run[w].key] <= MaxCandle
  BY LocalParts DEF Base, CandleEvidence
<1>2. CASE EvaluateNothing(w)
  <2>1. /\ JobTypes' /\ Frame(w) /\ Kept(w) /\ pc[w] = "candle" /\ pc'[w] = "match"
        /\ run'[w].candle = candle[run[w].key]
        /\ run'[w].decision \in {"SKIPPED", "NO_SIGNAL"}
        /\ last' = last \/ last' = [last EXCEPT ![StrategyOf[run[w].key]] = 0]
        /\ UNCHANGED <<config, runner, candle, candidate, signals, decisions,
                       rows, links, clock, histVars, bounds>>
    BY <1>2, NothingEffect DEF Base
  <2>2. last' \in [Strategies -> Nat]
    BY <1>1, <2>1, TypeParts DEF Base, DbTypes
  <2>3. DbTypes' /\ UNCHANGED <<candle, rows>>
    BY <2>1, <2>2, TypeParts DEF Base, DbTypes
  <2>4. HistoryTypes'
    BY <2>1, TypeParts DEF Base, HistoryTypes, histVars, bounds
  <2>5. Task(w)'
    BY <2>1 DEF Base, Kept, TaskEvidence, Task, Running, RunLabels, TickOps,
       Decision, Completed
  <2> QED
    BY <1>1, <2>1, <2>3, <2>4, <2>5, BaseJob
<1>3. CASE EvaluateSignal(w)
  <2>1. /\ JobTypes' /\ Frame(w) /\ Kept(w) /\ pc[w] = "candle" /\ pc'[w] = "signal"
        /\ run'[w].candle = candle[run[w].key] /\ run'[w].kind \in Kinds
        /\ UNCHANGED <<dbVars, clock, bounds>> /\ UNCHANGED histVars
    BY <1>3, SignalEffect DEF Base
  <2>2. Task(w)'
    BY <2>1 DEF Base, Kept, TaskEvidence, Task, Running, RunLabels, TickOps
  <2> QED
    BY <1>1, <2>1, <2>2, BaseLocal
<1> QED
  BY <1>2, <1>3

(* The insertion of a signal. *)
LEMMA BaseInsertSignal ==
    ASSUME Base, NEW w \in Workers, InsertSignal(w)
    PROVE  Base'
<1>1. /\ JobTypes' /\ Frame(w) /\ Kept(w) /\ pc[w] = "signal" /\ pc'[w] = "risk"
      /\ run'[w].candle = run[w].candle
      /\ \E s \in signals' : last' = [last EXCEPT ![StrategyOf[run[w].key]] = s.id]
      /\ \/ signals' = signals
         \/ signals' = signals \cup {[id |-> run[w].created, key |-> run[w].key,
                                      candle |-> run[w].candle, kind |-> run[w].kind]}
      /\ UNCHANGED <<config, runner, candle, candidate, decisions,
                     rows, links, clock, histVars, bounds>>
  BY InsertSignalEffect DEF Base
<1>2. /\ run[w].key \in Keys /\ run[w].created \in Nat /\ run[w].candle \in Nat
      /\ run[w].kind \in Kinds
  BY <1>1, LocalParts DEF Base, TaskEvidence, Task
<1>3. signals' \subseteq SignalRow
  BY <1>1, <1>2, TypeParts DEF Base, DbTypes, SignalRow
<1>4. last' \in [Strategies -> Nat]
  <2>1. \A s \in signals' : s.id \in Nat
    BY <1>3 DEF SignalRow
  <2> QED
    BY <1>1, <1>2, <2>1, TypeParts DEF Base, DbTypes
<1>5. DbTypes' /\ UNCHANGED <<candle, rows>>
  BY <1>1, <1>3, <1>4, TypeParts DEF Base, DbTypes
<1>6. HistoryTypes'
  BY <1>1, TypeParts DEF Base, HistoryTypes, histVars, bounds
<1>7. Task(w)'
  BY <1>1 DEF Base, Kept, TaskEvidence, Task, Running, RunLabels, TickOps
<1>8. run'[w].candle <= MaxCandle
  BY <1>1 DEF Base, CandleEvidence
<1> QED
  BY <1>1, <1>5, <1>6, <1>7, <1>8, BaseJob

(* The risk decision. *)
LEMMA BaseRisk ==
    ASSUME Base, NEW w \in Workers, EvaluateRisk(w)
    PROVE  Base'
<1>1. /\ JobTypes' /\ Frame(w) /\ Kept(w) /\ pc[w] = "risk" /\ pc'[w] = "match"
      /\ run'[w].candle = run[w].candle
      /\ run'[w].decision \in {"WOULD_SUBMIT", "RISK_REJECTED", "SKIPPED_STALE_PRICE"}
      /\ RiskDecided(w)
      /\ UNCHANGED <<config, runner, candle, candidate, signals, last,
                     rows, links, clock, histVars, bounds>>
  BY RiskEffect DEF Base
<1>2. PICK d \in DecisionRow : decisions' = decisions \cup {d}
  BY <1>1, Zenon DEF RiskDecided
<1>3. DbTypes' /\ UNCHANGED <<candle, rows>>
  BY <1>1, <1>2, TypeParts DEF Base, DbTypes
<1>4. HistoryTypes'
  BY <1>1, TypeParts DEF Base, HistoryTypes, histVars, bounds
<1>5. Task(w)'
  BY <1>1 DEF Base, Kept, TaskEvidence, Task, Running, RunLabels, TickOps,
     Decision, Completed
<1>6. run'[w].candle <= MaxCandle
  BY <1>1 DEF Base, CandleEvidence
<1> QED
  BY <1>1, <1>3, <1>4, <1>5, <1>6, BaseJob

(* The candidate of a run. *)
LEMMA BaseMatch ==
    ASSUME Base, NEW w \in Workers, MatchCandidate(w)
    PROVE  Base'
<1>1. /\ JobTypes' /\ Frame(w) /\ Kept(w) /\ pc[w] = "match" /\ pc'[w] = "insert"
      /\ run'[w].candle = run[w].candle /\ run'[w].decision = run[w].decision
      /\ UNCHANGED <<dbVars, clock, bounds>> /\ UNCHANGED histVars
  BY MatchEffect DEF Base
<1>2. Task(w)'
  BY <1>1 DEF Base, Kept, TaskEvidence, Task, Running, RunLabels, TickOps
<1>3. run'[w].candle <= MaxCandle
  BY <1>1 DEF Base, CandleEvidence
<1> QED
  BY <1>1, <1>2, <1>3, BaseLocal

(* The row of a run. *)
LEMMA BaseInsertRun ==
    ASSUME Base, NEW w \in Workers, InsertRun(w)
    PROVE  Base'
<1>1. /\ JobTypes' /\ Frame(w) /\ Kept(w) /\ run'[w] = run[w]
      /\ pc[w] = "insert" /\ pc'[w] = "link"
      /\ \E x \in ShadowRow : rows' = rows \cup {x} /\ x.candle = run[w].candle
      /\ recorded' = IF op[w] \in TickOps THEN recorded + 1 ELSE recorded
      /\ UNCHANGED <<config, runner, candle, candidate, signals, last, decisions,
                     links, clock, claims, word, overlap, bounds>>
  BY InsertRunEffect DEF Base
<1>2. PICK x \in ShadowRow : rows' = rows \cup {x} /\ x.candle = run[w].candle
  BY <1>1
<1>3. DbTypes'
  BY <1>1, <1>2, TypeParts DEF Base, DbTypes
<1>4. HistoryTypes'
  <2>1. recorded' \in Nat
    BY <1>1, TypeParts DEF Base, HistoryTypes
  <2> QED
    BY <1>1, <2>1, TypeParts DEF Base, HistoryTypes, bounds
<1>5. Task(w)'
  BY <1>1 DEF Base, Kept, TaskEvidence, Task, Running, RunLabels, TickOps
<1>6. run'[w].candle <= MaxCandle /\ \A r \in rows' : r.candle <= MaxCandle
  BY <1>1, <1>2 DEF Base, CandleEvidence
<1>7. TaskEvidence' /\ CandleEvidence'
  BY <1>1, <1>5, <1>6, BaseFrame DEF Base
<1> QED
  BY <1>1, <1>3, <1>4, <1>7, TypePartsNext DEF Base

(* The end of a run. *)
LEMMA BaseReturn ==
    ASSUME Base, NEW w \in Workers, LinkRun(w) \/ FailRun(w)
    PROVE  Base'
<1>1. /\ JobTypes' /\ Frame(w) /\ run'[w] = NoRun /\ pc[w] \in Running
      /\ op[w] \in TickOps => pc'[w] = "pair" /\ op'[w] = op[w]
      /\ op[w] \notin TickOps => Ended(w)
      /\ links' \subseteq [run : Nat, cand : Candidates]
      /\ UNCHANGED <<config, runner, candle, candidate, signals, last, decisions,
                     rows, clock, recorded, word, overlap, bounds>>
  <2>1. CASE LinkRun(w)
    BY <2>1, LinkEffect DEF Base, Running, RunLabels
  <2>2. CASE FailRun(w)
    BY <2>2, FailEffect, TypeParts DEF Base, DbTypes, dbVars, histVars
  <2> QED
    BY <2>1, <2>2
<1>2. claims' \subseteq ClaimRow
  <2>1. claims \subseteq ClaimRow
    BY TypeParts DEF Base, HistoryTypes
  <2>2. CASE UNCHANGED claims
    BY <2>1, <2>2
  <2>3. CASE Claimed(w)
    <3>1. PICK x \in ClaimRow : claims' = claims \cup {x}
      BY <2>3, Zenon DEF Claimed
    <3> QED
      BY <2>1, <3>1
  <2>4. CASE FailRun(w)
    BY <2>1, <2>4, FailEffect DEF Base, histVars
  <2> QED
    BY <2>2, <2>3, <2>4, ClaimEffect DEF Base
<1>3. DbTypes' /\ UNCHANGED <<candle, rows>>
  BY <1>1, TypeParts DEF Base, DbTypes
<1>4. HistoryTypes'
  BY <1>1, <1>2, TypeParts DEF Base, HistoryTypes, bounds
<1>5. Task(w)'
  <2>1. CASE op[w] \in TickOps
    BY <1>1, <2>1 DEF Task, Running, RunLabels, TickOps
  <2> QED
    BY <1>1, <2>1, EndedTask
<1>6. run'[w].candle <= MaxCandle
  BY <1>1, NoRunTyped, BoundsAssumption
<1> QED
  BY <1>1, <1>3, <1>4, <1>5, <1>6, BaseJob

(* The start of a tick. *)
LEMMA BaseStartTick ==
    ASSUME Base, NEW w \in Workers, StartTick(w)
    PROVE  Base'
<1>1. /\ JobTypes' /\ Frame(w) /\ pc[w] = "idle" /\ begun' \in Nat
      /\ \/ Ended(w)
         \/ pc'[w] = "state" /\ op'[w] \in ReadingOps /\ run'[w] = run[w]
      /\ UNCHANGED <<dbVars, clock, updates>> /\ UNCHANGED histVars
  BY StartTickEffect DEF Base
<1>2. DbTypes' /\ UNCHANGED <<candle, rows>>
  BY <1>1, TypeParts, DbFrame DEF Base
<1>3. clock' \in Nat /\ updates' \in Nat
  BY <1>1, TypeParts DEF Base, HistoryTypes
<1>4. HistoryTypes'
  BY <1>1, <1>3, TypeParts, HistoryFrame DEF Base
<1>5. Task(w)' /\ run'[w].candle <= MaxCandle
  <2>1. CASE Ended(w)
    BY <2>1, EndedTask
  <2>2. CASE ~Ended(w)
    BY <1>1, <2>2 DEF Base, CandleEvidence, Task, Running, RunLabels, TickOps, ReadingOps
  <2> QED
    BY <2>1, <2>2
<1> QED
  BY <1>1, <1>2, <1>4, <1>5, BaseJob

(* A job that reads the runner's state. *)
LEMMA BaseSnapshot ==
    ASSUME Base, NEW w \in Workers, LoadState(w) \/ StartControl(w)
    PROVE  Base'
<1>1. /\ JobTypes' /\ Frame(w) /\ begun' \in Nat /\ UNCHANGED updates
      /\ \/ Ended(w) /\ UNCHANGED overlap
         \/ /\ \/ pc'[w] = "pair" /\ op'[w] \in TickOps
               \/ pc'[w] = "write" /\ op'[w] \in ControlOps \cup {"INVALID"}
            /\ Snapped(w)
      /\ UNCHANGED <<dbVars, clock, recorded, claims, word>>
  <2>1. CASE LoadState(w)
    <3>1. /\ JobTypes' /\ Frame(w) /\ pc[w] = "state"
          /\ \/ Ended(w) /\ UNCHANGED overlap
             \/ /\ pc'[w] = IF op[w] = "INVALID" THEN "write" ELSE "pair"
                /\ op'[w] = op[w] /\ Snapped(w)
          /\ UNCHANGED <<dbVars, clock, recorded, claims, word, bounds>>
      BY <2>1, LoadStateEffect DEF Base
    <3>0. op[w] \in TickOps \cup {"INVALID"}
      BY <3>1 DEF Base, TaskEvidence, Task
    <3>2. begun' \in Nat /\ UNCHANGED updates
      BY <3>1, TypeParts DEF Base, HistoryTypes, bounds
    <3> QED
      BY <3>0, <3>1, <3>2
  <2>2. CASE StartControl(w)
    BY <2>2, StartControlEffect DEF Base
  <2> QED
    BY <2>1, <2>2
<1>2. DbTypes' /\ UNCHANGED <<candle, rows>>
  BY <1>1, TypeParts, DbFrame DEF Base
<1>3. overlap' \in BOOLEAN
  <2>1. overlap \in BOOLEAN
    BY TypeParts DEF Base, HistoryTypes
  <2>2. CASE UNCHANGED overlap
    BY <2>1, <2>2
  <2>3. CASE Snapped(w)
    BY <2>1, <2>3, Zenon DEF Snapped
  <2> QED
    BY <1>1, <2>2, <2>3
<1>4. HistoryTypes'
  BY <1>1, <1>3, TypeParts DEF Base, HistoryTypes
<1>5. Task(w)' /\ run'[w].candle <= MaxCandle
  <2>1. CASE Ended(w)
    BY <2>1, EndedTask
  <2>2. CASE ~Ended(w)
    <3>1. /\ \/ pc'[w] = "pair" /\ op'[w] \in TickOps
             \/ pc'[w] = "write" /\ op'[w] \in ControlOps \cup {"INVALID"}
          /\ run'[w] = run[w]
      BY <1>1, <2>2 DEF Snapped
    <3>2. Task(w)'
      BY <3>1 DEF Base, TaskEvidence, Task, Running, RunLabels, TickOps, ControlOps
    <3> QED
      BY <3>1, <3>2 DEF Base, CandleEvidence
  <2> QED
    BY <2>1, <2>2
<1> QED
  BY <1>1, <1>2, <1>4, <1>5, BaseJob

(* A job that writes it. *)
LEMMA BaseSave ==
    ASSUME Base, NEW w \in Workers, SaveTick(w) \/ SaveStatus(w)
    PROVE  Base'
<1>1. /\ JobTypes' /\ Frame(w) /\ Ended(w) /\ runner' \in RunnerRow
      /\ UNCHANGED word \/ word' \in Status
      /\ UNCHANGED <<config, candle, candidate, signals, last, decisions, rows,
                     links, clock, recorded, claims, overlap, bounds>>
  BY SaveEffect DEF Base
<1>2. DbTypes' /\ UNCHANGED <<candle, rows>>
  BY <1>1, TypeParts DEF Base, DbTypes
<1>3. HistoryTypes'
  BY <1>1, TypeParts DEF Base, HistoryTypes, bounds
<1> QED
  BY <1>1, <1>2, <1>3, EndedTask, BaseJob

(* The steps of an observation before its run. *)
LEMMA BaseObserver ==
    ASSUME Base, NEW w \in Workers, ObserverStep(w)
    PROVE  Base'
<1>1. CASE StartObservation(w)
  <2>1. /\ JobTypes' /\ Frame(w) /\ begun' \in Nat
        /\ \/ Ended(w)
           \/ /\ pc'[w] = "align" /\ op'[w] = "OBSERVE"
              /\ run'[w] = run[w] /\ obs'[w].cand \in Candidates
        /\ clock' = clock + 1 /\ UNCHANGED <<dbVars, updates>> /\ UNCHANGED histVars
    BY <1>1, StartObservationEffect DEF Base
  <2>2. DbTypes' /\ UNCHANGED <<candle, rows>>
    BY <2>1, TypeParts, DbFrame DEF Base
  <2>3. clock' \in Nat /\ updates' \in Nat
    BY <2>1, TypeParts DEF Base, HistoryTypes
  <2>4. HistoryTypes'
    BY <2>1, <2>3, TypeParts, HistoryFrame DEF Base
  <2>5. Task(w)' /\ run'[w].candle <= MaxCandle
    <3>1. CASE Ended(w)
      BY <3>1, EndedTask
    <3>2. CASE ~Ended(w)
      BY <2>1, <3>2 DEF Base, CandleEvidence, Task, Running, RunLabels
    <3> QED
      BY <3>1, <3>2
  <2> QED
    BY <2>1, <2>2, <2>4, <2>5, BaseJob
<1>2. CASE ~StartObservation(w)
  <2>1. /\ JobTypes' /\ Frame(w) /\ UNCHANGED <<dbVars, clock, bounds>>
        /\ UNCHANGED histVars
        /\ \/ Ended(w)
           \/ /\ op'[w] = op[w] /\ run'[w] = run[w] /\ obs'[w].cand = obs[w].cand
              /\ pc[w] \in {"align", "evaluated", "plan"}
              /\ pc'[w] \in {"evaluated", "plan", "begin"}
    BY <1>2, ObserverEffect DEF ObserverStep, Base
  <2>2. Task(w)' /\ run'[w].candle <= MaxCandle
    <3>1. CASE Ended(w)
      BY <3>1, EndedTask
    <3>2. CASE ~Ended(w)
      BY <2>1, <3>2 DEF Base, CandleEvidence, TaskEvidence, Task, Running, RunLabels
    <3> QED
      BY <3>1, <3>2
  <2> QED
    BY <2>1, <2>2, BaseLocal
<1> QED
  BY <1>1, <1>2

\* A step of the environment: it touches no job and no row, and a candidate
\* that changes does so at a moment of its own.
Outside ==
    /\ UNCHANGED <<jobVars, runner, signals, last, decisions, rows, links>>
    /\ UNCHANGED histVars
    /\ \/ UNCHANGED <<candidate, clock>>
       \/ /\ clock' = clock + 1
          /\ \A c \in Candidates : \/ candidate'[c].updated_at = clock + 1
                                   \/ candidate'[c] = candidate[c]

(* A candidate that changes. *)
LEMMA UpdateEffect ==
    ASSUME TypeOK, NEW c \in Candidates, UpdateCandidate(c)
    PROVE  /\ candidate' \in [Candidates -> CandidateRow]
           /\ \A d \in Candidates : \/ candidate'[d].updated_at = clock + 1
                                    \/ candidate'[d] = candidate[d]
<1> DEFINE before == candidate[c].promoted
           at == IF before \/ candidate[c].promoted_at # Null
                 THEN candidate[c].promoted_at ELSE clock + 1
           row == [promoted |-> ~before, promoted_at |-> at, updated_at |-> clock + 1]
<1>1. /\ candidate \in [Candidates -> CandidateRow] /\ clock + 1 \in Nat
      /\ candidate[c].promoted_at \in Nat \cup {Null}
  BY TypeParts DEF DbTypes, HistoryTypes, CandidateRow
<1>2. candidate' = [candidate EXCEPT ![c] = row]
  BY DEF UpdateCandidate
<1>3. at \in Nat \cup {Null} /\ (~before) \in BOOLEAN
  BY <1>1
<1> HIDE DEF at, before
<1>4. row \in CandidateRow /\ row.updated_at = clock + 1
  BY <1>1, <1>3 DEF CandidateRow
<1> HIDE DEF row
<1> QED
  BY <1>1, <1>2, <1>4

(* The environment. *)
LEMMA BaseEnvironment ==
    ASSUME Base, Environment
    PROVE  Base' /\ Outside
<1>1. /\ TypeOK /\ JobTypes /\ DbTypes /\ HistoryTypes
  BY TypeParts DEF Base
<1>2. CASE SaveConfig
  <2>1. /\ config' \in Configs
        /\ UNCHANGED <<runner, candle, candidate, signals, last, decisions,
                       rows, links, clock, jobVars, histVars, bounds>>
    BY <1>2 DEF SaveConfig
  <2>2. JobTypes' /\ DbTypes' /\ HistoryTypes'
    BY <1>1, <2>1 DEF JobTypes, DbTypes, HistoryTypes, jobVars, histVars, bounds
  <2>3. TaskEvidence' /\ CandleEvidence'
    BY <2>1 DEF Base, TaskEvidence, Task, CandleEvidence, jobVars
  <2> QED
    BY <2>1, <2>2, <2>3, TypePartsNext DEF Base, Outside
<1>3. ASSUME NEW k \in Keys, CloseCandle(k) PROVE Base' /\ Outside
  <2>1. /\ candle[k] < MaxCandle /\ candle' = [candle EXCEPT ![k] = candle[k] + 1]
        /\ UNCHANGED <<config, runner, candidate, signals, last, decisions,
                       rows, links, clock, jobVars, histVars, bounds>>
    BY <1>3 DEF CloseCandle
  <2>2. candle' \in [Keys -> Nat] /\ \A j \in Keys : candle'[j] <= MaxCandle
    BY <1>1, <2>1, BoundsAssumption DEF DbTypes, Base, CandleEvidence
  <2>3. JobTypes' /\ DbTypes' /\ HistoryTypes'
    BY <1>1, <2>1, <2>2 DEF JobTypes, DbTypes, HistoryTypes, jobVars, histVars, bounds
  <2>4. TaskEvidence' /\ CandleEvidence'
    BY <2>1, <2>2 DEF Base, TaskEvidence, Task, CandleEvidence, jobVars
  <2> QED
    BY <2>1, <2>3, <2>4, TypePartsNext DEF Base, Outside
<1>4. ASSUME NEW c \in Candidates, UpdateCandidate(c) PROVE Base' /\ Outside
  <2>1. /\ updates' = updates + 1 /\ clock' = clock + 1
        /\ UNCHANGED <<config, runner, candle, signals, last, decisions,
                       rows, links, jobVars, histVars, begun>>
    BY <1>4 DEF UpdateCandidate
  <2>2. /\ candidate' \in [Candidates -> CandidateRow]
        /\ \A d \in Candidates : \/ candidate'[d].updated_at = clock + 1
                                 \/ candidate'[d] = candidate[d]
    BY <1>1, <1>4, UpdateEffect
  <2>3. clock' \in Nat /\ updates' \in Nat
    BY <1>1, <2>1 DEF HistoryTypes
  <2>4. JobTypes' /\ DbTypes' /\ HistoryTypes'
    BY <1>1, <2>1, <2>2, <2>3 DEF JobTypes, DbTypes, HistoryTypes, jobVars, histVars
  <2>5. TaskEvidence' /\ CandleEvidence'
    BY <2>1 DEF Base, TaskEvidence, Task, CandleEvidence, jobVars
  <2> QED
    BY <2>1, <2>2, <2>4, <2>5, TypePartsNext DEF Base, Outside
<1> QED
  BY <1>2, <1>3, <1>4 DEF Environment

(* Every step. *)
LEMMA BaseStep ==
    ASSUME Base, [Next]_vars
    PROVE  Base'
<1>1. CASE Environment
  BY <1>1, BaseEnvironment
<1>2. ASSUME NEW w \in Workers, RunStep(w) PROVE Base'
  BY <1>2, BaseBegin, BaseEvaluate, BaseInsertSignal, BaseRisk, BaseMatch,
     BaseInsertRun, BaseReturn DEF RunStep
<1>3. ASSUME NEW w \in Workers, RunnerStep(w) PROVE Base'
  BY <1>3, BaseStartTick, BaseSnapshot, BaseSave DEF RunnerStep
<1>4. ASSUME NEW w \in Workers, ObserverStep(w) PROVE Base'
  BY <1>4, BaseObserver
<1>5. CASE UNCHANGED vars
  <2>1. JobTypes /\ DbTypes /\ HistoryTypes
    BY TypeParts DEF Base
  <2>2. JobTypes' /\ DbTypes' /\ HistoryTypes'
    BY <1>5, <2>1 DEF JobTypes, DbTypes, HistoryTypes, vars, dbVars, jobVars, histVars, bounds
  <2>3. TaskEvidence' /\ CandleEvidence'
    BY <1>5 DEF Base, TaskEvidence, Task, CandleEvidence, vars, dbVars, jobVars
  <2> QED
    BY <2>2, <2>3, TypePartsNext DEF Base
<1> QED
  BY <1>1, <1>2, <1>3, <1>4, <1>5 DEF Next

(* The initial states. *)
LEMMA BaseInit ==
    ASSUME Init
    PROVE  Base
<1>1. /\ NoRun \in RunRow /\ NoRun.candle = 0 /\ NoObservation \in ObservationRow
      /\ Runner("STOPPED", 0, 0) \in RunnerRow /\ <<>> \in Seq(Keys)
      /\ "idle" \in Labels /\ "none" \in Ops
  BY NoRunTyped, NoObservationTyped, RunnerTyped DEF Labels, Ops, Status
<1>2. JobTypes
  BY <1>1 DEF Init, JobTypes
<1>3. runner \in RunnerRow /\ word \in Status
  BY RunnerTyped, StatusAssumption DEF Init
<1>4. candidate \in [Candidates -> CandidateRow]
  <2>1. PICK promoted \in SUBSET Candidates :
          candidate = [c \in Candidates |->
                         [promoted |-> c \in promoted,
                          promoted_at |-> IF c \in promoted THEN 0 ELSE Null,
                          updated_at |-> 0]]
    BY DEF Init
  <2>2. ASSUME NEW b \in BOOLEAN, NEW at \in Nat \cup {Null}
        PROVE  [promoted |-> b, promoted_at |-> at, updated_at |-> 0] \in CandidateRow
    BY DEF CandidateRow
  <2>3. ASSUME NEW c \in Candidates
        PROVE  /\ (c \in promoted) \in BOOLEAN
               /\ (IF c \in promoted THEN 0 ELSE Null) \in Nat \cup {Null}
    OBVIOUS
  <2> QED
    BY <2>1, <2>2, <2>3, Zenon
<1>5. DbTypes
  BY <1>3, <1>4 DEF Init, DbTypes
<1>6. HistoryTypes
  BY <1>3 DEF Init, HistoryTypes
<1>7. TaskEvidence
  BY DEF Init, TaskEvidence, Task, Running, RunLabels
<1>8. CandleEvidence
  BY <1>1, BoundsAssumption DEF Init, CandleEvidence
<1> QED
  BY <1>2, <1>5, <1>6, <1>7, <1>8, TypeParts DEF Base

(* Base is an invariant. *)
LEMMA BaseInvariant == Spec => []Base
<1>1. Init => Base
  BY BaseInit
<1>2. Base /\ [Next]_vars => Base'
  BY BaseStep
<1> QED
  BY <1>1, <1>2, PTL DEF Spec

(* Whatever jobs and requests run, every variable keeps its type and a shadow
   run's row has one of the decisions of run_testnet_shadow_once. *)
THEOREM TypeCorrect == Spec => []TypeOK
<1>1. Base => TypeOK
  BY DEF Base
<1> QED
  BY <1>1, BaseInvariant, PTL

(***************************************************************************)
(* The runner's state is written from old snapshots.                       *)
(***************************************************************************)

Snapshots == SnapshotEvidence /\ StaleTicksHarmless

(* The counts are numbers. *)
LEMMA CountParts ==
    ASSUME TypeOK
    PROVE  /\ runner.total_runs \in Nat /\ recorded \in Nat
           /\ \A w \in Workers : snap[w].total_runs \in Nat /\ done[w] \in Nat
<1>1. JobTypes /\ DbTypes /\ HistoryTypes
  BY TypeParts
<1> QED
  BY <1>1 DEF JobTypes, DbTypes, HistoryTypes, RunnerRow

(* A job that takes no snapshot and writes none keeps what is known of them. *)
LEMMA SnapshotFrame ==
    ASSUME TypeOK, Snapshots, NEW w \in Workers, Frame(w),
           UNCHANGED <<runner, word, overlap>>,
           recorded' \in Nat, recorded <= recorded', Counted(w)',
           Holding(w)' => /\ Holding(w) /\ snap'[w] = snap[w]
                          /\ snap'[w].total_runs + done'[w] <= recorded'
    PROVE  Snapshots'
<1>1. /\ runner.total_runs \in Nat /\ recorded \in Nat
      /\ \A v \in Workers : snap[v].total_runs \in Nat /\ done[v] \in Nat
  BY CountParts
<1>2. \A v \in Workers : v # w => (Holding(v)' <=> Holding(v))
  BY DEF Frame, Holding
<1>3. ASSUME NEW v \in Workers PROVE Counted(v)'
  <2>1. CASE v # w
    <3>1. /\ pc'[v] = pc[v] /\ op'[v] = op[v] /\ snap'[v] = snap[v] /\ done'[v] = done[v]
      BY <2>1 DEF Frame
    <3>2. Counted(v) /\ snap[v].total_runs \in Nat /\ done[v] \in Nat
      BY <1>1 DEF Snapshots, SnapshotEvidence
    <3> QED
      BY <1>1, <3>1, <3>2 DEF Counted
  <2> QED
    BY <2>1
<1>4. ASSUME NEW v \in Workers, Holding(v)'
      PROVE  snap'[v].total_runs + done'[v] <= recorded' /\ snap'[v] = snap[v] /\ Holding(v)
  <2>1. CASE v # w
    <3>1. snap'[v] = snap[v] /\ done'[v] = done[v] /\ Holding(v)
      BY <1>2, <1>4, <2>1 DEF Frame
    <3>2. snap[v].total_runs + done[v] <= recorded
      BY <3>1 DEF Snapshots, StaleTicksHarmless
    <3> QED
      BY <1>1, <3>1, <3>2
  <2> QED
    BY <1>4, <2>1
<1>5. SnapshotEvidence'
  BY <1>3, <1>4 DEF Snapshots, SnapshotEvidence
<1>6. StaleTicksHarmless'
  BY <1>1, <1>4 DEF Snapshots, StaleTicksHarmless
<1> QED
  BY <1>5, <1>6 DEF Snapshots

(* A job that ends without a write. *)
LEMMA SnapshotEnded ==
    ASSUME TypeOK, Snapshots, NEW w \in Workers, Frame(w), Ended(w),
           UNCHANGED <<runner, word, overlap>>, UNCHANGED recorded
    PROVE  Snapshots'
<1>1. recorded' \in Nat /\ recorded <= recorded'
  BY CountParts
<1>2. Counted(w)' /\ ~Holding(w)'
  BY DEF Ended, Counted, Holding, TickOps
<1> QED
  BY <1>1, <1>2, SnapshotFrame

(* A run's step that leaves its caller's locals alone. *)
LEMMA SnapshotRun ==
    ASSUME TypeOK, Snapshots, NEW w \in Workers, Frame(w), Kept(w),
           UNCHANGED <<runner, word, overlap>>, UNCHANGED recorded,
           pc[w] \in RunLabels \cup {"pair"}, pc'[w] \in RunLabels \ {"link"}
    PROVE  Snapshots'
<1>1. recorded' \in Nat /\ recorded <= recorded'
  BY CountParts
<1>2. Counted(w)'
  BY DEF Counted, RunLabels
<1>3. Holding(w)' => Holding(w)
  BY DEF Holding, Kept, RunLabels
<1>4. Holding(w)' => snap'[w].total_runs + done'[w] <= recorded'
  BY <1>3 DEF Snapshots, StaleTicksHarmless, Kept
<1> QED
  BY <1>1, <1>2, <1>3, <1>4, SnapshotFrame DEF Kept

(* The steps of runs. *)
LEMMA SnapshotRunStep ==
    ASSUME Base, Snapshots, NEW w \in Workers, RunStep(w)
    PROVE  Snapshots'
<1>1. CASE RunPair(w) \/ RunObservation(w)
  <2>1. /\ Frame(w) /\ Kept(w) /\ pc'[w] = "candle" /\ pc[w] \in {"pair", "begin"}
        /\ UNCHANGED <<dbVars, histVars>>
    BY <1>1, BeginEffect DEF Base, RunRequest, RunPair, RunObservation, Start
  <2>2. UNCHANGED <<runner, word, overlap>> /\ UNCHANGED recorded
    BY <2>1 DEF dbVars, histVars
  <2>3. pc[w] \in RunLabels \cup {"pair"} /\ pc'[w] \in RunLabels \ {"link"}
    BY <2>1 DEF RunLabels
  <2> QED
    BY <2>1, <2>2, <2>3, SnapshotRun DEF Base
<1>2. CASE RunRequest(w)
  <2>1. /\ Frame(w) /\ pc'[w] = "candle" /\ op'[w] = "RUN" /\ UNCHANGED <<dbVars, histVars>>
    BY <1>2, BeginEffect DEF Base
  <2>2. UNCHANGED <<runner, word, overlap>> /\ UNCHANGED recorded
    BY <2>1 DEF dbVars, histVars
  <2>3. recorded' \in Nat /\ recorded <= recorded'
    BY <2>2, CountParts DEF Base
  <2>4. Counted(w)' /\ ~Holding(w)'
    BY <2>1 DEF Counted, Holding, TickOps
  <2> QED
    BY <2>1, <2>2, <2>3, <2>4, SnapshotFrame DEF Base
<1>3. CASE EvaluateNothing(w) \/ EvaluateSignal(w) \/ InsertSignal(w) \/ EvaluateRisk(w)
           \/ MatchCandidate(w)
  <2>1. /\ Frame(w) /\ Kept(w) /\ pc[w] \in {"candle", "signal", "risk", "match"}
        /\ pc'[w] \in {"match", "signal", "risk", "insert"}
        /\ UNCHANGED <<runner, histVars>>
    <3>1. CASE EvaluateNothing(w)
      BY <3>1, NothingEffect DEF Base
    <3>2. CASE EvaluateSignal(w)
      BY <3>2, SignalEffect DEF Base, dbVars
    <3>3. CASE InsertSignal(w)
      BY <3>3, InsertSignalEffect DEF Base
    <3>4. CASE EvaluateRisk(w)
      BY <3>4, RiskEffect DEF Base
    <3>5. CASE MatchCandidate(w)
      BY <3>5, MatchEffect DEF Base, dbVars
    <3> QED
      BY <1>3, <3>1, <3>2, <3>3, <3>4, <3>5
  <2>2. UNCHANGED <<runner, word, overlap>> /\ UNCHANGED recorded
    BY <2>1 DEF histVars
  <2>3. pc[w] \in RunLabels \cup {"pair"} /\ pc'[w] \in RunLabels \ {"link"}
    BY <2>1 DEF RunLabels
  <2> QED
    BY <2>1, <2>2, <2>3, SnapshotRun DEF Base
<1>4. CASE InsertRun(w)
  <2>1. /\ Frame(w) /\ Kept(w) /\ pc[w] = "insert" /\ pc'[w] = "link"
        /\ recorded' = IF op[w] \in TickOps THEN recorded + 1 ELSE recorded
        /\ UNCHANGED <<runner, word, overlap>>
    BY <1>4, InsertRunEffect DEF Base
  <2>2. /\ recorded \in Nat /\ snap[w].total_runs \in Nat /\ done[w] \in Nat
    BY CountParts DEF Base
  <2>3. recorded' \in Nat /\ recorded <= recorded'
    BY <2>1, <2>2
  <2>4. op[w] \in TickOps => snap[w].total_runs + done[w] <= recorded
    BY <2>1 DEF Snapshots, StaleTicksHarmless, Holding, RunLabels
  <2>5. op[w] \in TickOps => snap'[w].total_runs + done'[w] + 1 <= recorded'
    BY <2>1, <2>2, <2>4 DEF Kept
  <2>6. Counted(w)'
    BY <2>1, <2>5 DEF Counted, Kept
  <2>7. Holding(w)' => /\ Holding(w) /\ snap'[w] = snap[w]
                       /\ snap'[w].total_runs + done'[w] <= recorded'
    BY <2>1, <2>2, <2>3, <2>4 DEF Holding, Kept, RunLabels
  <2> QED
    BY <2>1, <2>3, <2>6, <2>7, SnapshotFrame DEF Base
<1>5. CASE LinkRun(w) \/ FailRun(w)
  <2>1. /\ Frame(w) /\ pc[w] \in Running
        /\ op[w] \in TickOps =>
              /\ pc'[w] = "pair" /\ op'[w] = op[w] /\ snap'[w] = snap[w]
              /\ \/ done'[w] = done[w]
                 \/ done'[w] = done[w] + 1 /\ pc[w] = "link"
        /\ op[w] \notin TickOps => Ended(w)
        /\ UNCHANGED <<runner, word, overlap>> /\ UNCHANGED recorded
    <3>1. CASE LinkRun(w)
      BY <3>1, LinkEffect DEF Base, Running, RunLabels
    <3>2. CASE FailRun(w)
      BY <3>2, FailEffect DEF Base, dbVars, histVars
    <3> QED
      BY <1>5, <3>1, <3>2
  <2>2. CASE op[w] \in TickOps
    <3>1. Holding(w) /\ snap[w].total_runs + done[w] <= recorded
      BY <2>1, <2>2 DEF Snapshots, StaleTicksHarmless, Holding, Running
    <3>2. pc[w] = "link" => snap[w].total_runs + done[w] + 1 <= recorded
      BY <2>2 DEF Snapshots, SnapshotEvidence, Counted
    <3>3. /\ recorded \in Nat /\ snap[w].total_runs \in Nat /\ done[w] \in Nat
      BY CountParts DEF Base
    <3>4. snap'[w] = snap[w] /\ snap'[w].total_runs + done'[w] <= recorded'
      BY <2>1, <2>2, <3>1, <3>2, <3>3
    <3>5. Counted(w)'
      BY <2>1, <2>2 DEF Counted
    <3>6. recorded' \in Nat /\ recorded <= recorded'
      BY <2>1, <3>3
    <3> QED
      BY <2>1, <3>1, <3>4, <3>5, <3>6, SnapshotFrame DEF Base
  <2>3. CASE op[w] \notin TickOps
    BY <2>1, <2>3, SnapshotEnded DEF Base
  <2> QED
    BY <2>2, <2>3
<1> QED
  BY <1>1, <1>2, <1>3, <1>4, <1>5 DEF RunStep

(* The jobs that read or write the runner's state. *)
LEMMA SnapshotRunnerStep ==
    ASSUME Base, Snapshots, NEW w \in Workers, RunnerStep(w)
    PROVE  Snapshots'
<1>1. /\ runner.total_runs \in Nat /\ recorded \in Nat
      /\ \A v \in Workers : snap[v].total_runs \in Nat /\ done[v] \in Nat
  BY CountParts DEF Base
<1>2. CASE StartTick(w)
  <2>1. /\ Frame(w) /\ pc[w] = "idle"
        /\ \/ Ended(w)
           \/ pc'[w] = "state" /\ op'[w] \in ReadingOps /\ done'[w] = done[w]
        /\ UNCHANGED <<dbVars, histVars>>
    BY <1>2, StartTickEffect DEF Base
  <2>2. UNCHANGED <<runner, word, overlap>> /\ UNCHANGED recorded
    BY <2>1 DEF dbVars, histVars
  <2>3. done[w] = 0
    BY <2>1 DEF Snapshots, SnapshotEvidence, Counted
  <2>4. Counted(w)' /\ ~Holding(w)'
    BY <2>1, <2>3 DEF Counted, Holding, Ended, RunLabels, TickOps
  <2>5. recorded' \in Nat /\ recorded <= recorded'
    BY <1>1, <2>2
  <2> QED
    BY <2>1, <2>2, <2>4, <2>5, SnapshotFrame DEF Base
<1>3. CASE LoadState(w) \/ StartControl(w)
  <2>1. /\ Frame(w) /\ pc[w] \in {"idle", "state"} /\ UNCHANGED <<runner, word, recorded>>
        /\ \/ Ended(w) /\ UNCHANGED overlap
           \/ pc'[w] \in {"pair", "write"} /\ Snapped(w)
    <3>1. CASE LoadState(w)
      BY <3>1, LoadStateEffect DEF Base, dbVars
    <3>2. CASE StartControl(w)
      BY <3>2, StartControlEffect DEF Base, dbVars
    <3> QED
      BY <1>3, <3>1, <3>2
  <2>2. CASE Ended(w) /\ UNCHANGED overlap
    BY <2>1, <2>2, SnapshotEnded DEF Base
  <2>3. CASE pc'[w] \in {"pair", "write"} /\ Snapped(w)
    <3>1. snap'[w] = runner /\ done'[w] = done[w]
      BY <2>3 DEF Snapped
    <3>2. ~overlap' => ~overlap /\ \A v \in Workers : v # w => ~Holding(v)
      BY <2>3, Zenon DEF Snapped
    <3>3. done'[w] = 0
      BY <2>1, <3>1 DEF Snapshots, SnapshotEvidence, Counted
    <3>4. \A v \in Workers : v # w => (Holding(v)' <=> Holding(v))
      BY <2>1 DEF Frame, Holding
    <3>5. ASSUME NEW v \in Workers PROVE Counted(v)'
      <4>1. CASE v # w
        <5>1. /\ pc'[v] = pc[v] /\ op'[v] = op[v] /\ snap'[v] = snap[v]
              /\ done'[v] = done[v]
          BY <2>1, <4>1 DEF Frame
        <5>2. Counted(v)
          BY DEF Snapshots, SnapshotEvidence
        <5> QED
          BY <2>1, <5>1, <5>2 DEF Counted
      <4>2. CASE v = w
        BY <2>3, <4>2 DEF Counted
      <4> QED
        BY <4>1, <4>2
    <3>6. ASSUME NEW v \in Workers, Holding(v)'
          PROVE  snap'[v].total_runs + done'[v] <= recorded'
      <4>1. CASE v # w
        <5>1. snap'[v] = snap[v] /\ done'[v] = done[v] /\ Holding(v)
          BY <2>1, <3>4, <3>6, <4>1 DEF Frame
        <5> QED
          BY <2>1, <5>1 DEF Snapshots, StaleTicksHarmless
      <4>2. CASE v = w
        BY <1>1, <2>1, <3>1, <3>3, <4>2 DEF Snapshots, StaleTicksHarmless
      <4> QED
        BY <4>1, <4>2
    <3>7. ASSUME ~overlap', NEW v \in Workers, Holding(v)'
          PROVE  v = w /\ snap'[v].status = word'
      <4>1. v = w
        BY <3>2, <3>4, <3>7
      <4>2. runner.status = word
        BY <3>2, <3>7 DEF Snapshots, StaleTicksHarmless
      <4> QED
        BY <2>1, <3>1, <4>1, <4>2
    <3>8. SnapshotEvidence'
      BY <3>5, <3>7 DEF SnapshotEvidence
    <3>9. StaleTicksHarmless'
      BY <2>1, <3>2, <3>6 DEF Snapshots, StaleTicksHarmless
    <3> QED
      BY <3>8, <3>9 DEF Snapshots
  <2> QED
    BY <2>1, <2>2, <2>3
<1>4. CASE SaveTick(w) \/ SaveStatus(w)
  <2>1. /\ Frame(w) /\ Ended(w)
        /\ \/ /\ pc[w] = "pair" /\ UNCHANGED word
              /\ runner'.status = snap[w].status
              /\ runner'.total_runs = snap[w].total_runs + done[w]
           \/ /\ pc[w] = "write" /\ runner'.status = word'
              /\ runner'.total_runs = snap[w].total_runs
        /\ UNCHANGED <<recorded, overlap>>
    BY <1>4, SaveEffect DEF Base
  <2>2. Holding(w)
    BY <2>1 DEF Holding, Base, TaskEvidence, Task
  <2>3. snap[w].total_runs + done[w] <= recorded
    BY <2>2 DEF Snapshots, StaleTicksHarmless
  <2>4. runner'.total_runs <= recorded'
    BY <1>1, <2>1, <2>3
  <2>5. ~overlap => /\ snap[w].status = word
                    /\ \A v \in Workers : Holding(v) => v = w
    BY <2>2 DEF Snapshots, SnapshotEvidence
  <2>6. ~overlap' => runner'.status = word'
    BY <2>1, <2>5
  <2>7. /\ ~Holding(w)' /\ Counted(w)'
        /\ \A v \in Workers : v # w => (Holding(v)' <=> Holding(v))
    BY <2>1 DEF Frame, Holding, Ended, Counted, TickOps
  <2>8. ASSUME NEW v \in Workers, v # w PROVE Counted(v)'
    <3>1. /\ pc'[v] = pc[v] /\ op'[v] = op[v] /\ snap'[v] = snap[v] /\ done'[v] = done[v]
      BY <2>1, <2>8 DEF Frame
    <3>2. Counted(v)
      BY DEF Snapshots, SnapshotEvidence
    <3> QED
      BY <2>1, <3>1, <3>2 DEF Counted
  <2>9. ASSUME NEW v \in Workers, Holding(v)'
        PROVE  snap'[v].total_runs + done'[v] <= recorded' /\ overlap'
    <3>1. v # w /\ Holding(v)
      BY <2>7, <2>9
    <3>2. snap'[v] = snap[v] /\ done'[v] = done[v] /\ snap[v].total_runs + done[v] <= recorded
      BY <2>1, <3>1 DEF Frame, Snapshots, StaleTicksHarmless
    <3>3. overlap
      BY <2>5, <3>1
    <3> QED
      BY <2>1, <3>2, <3>3
  <2>10. SnapshotEvidence'
    BY <2>7, <2>8, <2>9 DEF SnapshotEvidence
  <2>11. StaleTicksHarmless'
    BY <2>4, <2>6, <2>9 DEF StaleTicksHarmless
  <2> QED
    BY <2>10, <2>11 DEF Snapshots
<1> QED
  BY <1>2, <1>3, <1>4 DEF RunnerStep

(* The steps of an observation before its run. *)
LEMMA SnapshotObserverStep ==
    ASSUME Base, Snapshots, NEW w \in Workers, ObserverStep(w)
    PROVE  Snapshots'
<1>1. /\ Frame(w)
      /\ \/ Ended(w)
         \/ /\ op'[w] = "OBSERVE" /\ pc'[w] \in {"align", "evaluated", "plan", "begin"}
      /\ UNCHANGED <<dbVars, histVars>>
  <2>1. CASE StartObservation(w)
    BY <2>1, StartObservationEffect DEF Base
  <2>2. CASE CheckAlignment(w) \/ ReadEvaluated(w) \/ PlanObservation(w)
    <3>1. /\ Frame(w) /\ UNCHANGED <<dbVars, histVars>>
          /\ \/ Ended(w)
             \/ /\ op'[w] = op[w] /\ pc[w] \in {"align", "evaluated", "plan"}
                /\ pc'[w] \in {"evaluated", "plan", "begin"}
      BY <2>2, ObserverEffect DEF Base
    <3> QED
      BY <3>1 DEF Base, TaskEvidence, Task
  <2> QED
    BY <2>1, <2>2 DEF ObserverStep
<1>2. UNCHANGED <<runner, word, overlap>> /\ UNCHANGED recorded
  BY <1>1 DEF dbVars, histVars
<1>3. CASE Ended(w)
  BY <1>1, <1>2, <1>3, SnapshotEnded DEF Base
<1>4. CASE ~Ended(w)
  <2>1. Counted(w)' /\ ~Holding(w)'
    BY <1>1, <1>4 DEF Counted, Holding, TickOps
  <2>2. recorded' \in Nat /\ recorded <= recorded'
    BY <1>2, CountParts DEF Base
  <2> QED
    BY <1>1, <1>2, <2>1, <2>2, SnapshotFrame DEF Base
<1> QED
  BY <1>3, <1>4

(* Every step. *)
LEMMA SnapshotStep ==
    ASSUME Base, Snapshots, [Next]_vars
    PROVE  Snapshots'
<1>1. CASE Environment
  <2>1. UNCHANGED <<jobVars, runner>> /\ UNCHANGED histVars
    BY <1>1, BaseEnvironment DEF Outside
  <2> QED
    BY <2>1 DEF Snapshots, SnapshotEvidence, StaleTicksHarmless, Counted, Holding,
       jobVars, histVars
<1>2. CASE UNCHANGED vars
  BY <1>2 DEF Snapshots, SnapshotEvidence, StaleTicksHarmless, Counted, Holding,
     vars, dbVars, jobVars, histVars
<1> QED
  BY <1>1, <1>2, SnapshotRunStep, SnapshotRunnerStep, SnapshotObserverStep DEF Next

(* Ticks that write from old snapshots, in any interleaving with control
   actions and other ticks, count no run that was not recorded; and while no
   two jobs hold a snapshot at one time the runner has the status of the last
   control action or tick on an invalid configuration. *)
THEOREM StaleTicksSafe == Spec => []StaleTicksHarmless
<1>1. Init => Snapshots
  <2> SUFFICES ASSUME Init PROVE Snapshots
    OBVIOUS
  <2>1. /\ recorded = 0 /\ \A w \in Workers : pc[w] = "idle" /\ done[w] = 0 /\ op[w] = "none"
    BY DEF Init
  <2>2. runner.total_runs = 0 /\ runner.status = word
    BY RunnerTyped, StatusAssumption DEF Init
  <2> QED
    BY <2>1, <2>2 DEF Snapshots, SnapshotEvidence, StaleTicksHarmless, Counted, Holding, TickOps
<1>2. Base /\ Snapshots /\ [Next]_vars => Snapshots'
  BY SnapshotStep
<1>3. Snapshots => StaleTicksHarmless
  BY DEF Snapshots
<1> QED
  BY <1>1, <1>2, <1>3, BaseInvariant, PTL DEF Spec

(***************************************************************************)
(* Signals, decisions and the rows of runs.                                *)
(***************************************************************************)

Traces == RunEvidence /\ SignalsUnique /\ RunsTraceable

\* A step gives no run under way but its own a signal with its id.
Distinct(w) ==
    \A s \in signals' : \A v \in Workers :
        s \in signals \/ v = w \/ pc[v] \notin Running \/ s.id # run[v].created

(* What is known of the runs of other jobs. *)
LEMMA FreshFrame ==
    ASSUME Base, RunEvidence, NEW w \in Workers, Frame(w), clock <= clock', clock' \in Nat,
           signals \subseteq signals', decisions \subseteq decisions', Distinct(w),
           NEW v \in Workers, v # w
    PROVE  Fresh(v)'
<1>1. pc'[v] = pc[v] /\ run'[v] = run[v]
  BY DEF Frame
<1>2. Fresh(v) /\ run[v].created \in Nat /\ clock \in Nat
  BY LocalParts, TypeParts DEF RunEvidence, Base, HistoryTypes
<1>3. pc'[v] \in Running => 0 < run'[v].created /\ run'[v].created <= clock'
  BY <1>1, <1>2 DEF Fresh
<1>4. pc[v] \in Running => \A s \in signals' : s.id = run[v].created => s \in signals
  BY DEF Distinct
<1>5. pc[v] \in {"candle", "signal", "risk", "match", "insert", "link"} => pc[v] \in Running
  BY DEF Running, RunLabels
<1>6. pc'[v] \in {"candle", "signal"} => \A s \in signals' : s.id # run'[v].created
  BY <1>1, <1>2, <1>4, <1>5 DEF Fresh
<1>7. ASSUME pc[v] \in Running, Signalled(run[v]) PROVE Signalled(run[v])'
  BY <1>1, <1>4, <1>7 DEF Signalled
<1>8. ASSUME pc[v] \in Running, Decided(run[v]) PROVE Decided(run[v])'
  <2>1. CASE run[v].risk = 0
    BY <1>1, <1>8, <2>1 DEF Decided
  <2>2. CASE run[v].risk # 0
    <3>1. Signalled(run[v])'
      BY <1>7, <1>8, <2>2 DEF Decided
    <3>2. \E d \in decisions' : /\ d.id = run[v].risk /\ d.signal = run[v].signal
                                /\ d.approved <=> run[v].decision # "RISK_REJECTED"
      BY <1>8, <2>2 DEF Decided
    <3>3. run[v].decision \in {"WOULD_SUBMIT", "RISK_REJECTED", "SKIPPED_STALE_PRICE"}
      BY <1>8, <2>2 DEF Decided
    <3> QED
      BY <1>1, <2>2, <3>1, <3>2, <3>3 DEF Decided
  <2> QED
    BY <2>1, <2>2
<1>9. pc'[v] = "risk" => Signalled(run[v])'
  BY <1>1, <1>2, <1>5, <1>7 DEF Fresh
<1>10. pc'[v] \in {"match", "insert", "link"} => Decided(run[v])'
  BY <1>1, <1>2, <1>5, <1>8 DEF Fresh
<1> QED
  BY <1>3, <1>6, <1>9, <1>10 DEF Fresh

(* So of all runs, if the step's own is as it should be. *)
LEMMA EvidenceFrame ==
    ASSUME Base, RunEvidence, NEW w \in Workers, Frame(w), clock <= clock', clock' \in Nat,
           signals \subseteq signals', decisions \subseteq decisions', Distinct(w),
           Fresh(w)', \A s \in signals' : 0 < s.id /\ s.id <= clock',
           \A v \in Workers : v # w /\ pc[v] \in Running /\ pc'[w] \in Running
                              => run[v].created # run'[w].created
    PROVE  RunEvidence'
<1>1. \A v \in Workers : Fresh(v)'
  BY FreshFrame
<1>2. ASSUME NEW u \in Workers, NEW v \in Workers,
             u # v, pc'[u] \in Running, pc'[v] \in Running
      PROVE  run'[u].created # run'[v].created
  <2>1. CASE u = w
    BY <1>2, <2>1 DEF Frame
  <2>2. CASE v = w
    BY <1>2, <2>2 DEF Frame
  <2>3. CASE u # w /\ v # w
    BY <1>2, <2>3 DEF Frame, RunEvidence
  <2> QED
    BY <2>1, <2>2, <2>3
<1> QED
  BY <1>1, <1>2 DEF RunEvidence

(* Rows stay traceable while signals and decisions are only added. *)
LEMMA RowsFrame ==
    ASSUME RunsTraceable, UNCHANGED rows,
           signals \subseteq signals', decisions \subseteq decisions'
    PROVE  RunsTraceable'
  BY DEF RunsTraceable

(* The bounds of ids while signals stay and the clock goes on. *)
LEMMA IdsFrame ==
    ASSUME Base, RunEvidence, UNCHANGED signals, clock <= clock', clock' \in Nat
    PROVE  \A s \in signals' : 0 < s.id /\ s.id <= clock'
<1>1. clock \in Nat /\ \A s \in signals : s.id \in Nat
  BY TypeParts DEF Base, HistoryTypes, DbTypes, SignalRow
<1> QED
  BY <1>1 DEF RunEvidence

(* A job's step outside a run, or the end of one. *)
LEMMA TraceQuiet ==
    ASSUME Base, Traces, NEW w \in Workers, Frame(w), clock <= clock', clock' \in Nat,
           UNCHANGED <<signals, decisions, rows, last>>, pc'[w] \notin Running
    PROVE  Traces'
<1>1. Distinct(w) /\ signals \subseteq signals' /\ decisions \subseteq decisions'
  BY DEF Distinct
<1>2. Fresh(w)'
  BY DEF Fresh, Running, RunLabels
<1>3. RunEvidence'
  BY <1>1, <1>2, IdsFrame, EvidenceFrame DEF Traces
<1>4. SignalsUnique' /\ RunsTraceable'
  BY <1>1, RowsFrame DEF Traces, SignalsUnique
<1> QED
  BY <1>3, <1>4 DEF Traces

(* A run that begins has an id no signal and no other run has. *)
LEMMA TraceBegin ==
    ASSUME Base, Traces, NEW w \in Workers, RunPair(w) \/ RunObservation(w) \/ RunRequest(w)
    PROVE  Traces'
<1>1. /\ Frame(w) /\ pc'[w] = "candle" /\ clock' = clock + 1
      /\ run'[w].created = clock + 1 /\ UNCHANGED dbVars
  BY BeginEffect DEF Base
<1>2. UNCHANGED <<signals, decisions, rows, last>>
  BY <1>1 DEF dbVars
<1>3. /\ clock \in Nat /\ \A s \in signals : s.id \in Nat
      /\ \A v \in Workers : run[v].created \in Nat
  BY TypeParts, LocalParts DEF Base, HistoryTypes, DbTypes, SignalRow
<1>4. clock <= clock' /\ clock' \in Nat
  BY <1>1, <1>3
<1>5. \A s \in signals : s.id <= clock
  BY DEF Traces, RunEvidence
<1>6. Fresh(w)'
  BY <1>1, <1>2, <1>3, <1>5 DEF Fresh
<1>7. \A v \in Workers : pc[v] \in Running => run[v].created # run'[w].created
  <2>1. \A v \in Workers : pc[v] \in Running => run[v].created <= clock
    BY DEF Traces, RunEvidence, Fresh
  <2> QED
    BY <1>1, <1>3, <2>1
<1>8. Distinct(w) /\ signals \subseteq signals' /\ decisions \subseteq decisions'
  BY <1>2 DEF Distinct
<1>9. \A s \in signals' : 0 < s.id /\ s.id <= clock'
  BY <1>2, <1>4, IdsFrame DEF Traces
<1>10. RunEvidence'
  BY <1>1, <1>4, <1>6, <1>7, <1>8, <1>9, EvidenceFrame DEF Traces
<1>11. SignalsUnique' /\ RunsTraceable'
  BY <1>2, <1>8, RowsFrame DEF Traces, SignalsUnique
<1> QED
  BY <1>10, <1>11 DEF Traces

(* A run keeps its id. *)
LEMMA CarriedId ==
    ASSUME RunEvidence, NEW w \in Workers, run'[w].created = run[w].created,
           pc[w] \in Running, UNCHANGED clock
    PROVE  /\ 0 < run'[w].created /\ run'[w].created <= clock'
           /\ \A v \in Workers : v # w /\ pc[v] \in Running
                                 => run[v].created # run'[w].created
  BY DEF RunEvidence, Fresh

(* An evaluation. *)
LEMMA TraceEvaluate ==
    ASSUME Base, Traces, NEW w \in Workers, EvaluateNothing(w) \/ EvaluateSignal(w)
    PROVE  Traces'
<1>1. /\ Frame(w) /\ Carried(w) /\ pc[w] = "candle"
      /\ \/ pc'[w] = "signal" /\ UNCHANGED last
         \/ /\ pc'[w] = "match" /\ run'[w].risk = 0
            /\ run'[w].decision \in {"SKIPPED", "NO_SIGNAL"}
            /\ last' = last \/ last' = [last EXCEPT ![StrategyOf[run[w].key]] = 0]
      /\ UNCHANGED <<signals, decisions, rows, clock>>
  <2>1. CASE EvaluateNothing(w)
    BY <2>1, NothingEffect DEF Base
  <2>2. CASE EvaluateSignal(w)
    BY <2>2, SignalEffect DEF Base, dbVars
  <2> QED
    BY <2>1, <2>2
<1>2. run'[w].created = run[w].created /\ pc[w] \in Running
  BY <1>1 DEF Carried, Running, RunLabels
<1>3. /\ 0 < run'[w].created /\ run'[w].created <= clock'
      /\ \A v \in Workers : v # w /\ pc[v] \in Running => run[v].created # run'[w].created
  BY <1>1, <1>2, CarriedId DEF Traces
<1>4. \A s \in signals : s.id # run[w].created
  BY <1>1 DEF Traces, RunEvidence, Fresh
<1>5. Fresh(w)'
  BY <1>1, <1>2, <1>3, <1>4 DEF Fresh, Decided
<1>6. clock <= clock' /\ clock' \in Nat
  BY <1>1, TypeParts DEF Base, HistoryTypes
<1>7. Distinct(w) /\ signals \subseteq signals' /\ decisions \subseteq decisions'
  BY <1>1 DEF Distinct
<1>8. \A s \in signals' : 0 < s.id /\ s.id <= clock'
  BY <1>1, <1>6, IdsFrame DEF Traces
<1>9. RunEvidence'
  BY <1>1, <1>3, <1>5, <1>6, <1>7, <1>8, EvidenceFrame DEF Traces
<1>10. SignalsUnique'
  <2>1. last \in [Strategies -> Nat]
    BY TypeParts DEF Base, DbTypes
  <2>2. \A g \in Strategies : last'[g] = last[g] \/ last'[g] = 0
    BY <1>1, <2>1
  <2> QED
    BY <1>1, <2>2 DEF Traces, SignalsUnique
<1>11. RunsTraceable'
  BY <1>1, <1>7, RowsFrame DEF Traces
<1> QED
  BY <1>9, <1>10, <1>11 DEF Traces

(* The insertion of a signal: its own if the candle had none of its kind. *)
LEMMA TraceInsertSignal ==
    ASSUME Base, Traces, NEW w \in Workers, InsertSignal(w)
    PROVE  Traces'
<1> DEFINE new == [id |-> run[w].created, key |-> run[w].key, candle |-> run[w].candle,
                   kind |-> run[w].kind]
<1>1. /\ Frame(w) /\ Carried(w) /\ pc[w] = "signal" /\ pc'[w] = "risk"
      /\ run'[w].candle = run[w].candle /\ run'[w].kind = run[w].kind
      /\ \E s \in signals' : /\ s.id = run'[w].signal /\ s.key = run[w].key
                             /\ s.candle = run[w].candle /\ s.kind = run[w].kind
                             /\ last' = [last EXCEPT ![StrategyOf[run[w].key]] = s.id]
      /\ \/ signals' = signals
         \/ /\ Identical(run[w]) = {} /\ run'[w].signal = run[w].created
            /\ signals' = signals \cup {new}
      /\ UNCHANGED <<decisions, rows, clock>>
  BY InsertSignalEffect DEF Base
<1>2. /\ new.id = run[w].created /\ new.key = run[w].key /\ new.candle = run[w].candle
      /\ new.kind = run[w].kind
  OBVIOUS
<1> HIDE DEF new
<1>3. run'[w].created = run[w].created /\ run'[w].key = run[w].key /\ pc[w] \in Running
  BY <1>1 DEF Carried, Running, RunLabels
<1>4. /\ 0 < run'[w].created /\ run'[w].created <= clock'
      /\ \A v \in Workers : v # w /\ pc[v] \in Running => run[v].created # run'[w].created
  BY <1>1, <1>3, CarriedId DEF Traces
<1>5. \A s \in signals : s.id # run[w].created
  BY <1>1 DEF Traces, RunEvidence, Fresh
<1>6. \A s \in signals' : s.id = run'[w].created => run'[w].signal = run'[w].created
  BY <1>1, <1>3, <1>5
<1>7. Signalled(run[w])'
  BY <1>1, <1>3, <1>6 DEF Signalled
<1>8. Fresh(w)'
  BY <1>1, <1>4, <1>7 DEF Fresh
<1>9. Distinct(w)
  BY <1>1, <1>2, <1>3, <1>4 DEF Distinct
<1>10. clock <= clock' /\ clock' \in Nat
  BY <1>1, TypeParts DEF Base, HistoryTypes
<1>11. signals \subseteq signals' /\ decisions \subseteq decisions'
  BY <1>1
<1>12. \A s \in signals' : 0 < s.id /\ s.id <= clock'
  BY <1>1, <1>2, <1>3, <1>4 DEF Traces, RunEvidence
<1>13. RunEvidence'
  BY <1>1, <1>4, <1>8, <1>9, <1>10, <1>11, <1>12, EvidenceFrame DEF Traces
<1>14. \A s, t \in signals' : s.key = t.key /\ s.candle = t.candle /\ s.kind = t.kind
                               => s = t
  <2>1. \A s, t \in signals : s.key = t.key /\ s.candle = t.candle /\ s.kind = t.kind
                              => s = t
    BY DEF Traces, SignalsUnique
  <2>2. Identical(run[w]) = {} =>
          \A s \in signals : s.key # new.key \/ s.candle # new.candle \/ s.kind # new.kind
    BY <1>2 DEF Identical
  <2> QED
    BY <1>1, <2>1, <2>2
<1>15. \A g \in Strategies : last'[g] # 0 =>
          \E s \in signals' : s.id = last'[g] /\ StrategyOf[s.key] = g
  <2>1. last \in [Strategies -> Nat] /\ StrategyOf[run[w].key] \in Strategies
    BY TypeParts, LocalParts, StrategiesAssumption DEF Base, DbTypes
  <2>2. PICK t \in signals' :
          t.key = run[w].key /\ last' = [last EXCEPT ![StrategyOf[run[w].key]] = t.id]
    BY <1>1
  <2>3. \A g \in Strategies : last[g] # 0 =>
          \E s \in signals : s.id = last[g] /\ StrategyOf[s.key] = g
    BY DEF Traces, SignalsUnique
  <2>4. ASSUME NEW g \in Strategies, last'[g] # 0
        PROVE  \E s \in signals' : s.id = last'[g] /\ StrategyOf[s.key] = g
    <3>1. CASE g = StrategyOf[run[w].key]
      BY <2>1, <2>2, <3>1
    <3>2. CASE g # StrategyOf[run[w].key]
      <4>1. last'[g] = last[g]
        BY <2>1, <2>2, <3>2
      <4> QED
        BY <1>11, <2>3, <2>4, <4>1
    <3> QED
      BY <3>1, <3>2
  <2> QED
    BY <2>4
<1>16. SignalsUnique'
  BY <1>14, <1>15 DEF SignalsUnique
<1>17. RunsTraceable'
  BY <1>1, <1>11, RowsFrame DEF Traces
<1> QED
  BY <1>13, <1>16, <1>17 DEF Traces

(* The risk decision, recorded for the signal of the run. *)
LEMMA TraceRisk ==
    ASSUME Base, Traces, NEW w \in Workers, EvaluateRisk(w)
    PROVE  Traces'
<1>1. /\ Frame(w) /\ Carried(w) /\ pc[w] = "risk" /\ pc'[w] = "match"
      /\ run'[w].candle = run[w].candle /\ run'[w].kind = run[w].kind
      /\ run'[w].signal = run[w].signal /\ run'[w].risk = run[w].created
      /\ run'[w].decision \in {"WOULD_SUBMIT", "RISK_REJECTED", "SKIPPED_STALE_PRICE"}
      /\ RiskDecided(w)
      /\ UNCHANGED <<signals, last, rows, clock>>
  BY RiskEffect DEF Base
<1>2. run'[w].created = run[w].created /\ run'[w].key = run[w].key /\ pc[w] \in Running
  BY <1>1 DEF Carried, Running, RunLabels
<1>3. /\ 0 < run'[w].created /\ run'[w].created <= clock'
      /\ \A v \in Workers : v # w /\ pc[v] \in Running => run[v].created # run'[w].created
  BY <1>1, <1>2, CarriedId DEF Traces
<1>4. PICK d \in DecisionRow :
        /\ decisions' = decisions \cup {d}
        /\ d.id = run[w].created /\ d.signal = run[w].signal
        /\ d.approved <=> run'[w].decision # "RISK_REJECTED"
  BY <1>1, Zenon DEF RiskDecided
<1>5. \E e \in decisions' : /\ e.id = run'[w].risk /\ e.signal = run'[w].signal
                            /\ e.approved <=> run'[w].decision # "RISK_REJECTED"
  <2>1. d \in decisions' /\ d.id = run'[w].risk /\ d.signal = run'[w].signal
    BY <1>1, <1>4
  <2> QED
    BY <1>4, <2>1, Zenon
<1>6. Signalled(run[w])'
  <2>1. Signalled(run[w])
    BY <1>1 DEF Traces, RunEvidence, Fresh
  <2> QED
    BY <1>1, <1>2, <2>1 DEF Signalled
<1>7. run'[w].risk # 0
  BY <1>1, <1>2, <1>3
<1>8. Decided(run[w])'
  BY <1>1, <1>5, <1>6, <1>7, Zenon DEF Decided
<1>9. Fresh(w)'
  BY <1>1, <1>3, <1>8 DEF Fresh
<1>10. clock <= clock' /\ clock' \in Nat
  BY <1>1, TypeParts DEF Base, HistoryTypes
<1>11. Distinct(w) /\ signals \subseteq signals' /\ decisions \subseteq decisions'
  BY <1>1, <1>4 DEF Distinct
<1>12. \A s \in signals' : 0 < s.id /\ s.id <= clock'
  BY <1>1, <1>10, IdsFrame DEF Traces
<1>13. RunEvidence'
  BY <1>1, <1>3, <1>9, <1>10, <1>11, <1>12, EvidenceFrame DEF Traces
<1>14. SignalsUnique' /\ RunsTraceable'
  BY <1>1, <1>11, RowsFrame DEF Traces, SignalsUnique
<1> QED
  BY <1>13, <1>14 DEF Traces

(* The candidate of a run, and its row. *)
LEMMA TraceDecided ==
    ASSUME Base, Traces, NEW w \in Workers, MatchCandidate(w) \/ InsertRun(w)
    PROVE  RunEvidence' /\ SignalsUnique'
<1>1. /\ Frame(w) /\ Carried(w) /\ pc[w] \in {"match", "insert"}
      /\ pc'[w] \in {"insert", "link"}
      /\ run'[w].candle = run[w].candle /\ run'[w].kind = run[w].kind
      /\ run'[w].decision = run[w].decision
      /\ run'[w].signal = run[w].signal /\ run'[w].risk = run[w].risk
      /\ UNCHANGED <<signals, decisions, last, clock>>
  <2>1. CASE MatchCandidate(w)
    BY <2>1, MatchEffect DEF Base, dbVars
  <2>2. CASE InsertRun(w)
    BY <2>2, InsertRunEffect DEF Base, Carried
  <2> QED
    BY <2>1, <2>2
<1>2. run'[w].created = run[w].created /\ run'[w].key = run[w].key /\ pc[w] \in Running
  BY <1>1 DEF Carried, Running, RunLabels
<1>3. /\ 0 < run'[w].created /\ run'[w].created <= clock'
      /\ \A v \in Workers : v # w /\ pc[v] \in Running => run[v].created # run'[w].created
  BY <1>1, <1>2, CarriedId DEF Traces
<1>4. Decided(run[w])
  BY <1>1 DEF Traces, RunEvidence, Fresh
<1>5. Decided(run[w])'
  BY <1>1, <1>2, <1>4 DEF Decided, Signalled
<1>6. Fresh(w)'
  BY <1>1, <1>3, <1>5 DEF Fresh
<1>7. clock <= clock' /\ clock' \in Nat
  BY <1>1, TypeParts DEF Base, HistoryTypes
<1>8. Distinct(w) /\ signals \subseteq signals' /\ decisions \subseteq decisions'
  BY <1>1 DEF Distinct
<1>9. \A s \in signals' : 0 < s.id /\ s.id <= clock'
  BY <1>1, <1>7, IdsFrame DEF Traces
<1>10. RunEvidence'
  BY <1>1, <1>3, <1>6, <1>7, <1>8, <1>9, EvidenceFrame DEF Traces
<1>11. SignalsUnique'
  BY <1>1 DEF Traces, SignalsUnique
<1> QED
  BY <1>10, <1>11

(* stabilize_shadow_signal_id finds the signal the run was decided for. *)
LEMMA StabilizedSignal ==
    ASSUME SignalsUnique, NEW r, Signalled(r), NEW id \in Stabilized(r)
    PROVE  id = r.signal
<1>1. PICK s \in signals : /\ s.id = r.signal /\ s.key = r.key
                           /\ s.candle = r.candle /\ s.kind = r.kind
  BY DEF Signalled
<1>2. CASE \E t \in signals : t.id = r.created
  <2>1. id = r.created
    BY <1>2 DEF Stabilized
  <2> QED
    BY <1>2, <2>1 DEF Signalled
<1>3. CASE ~\E t \in signals : t.id = r.created
  <2>1. PICK t \in Identical(r) : id = t.id
    BY <1>3 DEF Stabilized
  <2>2. t \in signals /\ t.key = r.key /\ t.candle = r.candle /\ t.kind = r.kind
    BY <2>1 DEF Identical
  <2>3. t = s
    BY <1>1, <2>2 DEF SignalsUnique
  <2> QED
    BY <1>1, <2>1, <2>3
<1> QED
  BY <1>2, <1>3

(* So its row is traceable. *)
LEMMA TraceInsertRun ==
    ASSUME Base, Traces, NEW w \in Workers, InsertRun(w)
    PROVE  RunsTraceable'
<1>1. PICK x \in ShadowRow :
        /\ rows' = rows \cup {x} /\ x.id = run[w].created /\ x.key = run[w].key
        /\ x.candle = run[w].candle /\ x.decision = run[w].decision
        /\ x.risk = run[w].risk
        /\ x.signal \in IF run[w].risk = 0 THEN {0} ELSE Stabilized(run[w])
  BY InsertRunEffect DEF Base
<1>2. pc[w] = "insert" /\ UNCHANGED <<signals, decisions>>
  BY InsertRunEffect DEF Base
<1>3. Decided(run[w])
  BY <1>2 DEF Traces, RunEvidence, Fresh
<1>4. CASE run[w].risk = 0
  <2>1. x.signal = 0 /\ x.decision \in {"SKIPPED", "NO_SIGNAL"}
    BY <1>1, <1>3, <1>4 DEF Decided
  <2> QED
    BY <1>1, <1>2, <2>1 DEF Traces, RunsTraceable
<1>5. CASE run[w].risk # 0
  <2>1. /\ Signalled(run[w])
        /\ x.decision \in {"WOULD_SUBMIT", "RISK_REJECTED", "SKIPPED_STALE_PRICE"}
    BY <1>1, <1>3, <1>5 DEF Decided
  <2>2. x.signal \in Stabilized(run[w])
    BY <1>1, <1>5
  <2>3. x.signal = run[w].signal
    BY <2>1, <2>2, StabilizedSignal DEF Traces
  <2>4. PICK s \in signals : s.id = x.signal /\ s.key = x.key /\ s.candle = x.candle
    BY <1>1, <2>1, <2>3 DEF Signalled
  <2>5. x.signal # 0
    <3>1. s.id \in Nat /\ 0 < s.id
      BY TypeParts DEF Base, DbTypes, SignalRow, Traces, RunEvidence
    <3> QED
      BY <2>4, <3>1
  <2>6. \E d \in decisions : /\ d.id = x.risk /\ d.signal = x.signal
                             /\ d.approved <=> x.decision # "RISK_REJECTED"
    <3>1. \E d \in decisions : /\ d.id = run[w].risk /\ d.signal = run[w].signal
                               /\ d.approved <=> run[w].decision # "RISK_REJECTED"
      BY <1>3, <1>5 DEF Decided
    <3> QED
      BY <1>1, <2>3, <3>1
  <2> QED
    BY <1>1, <1>2, <2>1, <2>4, <2>5, <2>6 DEF Traces, RunsTraceable
<1> QED
  BY <1>4, <1>5

(* The steps of runs. *)
LEMMA TraceRunStep ==
    ASSUME Base, Traces, NEW w \in Workers, RunStep(w)
    PROVE  Traces'
<1>1. CASE RunPair(w) \/ RunObservation(w) \/ RunRequest(w)
  BY <1>1, TraceBegin
<1>2. CASE EvaluateNothing(w) \/ EvaluateSignal(w)
  BY <1>2, TraceEvaluate
<1>3. CASE InsertSignal(w)
  BY <1>3, TraceInsertSignal
<1>4. CASE EvaluateRisk(w)
  BY <1>4, TraceRisk
<1>5. CASE MatchCandidate(w)
  <2>1. UNCHANGED <<rows, signals, decisions>>
    BY <1>5, MatchEffect DEF Base, dbVars
  <2>2. signals \subseteq signals' /\ decisions \subseteq decisions'
    BY <2>1
  <2>3. RunsTraceable'
    BY <2>1, <2>2, RowsFrame DEF Traces
  <2> QED
    BY <1>5, <2>3, TraceDecided DEF Traces
<1>6. CASE InsertRun(w)
  BY <1>6, TraceDecided, TraceInsertRun DEF Traces
<1>7. CASE LinkRun(w) \/ FailRun(w)
  <2>1. /\ Frame(w)
        /\ op[w] \in TickOps => pc'[w] = "pair"
        /\ op[w] \notin TickOps => Ended(w)
        /\ UNCHANGED <<signals, decisions, rows, last>> /\ UNCHANGED clock
    <3>1. CASE LinkRun(w)
      BY <3>1, LinkEffect DEF Base
    <3>2. CASE FailRun(w)
      BY <3>2, FailEffect DEF Base, dbVars
    <3> QED
      BY <1>7, <3>1, <3>2
  <2>2. pc'[w] \notin Running
    BY <2>1 DEF Ended, Running, RunLabels
  <2>3. clock <= clock' /\ clock' \in Nat
    BY <2>1, TypeParts DEF Base, HistoryTypes
  <2> QED
    BY <2>1, <2>2, <2>3, TraceQuiet
<1> QED
  BY <1>1, <1>2, <1>3, <1>4, <1>5, <1>6, <1>7 DEF RunStep

(* The steps of the runner and of observations before their runs. *)
LEMMA TraceOtherStep ==
    ASSUME Base, Traces, NEW w \in Workers, RunnerStep(w) \/ ObserverStep(w)
    PROVE  Traces'
<1>1. clock \in Nat
  BY TypeParts DEF Base, HistoryTypes
<1>2. /\ Frame(w) /\ UNCHANGED <<signals, decisions, rows, last>>
      /\ Ended(w) \/ pc'[w] \notin Running
      /\ clock' = clock \/ clock' = clock + 1
  <2>1. CASE StartTick(w)
    BY <2>1, StartTickEffect DEF Base, dbVars, Running, RunLabels
  <2>2. CASE LoadState(w)
    BY <2>2, LoadStateEffect DEF Base, dbVars, Running, RunLabels
  <2>3. CASE StartControl(w)
    BY <2>3, StartControlEffect DEF Base, dbVars, Running, RunLabels
  <2>4. CASE SaveTick(w) \/ SaveStatus(w)
    BY <2>4, SaveEffect DEF Base
  <2>5. CASE StartObservation(w)
    BY <2>5, StartObservationEffect DEF Base, dbVars, Running, RunLabels
  <2>6. CASE CheckAlignment(w) \/ ReadEvaluated(w) \/ PlanObservation(w)
    BY <2>6, ObserverEffect DEF Base, dbVars, Running, RunLabels
  <2> QED
    BY <2>1, <2>2, <2>3, <2>4, <2>5, <2>6 DEF RunnerStep, ObserverStep
<1>3. pc'[w] \notin Running
  BY <1>2 DEF Ended, Running, RunLabels
<1>4. clock <= clock' /\ clock' \in Nat
  BY <1>1, <1>2
<1> QED
  BY <1>2, <1>3, <1>4, TraceQuiet

(* Every step. *)
LEMMA TraceStep ==
    ASSUME Base, Traces, [Next]_vars
    PROVE  Traces'
<1>1. CASE Environment
  <2>1. /\ UNCHANGED <<jobVars, runner, signals, last, decisions, rows, links>>
        /\ clock' = clock \/ clock' = clock + 1
    BY <1>1, BaseEnvironment DEF Outside
  <2>2. clock \in Nat /\ clock <= clock' /\ clock' \in Nat
    BY <2>1, TypeParts DEF Base, HistoryTypes
  <2>3. \A s \in signals' : 0 < s.id /\ s.id <= clock'
    BY <2>1, <2>2, IdsFrame DEF Traces
  <2>4. ASSUME NEW v \in Workers PROVE Fresh(v)'
    <3>1. pc'[v] = pc[v] /\ run'[v] = run[v] /\ UNCHANGED <<signals, decisions>>
      BY <2>1 DEF jobVars
    <3>2. Fresh(v) /\ run[v].created \in Nat
      BY LocalParts DEF Base, Traces, RunEvidence
    <3>3. pc'[v] \in Running => 0 < run'[v].created /\ run'[v].created <= clock'
      BY <2>2, <3>1, <3>2 DEF Fresh
    <3> QED
      BY <3>1, <3>2, <3>3 DEF Fresh, Decided, Signalled
  <2>5. RunEvidence'
    BY <2>1, <2>3, <2>4 DEF Traces, RunEvidence, jobVars
  <2> QED
    BY <2>1, <2>5 DEF Traces, SignalsUnique, RunsTraceable
<1>2. CASE UNCHANGED vars
  <2>1. UNCHANGED <<pc, run, signals, last, decisions, rows, clock>>
    BY <1>2 DEF vars, dbVars, jobVars
  <2>2. RunEvidence'
    BY <2>1 DEF Traces, RunEvidence, Fresh, Decided, Signalled
  <2> QED
    BY <2>1, <2>2 DEF Traces, SignalsUnique, RunsTraceable
<1> QED
  BY <1>1, <1>2, TraceRunStep, TraceOtherStep DEF Next

(* Traces is an invariant. *)
LEMMA TraceInvariant == Spec => []Traces
<1>1. Init => Traces
  BY DEF Init, Traces, RunEvidence, Fresh, Running, RunLabels, SignalsUnique, RunsTraceable
<1>2. Base /\ Traces /\ [Next]_vars => Traces'
  BY TraceStep
<1> QED
  BY <1>1, <1>2, BaseInvariant, PTL DEF Spec

(* However the shadow runs of one candle interleave, insert_signal_deduped
   leaves one signal for each side and reason, and strategy_state, one row for
   all symbols of a strategy, names a persisted signal of that strategy. *)
THEOREM UniqueSignals == Spec => []SignalsUnique
<1>1. Traces => SignalsUnique
  BY DEF Traces
<1> QED
  BY <1>1, TraceInvariant, PTL

(* A shadow run's row names the signal its risk decision was made for, also
   when stabilize_shadow_signal_id had to replace the generated id. *)
THEOREM RunsTraced == Spec => []RunsTraceable
<1>1. Traces => RunsTraceable
  BY DEF Traces
<1> QED
  BY <1>1, TraceInvariant, PTL

(***************************************************************************)
(* Independent evidence.                                                   *)
(***************************************************************************)

Evidence == ClaimEvidence /\ ObserverEvidence /\ EvidenceOnce

(* Parts of a claim. *)
LEMMA ClaimParts ==
    ASSUME TypeOK, NEW x \in claims
    PROVE  /\ x.cand \in Candidates /\ x.candle \in Nat /\ x.since \in Nat
           /\ x.from \in Nat /\ x.to \in Nat
  BY DEF TypeOK

(* Claims stay founded while rows and links are only added. *)
LEMMA ClaimsFrame ==
    ASSUME Base, ClaimEvidence, UNCHANGED claims, rows \subseteq rows', links \subseteq links',
           clock <= clock', clock' \in Nat
    PROVE  ClaimEvidence'
<1>1. ASSUME NEW x \in claims
      PROVE  /\ x.candle > 0 /\ x.since <= x.from /\ x.from <= x.to /\ x.to <= clock'
             /\ x.linked => \E r \in rows' :
                   /\ x.since <= r.id /\ r.id <= x.to /\ r.candle = x.candle
                   /\ [run |-> r.id, cand |-> x.cand] \in links'
  <2>1. x.to \in Nat /\ clock \in Nat
    BY ClaimParts, TypeParts DEF Base, HistoryTypes
  <2>2. x.candle > 0 /\ x.since <= x.from /\ x.from <= x.to /\ x.to <= clock
    BY DEF ClaimEvidence
  <2>3. x.linked => \E r \in rows :
          /\ x.since <= r.id /\ r.id <= x.to /\ r.candle = x.candle
          /\ [run |-> r.id, cand |-> x.cand] \in links
    BY DEF ClaimEvidence
  <2> QED
    BY <2>1, <2>2, <2>3
<1> QED
  BY <1>1 DEF ClaimEvidence

\* The claims a step adds are of this moment.
ClaimsOfNow == \A x \in claims' : x \in claims \/ x.to = clock

(* What is known of an observation whose locals a step leaves alone. *)
LEMMA ObserverKept ==
    ASSUME Base, ObserverEvidence, ClaimsOfNow, NEW v \in Workers,
           pc'[v] = pc[v], op'[v] = op[v], run'[v] = run[v], obs'[v] = obs[v],
           rows \subseteq rows', clock <= clock', clock' \in Nat
    PROVE  Observer(v)'
<1>1. /\ Observer(v) /\ obs[v].now \in Nat /\ obs[v].since \in Nat
      /\ run[v].created \in Nat /\ clock \in Nat
  BY LocalParts, TypeParts DEF ObserverEvidence, Base, HistoryTypes
<1>2. op'[v] = "OBSERVE" => obs'[v].since <= obs'[v].now /\ obs'[v].now <= clock'
  BY <1>1 DEF Observer
<1>3. op'[v] = "OBSERVE" /\ pc'[v] \in Running
        => obs'[v].now <= run'[v].created /\ run'[v].created <= clock'
  BY <1>1 DEF Observer
<1>4. ASSUME op'[v] = "OBSERVE", pc'[v] \in {"plan", "begin"} \cup Running
      PROVE  Aware(obs[v])'
  <2>1. Aware(obs[v]) /\ obs[v].now <= clock
    BY <1>1, <1>4 DEF Observer
  <2>2. \A x \in claims' : x \in claims \/ ~(x.to < obs[v].now)
    BY <1>1, <2>1 DEF ClaimsOfNow
  <2> QED
    BY <2>1, <2>2 DEF Aware
<1>5. pc'[v] = "link" => \E r \in rows' : r.id = run'[v].created /\ r.candle = run'[v].candle
  BY <1>1 DEF Observer
<1> QED
  BY <1>2, <1>3, <1>4, <1>5 DEF Observer

(* A job's step that claims nothing. *)
LEMMA EvidenceQuiet ==
    ASSUME Base, Evidence, NEW w \in Workers, Frame(w), clock <= clock', clock' \in Nat,
           rows \subseteq rows', links \subseteq links',
           UNCHANGED <<claims, candidate>>, Observer(w)'
    PROVE  Evidence'
<1>1. ClaimEvidence'
  BY ClaimsFrame DEF Evidence
<1>2. ClaimsOfNow
  BY DEF ClaimsOfNow
<1>3. ASSUME NEW v \in Workers PROVE Observer(v)'
  <2>1. CASE v # w
    <3>1. pc'[v] = pc[v] /\ op'[v] = op[v] /\ run'[v] = run[v] /\ obs'[v] = obs[v]
      BY <2>1 DEF Frame
    <3> QED
      BY <1>2, <3>1, ObserverKept DEF Evidence
  <2> QED
    BY <2>1
<1>4. \A c \in Candidates : candidate'[c].updated_at <= clock'
  <2>1. clock \in Nat /\ \A c \in Candidates : candidate[c].updated_at \in Nat
    BY TypeParts DEF Base, HistoryTypes, DbTypes, CandidateRow
  <2> QED
    BY <2>1 DEF Evidence, ObserverEvidence
<1>5. EvidenceOnce'
  BY DEF Evidence, EvidenceOnce
<1> QED
  BY <1>1, <1>3, <1>4, <1>5 DEF Evidence, ObserverEvidence

(* A job that is over observes nothing. *)
LEMMA EndedObserver ==
    ASSUME NEW w \in Workers, Ended(w)
    PROVE  Observer(w)'
  BY DEF Ended, Observer

(* A run's step that keeps the request's locals and the run's id. *)
LEMMA ObserverRun ==
    ASSUME Base, Evidence, NEW w \in Workers, Kept(w), pc[w] \in Running,
           run'[w].created = run[w].created, UNCHANGED <<clock, claims>>,
           pc'[w] = "link" => \E r \in rows' : /\ r.id = run'[w].created
                                               /\ r.candle = run'[w].candle
    PROVE  Observer(w)'
<1>1. Observer(w) /\ op'[w] = op[w] /\ obs'[w] = obs[w]
  BY DEF Evidence, ObserverEvidence, Kept
<1>2. op'[w] = "OBSERVE" => obs'[w].since <= obs'[w].now /\ obs'[w].now <= clock'
  BY <1>1 DEF Observer
<1>3. op'[w] = "OBSERVE" => obs'[w].now <= run'[w].created /\ run'[w].created <= clock'
  BY <1>1 DEF Observer
<1>4. op'[w] = "OBSERVE" => Aware(obs[w])'
  <2>1. op[w] = "OBSERVE" => Aware(obs[w])
    BY <1>1 DEF Observer
  <2> QED
    BY <1>1, <2>1 DEF Aware
<1> QED
  BY <1>2, <1>3, <1>4 DEF Observer

(* A run that begins. *)
LEMMA EvidenceBegin ==
    ASSUME Base, Evidence, NEW w \in Workers, RunPair(w) \/ RunObservation(w) \/ RunRequest(w)
    PROVE  Evidence'
<1>1. /\ Frame(w) /\ pc'[w] = "candle" /\ clock' = clock + 1
      /\ run'[w].created = clock + 1 /\ UNCHANGED <<dbVars, histVars>>
      /\ ~RunRequest(w) => Kept(w) /\ pc[w] \in {"pair", "begin"}
      /\ RunRequest(w) => op'[w] = "RUN"
  BY BeginEffect DEF Base
<1>2. /\ UNCHANGED <<claims, candidate>> /\ rows \subseteq rows' /\ links \subseteq links'
  BY <1>1 DEF dbVars, histVars
<1>3. clock \in Nat /\ clock <= clock' /\ clock' \in Nat
  BY <1>1, TypeParts DEF Base, HistoryTypes
<1>4. Observer(w)'
  <2>1. CASE op'[w] # "OBSERVE"
    BY <1>1, <2>1 DEF Observer
  <2>2. CASE op'[w] = "OBSERVE"
    <3>1. op[w] = "OBSERVE" /\ obs'[w] = obs[w] /\ pc[w] \in {"pair", "begin"}
      BY <1>1, <2>2 DEF Kept
    <3>2. pc[w] = "begin"
      BY <3>1 DEF Base, TaskEvidence, Task, TickOps
    <3>3. /\ obs[w].since <= obs[w].now /\ obs[w].now <= clock /\ Aware(obs[w])
      BY <3>1, <3>2 DEF Evidence, ObserverEvidence, Observer
    <3>4. obs[w].now \in Nat
      BY LocalParts DEF Base
    <3>5. /\ obs'[w].since <= obs'[w].now /\ obs'[w].now <= clock'
          /\ obs'[w].now <= run'[w].created /\ run'[w].created <= clock'
      BY <1>1, <1>3, <3>1, <3>3, <3>4
    <3>6. Aware(obs[w])'
      BY <1>2, <3>1, <3>3 DEF Aware
    <3> QED
      BY <1>1, <3>5, <3>6 DEF Observer
  <2> QED
    BY <2>1, <2>2
<1> QED
  BY <1>1, <1>2, <1>3, <1>4, EvidenceQuiet

(* A run that goes on, up to its row. *)
LEMMA EvidenceRun ==
    ASSUME Base, Evidence, NEW w \in Workers,
           \/ EvaluateNothing(w) \/ EvaluateSignal(w) \/ InsertSignal(w)
           \/ EvaluateRisk(w) \/ MatchCandidate(w) \/ InsertRun(w)
    PROVE  Evidence'
<1>1. /\ Frame(w) /\ Kept(w) /\ Carried(w)
      /\ pc[w] \in {"candle", "signal", "risk", "match", "insert"}
      /\ pc'[w] = "link" => \E r \in rows' : /\ r.id = run'[w].created
                                             /\ r.candle = run'[w].candle
      /\ rows \subseteq rows' /\ UNCHANGED <<links, clock, claims, candidate>>
  <2>1. CASE EvaluateNothing(w)
    BY <2>1, NothingEffect DEF Base, histVars
  <2>2. CASE EvaluateSignal(w)
    BY <2>2, SignalEffect DEF Base, dbVars, histVars
  <2>3. CASE InsertSignal(w)
    BY <2>3, InsertSignalEffect DEF Base, histVars
  <2>4. CASE EvaluateRisk(w)
    BY <2>4, RiskEffect DEF Base, histVars
  <2>5. CASE MatchCandidate(w)
    BY <2>5, MatchEffect DEF Base, dbVars, histVars
  <2>6. CASE InsertRun(w)
    <3>1. /\ Frame(w) /\ Kept(w) /\ run'[w] = run[w] /\ pc[w] = "insert"
          /\ UNCHANGED <<links, clock, claims, candidate>>
      BY <2>6, InsertRunEffect DEF Base
    <3>2. PICK x : rows' = rows \cup {x} /\ x.id = run[w].created /\ x.candle = run[w].candle
      BY <2>6, InsertRunEffect DEF Base
    <3>3. x \in rows' /\ x.id = run'[w].created /\ x.candle = run'[w].candle
      BY <3>1, <3>2
    <3>4. rows \subseteq rows' /\ Carried(w)
      BY <3>1, <3>2 DEF Carried
    <3> QED
      BY <3>1, <3>3, <3>4
  <2> QED
    BY <2>1, <2>2, <2>3, <2>4, <2>5, <2>6
<1>2. pc[w] \in Running /\ run'[w].created = run[w].created /\ UNCHANGED <<clock, claims>>
  BY <1>1 DEF Running, RunLabels, Carried
<1>3. Observer(w)'
  BY <1>1, <1>2, ObserverRun
<1>4. clock <= clock' /\ clock' \in Nat
  BY <1>2, TypeParts DEF Base, HistoryTypes
<1>5. UNCHANGED <<claims, candidate>> /\ links \subseteq links'
  BY <1>1
<1> QED
  BY <1>1, <1>3, <1>4, <1>5, EvidenceQuiet

(* An answer that claims: its claim is founded, and no earlier request claimed
   the same candle since the same change. *)
LEMMA NewClaim ==
    ASSUME Base, Evidence, NEW w \in Workers, LinkRun(w), Claimed(w)
    PROVE  ClaimEvidence' /\ EvidenceOnce' /\ ClaimsOfNow
<1>1. PICK x \in ClaimRow :
        /\ claims' = claims \cup {x} /\ x.cand = obs[w].cand
        /\ x.candle = run[w].candle /\ x.since = obs[w].since
        /\ x.from = obs[w].now /\ x.to = clock
        /\ x.linked => [run |-> run[w].created, cand |-> obs[w].cand] \in links'
  BY Zenon DEF Claimed
<1>2. /\ op[w] = "OBSERVE" /\ run[w].candle > 0
      /\ IF obs[w].latest > 0 THEN run[w].candle > obs[w].latest ELSE ~obs[w].duplicate
  BY DEF Claimed, Independent
<1>3. pc[w] = "link" /\ links \subseteq links' /\ UNCHANGED <<rows, clock>>
  BY LinkEffect DEF Base
<1>4. /\ run[w].candle \in Nat /\ run[w].created \in Nat /\ obs[w].latest \in Nat
      /\ obs[w].now \in Nat /\ obs[w].since \in Nat /\ clock \in Nat
  BY LocalParts, TypeParts DEF Base, HistoryTypes
<1>5. /\ obs[w].since <= obs[w].now /\ obs[w].now <= clock
      /\ obs[w].now <= run[w].created /\ run[w].created <= clock /\ Aware(obs[w])
  BY <1>2, <1>3 DEF Evidence, ObserverEvidence, Observer, Running, RunLabels
<1>6. PICK r \in rows : r.id = run[w].created /\ r.candle = run[w].candle
  BY <1>3 DEF Evidence, ObserverEvidence, Observer
<1>7. /\ x.candle > 0 /\ x.since <= x.from /\ x.from <= x.to /\ x.to <= clock
  BY <1>1, <1>2, <1>4, <1>5
<1>8. /\ x.since <= r.id /\ r.id <= x.to /\ r.candle = x.candle
      /\ x.linked => [run |-> r.id, cand |-> x.cand] \in links'
  BY <1>1, <1>4, <1>5, <1>6
<1>9. ClaimEvidence'
  <2>1. ASSUME NEW y \in claims'
        PROVE  /\ y.candle > 0 /\ y.since <= y.from /\ y.from <= y.to /\ y.to <= clock'
               /\ y.linked => \E q \in rows' :
                     /\ y.since <= q.id /\ q.id <= y.to /\ q.candle = y.candle
                     /\ [run |-> q.id, cand |-> y.cand] \in links'
    <3>1. CASE y = x
      BY <1>3, <1>7, <1>8, <3>1
    <3>2. CASE y \in claims
      BY <1>3, <3>2 DEF Evidence, ClaimEvidence
    <3> QED
      BY <1>1, <3>1, <3>2
  <2> QED
    BY <2>1 DEF ClaimEvidence
<1>10. ASSUME NEW y \in claims, x.cand = y.cand, x.candle = y.candle, y.linked,
              x.since = y.since
       PROVE  x.from <= y.to /\ y.from <= x.to
  <2>1. y.to \in Nat /\ y.from \in Nat /\ y.candle \in Nat
    BY ClaimParts DEF Base
  <2>2. y.from <= y.to /\ y.to <= clock
    BY DEF Evidence, ClaimEvidence
  <2>3. ~(y.to < obs[w].now)
    <3> SUFFICES ASSUME y.to < obs[w].now PROVE FALSE
      OBVIOUS
    <3>1. y.candle <= obs[w].latest
      BY <1>1, <1>5, <1>10 DEF Aware
    <3>2. run[w].candle <= obs[w].latest /\ obs[w].latest > 0
      BY <1>1, <1>2, <1>4, <1>10, <2>1, <3>1
    <3> QED
      BY <1>2, <1>4, <3>2
  <2> QED
    BY <1>1, <1>4, <2>1, <2>2, <2>3
<1>11. EvidenceOnce'
  <2>1. ASSUME NEW y \in claims', NEW z \in claims', y # z, y.cand = z.cand,
               y.candle = z.candle, y.linked, z.linked, y.since = z.since
        PROVE  y.from <= z.to /\ z.from <= y.to
    <3>1. CASE y = x /\ z \in claims
      BY <1>10, <2>1, <3>1
    <3>2. CASE z = x /\ y \in claims
      BY <1>10, <2>1, <3>2
    <3>3. CASE y \in claims /\ z \in claims
      BY <2>1, <3>3 DEF Evidence, EvidenceOnce
    <3> QED
      BY <1>1, <2>1, <3>1, <3>2, <3>3
  <2> QED
    BY <2>1 DEF EvidenceOnce
<1>12. ClaimsOfNow
  BY <1>1 DEF ClaimsOfNow
<1> QED
  BY <1>9, <1>11, <1>12

(* The end of a run. *)
LEMMA EvidenceReturn ==
    ASSUME Base, Evidence, NEW w \in Workers, LinkRun(w) \/ FailRun(w)
    PROVE  Evidence'
<1>1. /\ Frame(w)
      /\ op[w] \in TickOps => pc'[w] = "pair" /\ op'[w] = op[w]
      /\ op[w] \notin TickOps => Ended(w)
      /\ links \subseteq links' /\ UNCHANGED <<candidate, rows, clock>>
  <2>1. CASE LinkRun(w)
    BY <2>1, LinkEffect DEF Base
  <2>2. CASE FailRun(w)
    BY <2>2, FailEffect DEF Base, dbVars
  <2> QED
    BY <2>1, <2>2
<1>2. Observer(w)'
  <2>1. CASE op[w] \in TickOps
    BY <1>1, <2>1 DEF Observer, TickOps
  <2> QED
    BY <1>1, <2>1, EndedObserver
<1>3. clock <= clock' /\ clock' \in Nat /\ rows \subseteq rows'
  BY <1>1, TypeParts DEF Base, HistoryTypes
<1>4. CASE UNCHANGED claims
  <2>1. UNCHANGED <<claims, candidate>>
    BY <1>1, <1>4
  <2> QED
    BY <1>1, <1>2, <1>3, <2>1, EvidenceQuiet
<1>5. CASE LinkRun(w) /\ Claimed(w)
  <2>1. ClaimEvidence' /\ EvidenceOnce' /\ ClaimsOfNow
    BY <1>5, NewClaim
  <2>2. ASSUME NEW v \in Workers PROVE Observer(v)'
    <3>1. CASE v # w
      <4>1. pc'[v] = pc[v] /\ op'[v] = op[v] /\ run'[v] = run[v] /\ obs'[v] = obs[v]
        BY <1>1, <3>1 DEF Frame
      <4> QED
        BY <1>3, <2>1, <4>1, ObserverKept DEF Evidence
    <3> QED
      BY <1>2, <3>1
  <2>3. \A c \in Candidates : candidate'[c].updated_at <= clock'
    BY <1>1 DEF Evidence, ObserverEvidence
  <2> QED
    BY <2>1, <2>2, <2>3 DEF Evidence, ObserverEvidence
<1>6. FailRun(w) => UNCHANGED claims
  BY FailEffect DEF Base, histVars
<1> QED
  BY <1>4, <1>5, <1>6, ClaimEffect DEF Base

(* Reading the performance makes an observation aware of the claims that were
   made before it began. *)
LEMMA ReadAware ==
    ASSUME Base, Evidence, NEW w \in Workers, NEW x \in claims,
           x.cand = obs[w].cand, x.linked, x.since = obs[w].since, x.to < obs[w].now
    PROVE  x.candle <= LatestEvaluated(obs[w])
<1>1. PICK r \in rows :
        /\ x.since <= r.id /\ r.id <= x.to /\ r.candle = x.candle
        /\ [run |-> r.id, cand |-> x.cand] \in links
  BY DEF Evidence, ClaimEvidence
<1>2. /\ obs[w] \in ObservationRow /\ obs[w].now \in Nat
      /\ x.to \in Nat /\ r.id \in Nat
  BY LocalParts, ClaimParts, TypeParts DEF Base, DbTypes, ShadowRow
<1>3. obs[w].since <= r.id /\ r.id <= obs[w].now
  BY <1>1, <1>2
<1>4. r.candle \in Evaluated(obs[w])
  BY <1>1, <1>3 DEF Evaluated
<1> QED
  BY <1>1, <1>2, <1>4, LatestBounds DEF Base

(* The steps of an observation before its run. *)
LEMMA EvidenceObserver ==
    ASSUME Base, Evidence, NEW w \in Workers, ObserverStep(w)
    PROVE  Evidence'
<1>1. clock \in Nat
  BY TypeParts DEF Base, HistoryTypes
<1>2. CASE StartObservation(w)
  <2>1. /\ Frame(w) /\ clock' = clock + 1 /\ UNCHANGED <<dbVars, histVars>>
        /\ \/ Ended(w)
           \/ /\ pc'[w] = "align" /\ op'[w] = "OBSERVE"
              /\ obs'[w].cand \in Candidates /\ obs'[w].now = clock + 1
              /\ obs'[w].since = candidate[obs'[w].cand].updated_at
    BY <1>2, StartObservationEffect DEF Base
  <2>2. UNCHANGED <<claims, candidate>> /\ rows \subseteq rows' /\ links \subseteq links'
    BY <2>1 DEF dbVars, histVars
  <2>3. clock <= clock' /\ clock' \in Nat
    BY <1>1, <2>1
  <2>4. Observer(w)'
    <3>1. CASE Ended(w)
      BY <3>1, EndedObserver
    <3>2. CASE ~Ended(w)
      <4>1. /\ pc'[w] = "align" /\ obs'[w].cand \in Candidates /\ obs'[w].now = clock + 1
            /\ obs'[w].since = candidate[obs'[w].cand].updated_at
        BY <2>1, <3>2
      <4>2. \A c \in Candidates : candidate[c].updated_at \in Nat
                                  /\ candidate[c].updated_at <= clock
        BY TypeParts DEF Base, DbTypes, CandidateRow, Evidence, ObserverEvidence
      <4>3. obs'[w].since <= obs'[w].now /\ obs'[w].now <= clock'
        BY <1>1, <2>1, <4>1, <4>2
      <4> QED
        BY <4>1, <4>3 DEF Observer, Running, RunLabels
    <3> QED
      BY <3>1, <3>2
  <2> QED
    BY <2>1, <2>2, <2>3, <2>4, EvidenceQuiet
<1>3. CASE CheckAlignment(w) \/ ReadEvaluated(w) \/ PlanObservation(w)
  <2>1. /\ Frame(w) /\ UNCHANGED <<dbVars, clock, histVars, bounds>>
        /\ \/ Ended(w)
           \/ /\ op'[w] = op[w] /\ run'[w] = run[w] /\ obs'[w].cand = obs[w].cand
              /\ obs'[w].now = obs[w].now /\ obs'[w].since = obs[w].since
              /\ \/ /\ pc[w] = "align" /\ pc'[w] = "evaluated"
                 \/ /\ pc[w] = "evaluated" /\ pc'[w] = "plan"
                    /\ obs'[w].latest = LatestEvaluated(obs[w])
                 \/ /\ pc[w] = "plan" /\ pc'[w] = "begin"
                    /\ obs'[w].latest = obs[w].latest
    BY <1>3, ObserverEffect DEF Base
  <2>2. /\ UNCHANGED <<claims, candidate>> /\ rows \subseteq rows' /\ links \subseteq links'
        /\ UNCHANGED clock
    BY <2>1 DEF dbVars, histVars
  <2>3. clock <= clock' /\ clock' \in Nat
    BY <1>1, <2>2
  <2>4. CASE ~Ended(w)
    <3>1. /\ op'[w] = op[w] /\ obs'[w].cand = obs[w].cand
          /\ obs'[w].now = obs[w].now /\ obs'[w].since = obs[w].since
          /\ pc'[w] \in {"evaluated", "plan", "begin"}
          /\ pc[w] \in {"align", "evaluated", "plan"}
      BY <2>1, <2>4
    <3>2. op[w] = "OBSERVE"
      BY <3>1 DEF Base, TaskEvidence, Task
    <3>3. obs'[w].since <= obs'[w].now /\ obs'[w].now <= clock'
      BY <2>2, <3>1, <3>2 DEF Evidence, ObserverEvidence, Observer
    <3>4. ASSUME pc'[w] \in {"plan", "begin"} PROVE Aware(obs[w])'
      <4>1. CASE pc'[w] = "plan"
        <5>1. obs'[w].latest = LatestEvaluated(obs[w])
          BY <2>1, <2>4, <4>1
        <5>2. \A x \in claims :
                x.cand = obs[w].cand /\ x.linked /\ x.since = obs[w].since
                  /\ x.to < obs[w].now => x.candle <= LatestEvaluated(obs[w])
          BY ReadAware
        <5> QED
          BY <2>2, <3>1, <5>1, <5>2 DEF Aware
      <4>2. CASE pc'[w] = "begin"
        <5>1. pc[w] = "plan" /\ obs'[w].latest = obs[w].latest
          BY <2>1, <2>4, <4>2
        <5>2. Aware(obs[w])
          BY <3>2, <5>1 DEF Evidence, ObserverEvidence, Observer
        <5> QED
          BY <2>2, <3>1, <5>1, <5>2 DEF Aware
      <4> QED
        BY <3>4, <4>1, <4>2
    <3>5. Observer(w)'
      BY <3>1, <3>3, <3>4 DEF Observer, Running, RunLabels
    <3> QED
      BY <2>1, <2>2, <2>3, <3>5, EvidenceQuiet
  <2>5. CASE Ended(w)
    BY <2>1, <2>2, <2>3, <2>5, EndedObserver, EvidenceQuiet
  <2> QED
    BY <2>4, <2>5
<1> QED
  BY <1>2, <1>3 DEF ObserverStep

(* The steps of the runner. *)
LEMMA EvidenceRunner ==
    ASSUME Base, Evidence, NEW w \in Workers, RunnerStep(w)
    PROVE  Evidence'
<1>1. /\ Frame(w) /\ UNCHANGED <<claims, candidate, rows, links, clock>>
      /\ \/ Ended(w)
         \/ /\ pc'[w] \in {"state", "pair", "write"}
            /\ op'[w] \in ReadingOps \cup ControlOps
  <2>1. CASE StartTick(w)
    BY <2>1, StartTickEffect DEF Base, dbVars, histVars
  <2>2. CASE LoadState(w)
    <3>1. op[w] \in ReadingOps
      BY <2>2, LoadStateEffect DEF Base, TaskEvidence, Task, ReadingOps
    <3> QED
      BY <2>2, <3>1, LoadStateEffect DEF Base, dbVars
  <2>3. CASE StartControl(w)
    BY <2>3, StartControlEffect DEF Base, dbVars
  <2>4. CASE SaveTick(w) \/ SaveStatus(w)
    BY <2>4, SaveEffect DEF Base
  <2> QED
    BY <2>1, <2>2, <2>3, <2>4 DEF RunnerStep
<1>2. Observer(w)'
  <2>1. CASE Ended(w)
    BY <2>1, EndedObserver
  <2>2. CASE ~Ended(w)
    BY <1>1, <2>2 DEF Observer, TickOps, ReadingOps, ControlOps
  <2> QED
    BY <2>1, <2>2
<1>3. clock <= clock' /\ clock' \in Nat
  BY <1>1, TypeParts DEF Base, HistoryTypes
<1>4. UNCHANGED <<claims, candidate>> /\ rows \subseteq rows' /\ links \subseteq links'
  BY <1>1
<1> QED
  BY <1>1, <1>2, <1>3, <1>4, EvidenceQuiet

(* Every step. *)
LEMMA EvidenceStep ==
    ASSUME Base, Evidence, [Next]_vars
    PROVE  Evidence'
<1>1. CASE Environment
  <2>1. /\ UNCHANGED <<jobVars, rows, links>> /\ UNCHANGED claims
        /\ \/ UNCHANGED <<candidate, clock>>
           \/ /\ clock' = clock + 1
              /\ \A c \in Candidates : \/ candidate'[c].updated_at = clock + 1
                                       \/ candidate'[c] = candidate[c]
    BY <1>1, BaseEnvironment DEF Outside, histVars
  <2>2. clock \in Nat /\ clock <= clock' /\ clock' \in Nat
    BY <2>1, TypeParts DEF Base, HistoryTypes
  <2>3. ClaimEvidence'
    BY <2>1, <2>2, ClaimsFrame DEF Evidence
  <2>4. ClaimsOfNow /\ rows \subseteq rows'
    BY <2>1 DEF ClaimsOfNow
  <2>5. ASSUME NEW v \in Workers PROVE Observer(v)'
    <3>1. pc'[v] = pc[v] /\ op'[v] = op[v] /\ run'[v] = run[v] /\ obs'[v] = obs[v]
      BY <2>1 DEF jobVars
    <3> QED
      BY <2>2, <2>4, <3>1, ObserverKept DEF Evidence
  <2>6. \A c \in Candidates : candidate'[c].updated_at <= clock'
    <3>1. \A c \in Candidates : candidate[c].updated_at \in Nat
                                /\ candidate[c].updated_at <= clock
      BY TypeParts DEF Base, DbTypes, CandidateRow, Evidence, ObserverEvidence
    <3> QED
      BY <2>1, <2>2, <3>1
  <2>7. EvidenceOnce'
    BY <2>1 DEF Evidence, EvidenceOnce
  <2> QED
    BY <2>3, <2>5, <2>6, <2>7 DEF Evidence, ObserverEvidence
<1>2. CASE UNCHANGED vars
  <2>1. UNCHANGED <<pc, op, run, obs, candidate, rows, links, claims, clock>>
    BY <1>2 DEF vars, dbVars, jobVars, histVars
  <2>2. ClaimEvidence' /\ EvidenceOnce'
    BY <2>1 DEF Evidence, ClaimEvidence, EvidenceOnce
  <2>3. ObserverEvidence'
    BY <2>1 DEF Evidence, ObserverEvidence, Observer, Aware
  <2> QED
    BY <2>2, <2>3 DEF Evidence
<1>3. ASSUME NEW w \in Workers, RunStep(w) PROVE Evidence'
  BY <1>3, EvidenceBegin, EvidenceRun, EvidenceReturn DEF RunStep
<1> QED
  BY <1>1, <1>2, <1>3, EvidenceRunner, EvidenceObserver DEF Next

(* Two observe-once answers claim independent evidence of one candidate for one
   candle only if the requests overlapped or the candidate changed between
   them: a later request has read the runs its predecessor was linked to. *)
THEOREM EvidenceClaimedOnce == Spec => []EvidenceOnce
<1>1. Init => Evidence
  <2> SUFFICES ASSUME Init PROVE Evidence
    OBVIOUS
  <2>1. /\ claims = {} /\ \A w \in Workers : pc[w] = "idle" /\ op[w] = "none"
    BY DEF Init
  <2>2. \A c \in Candidates : candidate[c].updated_at <= clock
    BY DEF Init
  <2> QED
    BY <2>1, <2>2 DEF Evidence, ClaimEvidence, ObserverEvidence, Observer, EvidenceOnce
<1>2. Base /\ Evidence /\ [Next]_vars => Evidence'
  BY EvidenceStep
<1>3. Evidence => EvidenceOnce
  BY DEF Evidence
<1> QED
  BY <1>1, <1>2, <1>3, BaseInvariant, PTL DEF Spec
=============================================================================
