------------------------- MODULE ResearchCandidates -------------------------
(***************************************************************************)
(* The lifecycle of research candidates: creation, observation, review,    *)
(* the accept, promote, reject, archive and reopen decisions, the guarded  *)
(* accept-for-shadow and shadow-promotion requests, and the promotion of   *)
(* the older strategy_research_candidates table, which mirrors the newer   *)
(* one.  Each request reads the candidate first and writes its status by a *)
(* later statement that does not compare it with what was read; for most   *)
(* requests the lifecycle event is a third statement whose failure is not  *)
(* reported.                                                               *)
(*                                                                         *)
(* A key is a strategy on a symbol in one timeframe.  The number of a      *)
(* request is also its time and the id of the rows it writes.              *)
(***************************************************************************)
EXTENDS Naturals, FiniteSets

CONSTANTS
    Candidates,     \* candidate ids
    Keys,           \* strategy, symbol and timeframe
    KeyOf,          \* the key of each candidate
    Settings,       \* what else a runner configuration holds
    Workers,        \* tasks of the server
    MaxRequests     \* bound on the requests

ASSUME KeyOfAssumption == Candidates # {} /\ KeyOf \in [Candidates -> Keys]
ASSUME MaxRequestsAssumption == MaxRequests \in Nat

VARIABLES
    status,         \* research_candidates.status
    legacy,         \* strategy_research_candidates.status
    promotedAt,     \* strategy_research_candidates.promoted_at is set
    promotions,     \* strategy_research_candidate_promotions
    versions,       \* candidates whose configuration became a strategy's
    observation,    \* the latest strategy_candidate_observations row
    config,         \* testnet_shadow_runner_config
    events,         \* research_candidate_events
    reviews,        \* research_candidate_reviews
    pc, job,        \* each task's next step and its locals
    writer,         \* history: the request that wrote each status
    unlogged,       \* history: requests that ended between status and event
    begun           \* history: the requests so far, for their bound

tables == <<status, legacy, promotedAt, promotions, versions, observation,
            config, events, reviews>>
vars == <<tables, pc, job, writer, unlogged, begun>>

-----------------------------------------------------------------------------
(* Rows, locals and the lifecycle.                                         *)

Active == {"DISCOVERED", "OBSERVING", "ACCEPTED_FOR_SHADOW", "PROMOTED_TO_SHADOW_CONFIG"}
Closed == {"REJECTED", "ARCHIVED"}
Status == Active \cup Closed
LegacyStatus == {"REGISTERED", "PROMOTED", "REJECTED", "ARCHIVED"}
Decision == {"ACCEPT", "PROMOTE", "REJECT", "ARCHIVE", "REOPEN"}
ReviewAction == {"NOTE", "MORE_OBSERVATION", "REJECT_REVIEW", "ARCHIVE_REVIEW"}
Ops == Decision \cup {"ACCEPT_APPLY", "SHADOW_PROMOTE", "REVIEW", "OBSERVE",
                      "EVALUATE", "LEGACY_PROMOTE", "none"}
Labels == {"idle", "observation", "runner", "preview", "persist", "write",
           "append", "review", "align", "insert", "version", "promotion", "mark"}
RunnerConfig == [settings : Settings, keys : SUBSET Keys]

Observation(id, aligned, pass, ready, fresh, seen) ==
    [id |-> id, aligned |-> aligned, pass |-> pass, ready |-> ready,
     fresh |-> fresh, config |-> seen]

\* id 0: there is none.
NoObservation(c) == Observation(0, FALSE, FALSE, FALSE, FALSE, c)

Job(op, id, cand, from, next, obs, proposed) ==
    [op |-> op, id |-> id, cand |-> cand, from |-> from, next |-> next,
     obs |-> obs, config |-> proposed]

NoJob(any) == Job("none", 0, any, "none", "none",
                  NoObservation([settings |-> CHOOSE s \in Settings : TRUE, keys |-> {}]),
                  [settings |-> CHOOSE s \in Settings : TRUE, keys |-> {}])
Idle == NoJob(CHOOSE c \in Candidates : TRUE)

\* Mutant: a reopened candidate is taken to be observed.
NextStatusReobserved(from, decision) ==
    IF decision = "ACCEPT" /\ from \in {"DISCOVERED", "OBSERVING"}
    THEN {"ACCEPTED_FOR_SHADOW"}
    ELSE IF decision = "PROMOTE" /\ from \in {"ACCEPTED_FOR_SHADOW", "PROMOTED_TO_SHADOW_CONFIG"}
    THEN {"PROMOTED_TO_SHADOW_CONFIG"}
    ELSE IF decision = "REJECT" /\ from \in Active THEN {"REJECTED"}
    ELSE IF decision = "ARCHIVE" /\ from # "ARCHIVED" THEN {"ARCHIVED"}
    ELSE IF decision = "REOPEN" /\ from \in Closed THEN {"OBSERVING"}
    ELSE {}

\* research_candidate_next_status; empty is the error.
NextStatus(from, decision) ==
    IF decision = "ACCEPT" /\ from \in {"DISCOVERED", "OBSERVING"}
    THEN {"ACCEPTED_FOR_SHADOW"}
    ELSE IF decision = "PROMOTE"
            /\ from \in {"ACCEPTED_FOR_SHADOW", "PROMOTED_TO_SHADOW_CONFIG"}
    THEN {"PROMOTED_TO_SHADOW_CONFIG"}
    ELSE IF decision = "REJECT" /\ from \in Active THEN {"REJECTED"}
    ELSE IF decision = "ARCHIVE" /\ from # "ARCHIVED" THEN {"ARCHIVED"}
    ELSE IF decision = "REOPEN" /\ from \in Closed THEN {"DISCOVERED"}
    ELSE {}

\* Mutant: a review writes a status the lifecycle does not have.
ReviewOutcomeUnknown(from, action) ==
    IF action = "NOTE" THEN {"none"}
    ELSE IF action = "REJECT_REVIEW" THEN {"REJECTED"}
    ELSE IF action = "ARCHIVE_REVIEW" THEN {"ARCHIVED"}
    ELSE IF from = "DISCOVERED" THEN {"NEEDS_OBSERVATION"}
    ELSE IF from \in {"OBSERVING", "ACCEPTED_FOR_SHADOW"} THEN {"none"}
    ELSE {}

\* research_candidate_review_outcome; "none" leaves the status alone.  NOTE is
\* any of the actions that only record, refused or not by its context.
ReviewOutcome(from, action) ==
    IF action = "NOTE" THEN {"none"}
    ELSE IF action = "REJECT_REVIEW" THEN {"REJECTED"}
    ELSE IF action = "ARCHIVE_REVIEW" THEN {"ARCHIVED"}
    ELSE IF from = "DISCOVERED" THEN {"OBSERVING"}
    ELSE IF from \in {"OBSERVING", "ACCEPTED_FOR_SHADOW"} THEN {"none"}
    ELSE {}

\* legacy_status_for_research_candidate.
LegacyOf(s) == IF s = "PROMOTED_TO_SHADOW_CONFIG" THEN "PROMOTED"
               ELSE IF s \in Closed THEN s ELSE "REGISTERED"

\* Request 1 created some candidates, 2 observed them and 3 accepted them for
\* the shadow runner; the others are not there yet.
Init ==
    /\ config \in RunnerConfig
    /\ \E accepted \in SUBSET Candidates, pass \in BOOLEAN :
          /\ status = [c \in Candidates |->
                         IF c \in accepted THEN "ACCEPTED_FOR_SHADOW" ELSE "none"]
          /\ legacy = [c \in Candidates |->
                         IF c \in accepted THEN "REGISTERED" ELSE "none"]
          /\ observation = [c \in Candidates |->
                LET aligned == KeyOf[c] \in config.keys
                IN  IF c \in accepted
                    THEN Observation(2, aligned, pass /\ aligned, TRUE, TRUE, config)
                    ELSE NoObservation(config)]
          /\ events = {[id |-> 1, cand |-> c, prev |-> "none", next |-> "DISCOVERED"]
                          : c \in accepted}
                      \cup {[id |-> 3, cand |-> c, prev |-> "DISCOVERED",
                             next |-> "ACCEPTED_FOR_SHADOW"] : c \in accepted}
          /\ writer = [c \in Candidates |-> IF c \in accepted THEN 3 ELSE 0]
    /\ promotedAt = [c \in Candidates |-> FALSE]
    /\ promotions = {} /\ versions = {} /\ reviews = {}
    /\ pc = [w \in Workers |-> "idle"]
    /\ job = [w \in Workers |-> Idle]
    /\ unlogged = {}
    /\ begun = 3

Goto(w, label) == pc' = [pc EXCEPT ![w] = label]
SetJob(w, j) == job' = [job EXCEPT ![w] = j]
Done(w) == Goto(w, "idle") /\ SetJob(w, Idle)

Start(w) ==
    /\ pc[w] = "idle"
    /\ begun < MaxRequests
    /\ begun' = begun + 1

-----------------------------------------------------------------------------
(* Creation, time and the runner's own handler.                            *)

\* create_research_candidate: both rows and the first event, in one
\* transaction.
Create(c) ==
    /\ legacy[c] = "none"
    /\ begun < MaxRequests
    /\ begun' = begun + 1
    /\ status' = [status EXCEPT ![c] = "DISCOVERED"]
    /\ legacy' = [legacy EXCEPT ![c] = LegacyOf("DISCOVERED")]
    /\ events' = events \cup {[id |-> begun + 1, cand |-> c, prev |-> "none",
                               next |-> "DISCOVERED"]}
    /\ writer' = [writer EXCEPT ![c] = begun + 1]
    /\ UNCHANGED <<promotedAt, promotions, versions, observation, config,
                   reviews, pc, job, unlogged>>

\* register_strategy_research_candidate_handler: the older row alone.
Register(c) ==
    /\ legacy[c] = "none"
    /\ begun < MaxRequests
    /\ begun' = begun + 1
    /\ legacy' = [legacy EXCEPT ![c] = "REGISTERED"]
    /\ UNCHANGED <<status, promotedAt, promotions, versions, observation,
                   config, events, reviews, pc, job, writer, unlogged>>

\* The latest observation outlives observation_max_age_seconds.
Expire(c) ==
    LET o == observation[c]
    IN  /\ o.id > 0 /\ o.fresh
        /\ observation' = [observation EXCEPT ![c] =
              Observation(o.id, o.aligned, o.pass, o.ready, FALSE, o.config)]
        /\ UNCHANGED <<status, legacy, promotedAt, promotions, versions, config,
                       events, reviews, pc, job, writer, unlogged, begun>>

\* An operator configures the shadow runner.
SaveConfig ==
    /\ \E new \in RunnerConfig \ {config} : config' = new
    /\ UNCHANGED <<status, legacy, promotedAt, promotions, versions,
                   observation, events, reviews, pc, job, writer, unlogged, begun>>

-----------------------------------------------------------------------------
(* decide_research_candidate_handler.                                      *)

\* The candidate is read and the decision's next status computed.
Decide(w) ==
    /\ Start(w)
    /\ \E c \in Candidates, d \in Decision :
          /\ status[c] # "none"
          /\ \E next \in NextStatus(status[c], d) :
                SetJob(w, Job(d, begun + 1, c, status[c], next,
                              NoObservation(config), config))
          /\ Goto(w, IF d = "ACCEPT" THEN "observation" ELSE "write")
    /\ UNCHANGED <<tables, writer, unlogged>>

\* An accept reads the latest observation: it must exist, be fresh and ready.
\* The acknowledgements of the request may waive an unaligned runner and the
\* walk-forward evidence.
ReadObservation(w) ==
    LET j == job[w]
        o == observation[j.cand]
    IN  /\ pc[w] = "observation" /\ j.op = "ACCEPT"
        /\ o.id > 0 /\ o.fresh /\ o.ready
        /\ SetJob(w, Job(j.op, j.id, j.cand, j.from, j.next, o, j.config))
        /\ Goto(w, "runner")
        /\ UNCHANGED <<tables, writer, unlogged, begun>>

\* Then the runner's configuration, which must be the observed one; if it
\* cannot be read the comparison is left out.
CompareRunner(w) ==
    /\ pc[w] = "runner"
    /\ \E read \in BOOLEAN : read => config = job[w].obs.config
    /\ Goto(w, "write")
    /\ UNCHANGED <<tables, job, writer, unlogged, begun>>

-----------------------------------------------------------------------------
(* apply_research_candidate_accept_shadow_handler.                         *)

AcceptApply(w) ==
    /\ Start(w)
    /\ \E c \in Candidates :
          /\ status[c] # "none"
          /\ \E next \in NextStatus(status[c], "ACCEPT") :
                SetJob(w, Job("ACCEPT_APPLY", begun + 1, c, status[c], next,
                              NoObservation(config), config))
    /\ Goto(w, "preview")
    /\ UNCHANGED <<tables, writer, unlogged>>

\* Mutant: the missing observation is only a warning.
AcceptableUnobserved(o) == TRUE

\* validate_research_candidate_accept_for_shadow_apply: the candidate's
\* evidence is of other tables, a fresh observation is required.
Acceptable(o) == o.id > 0 /\ o.fresh

PreviewAccept(w) ==
    /\ pc[w] = "preview" /\ job[w].op = "ACCEPT_APPLY"
    /\ Acceptable(observation[job[w].cand])
    /\ Goto(w, "write")
    /\ UNCHANGED <<tables, job, writer, unlogged, begun>>

-----------------------------------------------------------------------------
(* apply_research_candidate_shadow_promotion_handler.                      *)

ShadowPromote(w) ==
    /\ Start(w)
    /\ \E c \in Candidates :
          /\ status[c] # "none"
          /\ SetJob(w, Job("SHADOW_PROMOTE", begun + 1, c, status[c], "none",
                           NoObservation(config), config))
    /\ Goto(w, "preview")
    /\ UNCHANGED <<tables, writer, unlogged>>

\* build_research_candidate_shadow_promotion_preview, its first read: the
\* runner's configuration.  The status must be ACCEPTED or PROMOTED.
PreviewRunner(w) ==
    LET j == job[w]
    IN  /\ pc[w] = "preview" /\ j.op = "SHADOW_PROMOTE"
        /\ \E next \in NextStatus(j.from, "PROMOTE") :
              SetJob(w, Job(j.op, j.id, j.cand, j.from, next, j.obs, config))
        /\ Goto(w, "observation")
        /\ UNCHANGED <<tables, writer, unlogged, begun>>

\* Its second read: the latest observation.  An aligned one must be fresh and
\* passed, and leaves the configuration as it was read; an unaligned one needs
\* allow_missing_runner_alignment, which waives both, and proposes the
\* candidate's key alone.
PreviewObservation(w) ==
    LET j == job[w]
        o == observation[j.cand]
        proposed == IF o.aligned THEN j.config
                    ELSE [settings |-> j.config.settings, keys |-> {KeyOf[j.cand]}]
    IN  /\ pc[w] = "observation" /\ j.op = "SHADOW_PROMOTE"
        /\ o.id > 0
        /\ o.aligned => o.fresh /\ o.pass
        /\ SetJob(w, Job(j.op, j.id, j.cand, j.from, j.next, o, proposed))
        /\ Goto(w, IF proposed # j.config THEN "persist"
                   ELSE IF j.next # j.from THEN "write" ELSE "idle")
        /\ UNCHANGED <<tables, writer, unlogged, begun>>

\* persist_testnet_shadow_runner_config, from the configuration that was read.
PersistRunner(w) ==
    LET j == job[w]
    IN  /\ pc[w] = "persist"
        /\ config' = j.config
        /\ Goto(w, IF j.next # j.from THEN "write" ELSE "idle")
        /\ UNCHANGED <<status, legacy, promotedAt, promotions, versions,
                       observation, events, reviews, job, writer, unlogged, begun>>

-----------------------------------------------------------------------------
(* update_research_candidate_status and append_research_candidate_event.   *)

\* Both rows in one transaction; promoted_at is kept once it is set.
SetStatus(c, next, id) ==
    /\ status' = [status EXCEPT ![c] = next]
    /\ legacy' = [legacy EXCEPT ![c] = LegacyOf(next)]
    /\ promotedAt' = [promotedAt EXCEPT ![c] =
                        promotedAt[c] \/ LegacyOf(next) = "PROMOTED"]
    /\ writer' = [writer EXCEPT ![c] = id]

WriteStatus(w) ==
    /\ pc[w] = "write"
    /\ SetStatus(job[w].cand, job[w].next, job[w].id)
    /\ Goto(w, "append")
    /\ UNCHANGED <<promotions, versions, observation, config, events, reviews,
                   job, unlogged, begun>>

\* The update of an observation request fails, which it ignores.
SkipStatus(w) ==
    /\ pc[w] = "write" /\ job[w].op = "OBSERVE"
    /\ Goto(w, "append")
    /\ UNCHANGED <<tables, job, writer, unlogged, begun>>

Event(j) == [id |-> j.id, cand |-> j.cand, prev |-> j.from, next |-> j.next]

\* Mutant: the event carries the status that was read.
EventOfRead(j) == [id |-> j.id, cand |-> j.cand, prev |-> j.from, next |-> j.from]

\* The row append_research_candidate_event inserts.
Logged(j) == Event(j)

AppendEvent(w) ==
    /\ pc[w] = "append"
    /\ events' = events \cup {Logged(job[w])}
    /\ Done(w)
    /\ UNCHANGED <<status, legacy, promotedAt, promotions, versions,
                   observation, config, reviews, writer, unlogged, begun>>

-----------------------------------------------------------------------------
(* create_research_candidate_review_handler.                               *)

Review(w) ==
    /\ Start(w)
    /\ \E c \in Candidates, action \in ReviewAction :
          /\ status[c] # "none"
          /\ \E next \in ReviewOutcome(status[c], action) :
                SetJob(w, Job("REVIEW", begun + 1, c, status[c], next,
                              NoObservation(config), config))
    /\ Goto(w, "review")
    /\ UNCHANGED <<tables, writer, unlogged>>

\* apply_research_candidate_review: the status, the review and the event in one
\* transaction.
CommitReview(w) ==
    LET j == job[w]
    IN  /\ pc[w] = "review"
        /\ reviews' = reviews \cup {Event(j)}
        /\ IF j.next = "none"
           THEN UNCHANGED <<status, legacy, promotedAt, writer, events>>
           ELSE SetStatus(j.cand, j.next, j.id) /\ events' = events \cup {Event(j)}
        /\ Done(w)
        /\ UNCHANGED <<promotions, versions, observation, config, unlogged, begun>>

-----------------------------------------------------------------------------
(* evaluate_candidate_observation.                                         *)

\* OBSERVE is the request that also marks the candidate as OBSERVING.
Observe(w) ==
    /\ Start(w)
    /\ \E c \in Candidates, op \in {"OBSERVE", "EVALUATE"} :
          /\ status[c] # "none"
          /\ SetJob(w, Job(op, begun + 1, c, status[c], "OBSERVING",
                           NoObservation(config), config))
    /\ Goto(w, "align")
    /\ UNCHANGED <<tables, writer, unlogged>>

\* The runner is read; the shadow runs and the readiness are of other tables.
\* evaluate_strategy_candidate_observation passes no unaligned candidate.
Align(w) ==
    LET j == job[w]
    IN  /\ pc[w] = "align"
        /\ \E pass, ready \in BOOLEAN :
              LET aligned == KeyOf[j.cand] \in config.keys
              IN  /\ pass => aligned
                  /\ SetJob(w, Job(j.op, j.id, j.cand, j.from, j.next,
                        Observation(j.id, aligned, pass, ready, TRUE, config), j.config))
        /\ Goto(w, "insert")
        /\ UNCHANGED <<tables, writer, unlogged, begun>>

\* insert_strategy_candidate_observation; the latest is the one that began
\* last.  Only a candidate that was DISCOVERED is marked.
InsertObservation(w) ==
    LET j == job[w]
    IN  /\ pc[w] = "insert"
        /\ observation' = IF j.obs.id > observation[j.cand].id
                          THEN [observation EXCEPT ![j.cand] = j.obs]
                          ELSE observation
        /\ IF j.op = "OBSERVE" /\ j.from = "DISCOVERED"
           THEN Goto(w, "write") /\ UNCHANGED job
           ELSE Done(w)
        /\ UNCHANGED <<status, legacy, promotedAt, promotions, versions, config,
                       events, reviews, writer, unlogged, begun>>

-----------------------------------------------------------------------------
(* promote_strategy_research_candidate_handler.                            *)

\* The older row must be REGISTERED and, as far as the read succeeds, without
\* a promotion.
LegacyPromote(w) ==
    /\ Start(w)
    /\ \E c \in Candidates :
          /\ legacy[c] = "REGISTERED"
          /\ \E read \in BOOLEAN : read => \A p \in promotions : p.cand # c
          /\ SetJob(w, Job("LEGACY_PROMOTE", begun + 1, c, "none", "none",
                           NoObservation(config), config))
    /\ Goto(w, "version")
    /\ UNCHANGED <<tables, writer, unlogged>>

\* persist_strategy_config_version, in SHADOW mode.
PersistVersion(w) ==
    /\ pc[w] = "version"
    /\ versions' = versions \cup {job[w].cand}
    /\ Goto(w, "promotion")
    /\ UNCHANGED <<status, legacy, promotedAt, promotions, observation, config,
                   events, reviews, job, writer, unlogged, begun>>

\* Mutant: the table has no unique index.
UnpromotedAlways(c) == TRUE

\* The unique index over promoted candidates.
Unpromoted(c) == \A p \in promotions : p.cand # c

InsertPromotion(w) ==
    LET j == job[w]
    IN  /\ pc[w] = "promotion"
        /\ Unpromoted(j.cand)
        /\ promotions' = promotions \cup {[id |-> j.id, cand |-> j.cand]}
        /\ Goto(w, "mark")
        /\ UNCHANGED <<status, legacy, promotedAt, versions, observation,
                       config, events, reviews, job, writer, unlogged, begun>>

\* mark_strategy_research_candidate_promoted writes the older row alone.
MarkPromoted(w) ==
    LET j == job[w]
    IN  /\ pc[w] = "mark"
        /\ legacy' = [legacy EXCEPT ![j.cand] = "PROMOTED"]
        /\ promotedAt' = [promotedAt EXCEPT ![j.cand] = TRUE]
        /\ Done(w)
        /\ UNCHANGED <<status, promotions, versions, observation, config,
                       events, reviews, writer, unlogged, begun>>

-----------------------------------------------------------------------------
\* A request is refused, one of its statements fails or the process stops.
\* decide and the shadow promotion answer 200 after a failed append.
GiveUp(w) ==
    /\ pc[w] # "idle"
    /\ unlogged' = IF pc[w] = "append" THEN unlogged \cup {job[w].id} ELSE unlogged
    /\ Done(w)
    /\ UNCHANGED <<tables, writer, begun>>

DecideStep(w) ==
    \/ Decide(w) \/ ReadObservation(w) \/ CompareRunner(w)
    \/ AcceptApply(w) \/ PreviewAccept(w)
    \/ ShadowPromote(w) \/ PreviewRunner(w) \/ PreviewObservation(w)
    \/ PersistRunner(w) \/ WriteStatus(w) \/ SkipStatus(w) \/ AppendEvent(w)

ReviewStep(w) ==
    \/ Review(w) \/ CommitReview(w)
    \/ Observe(w) \/ Align(w) \/ InsertObservation(w)

LegacyStep(w) ==
    \/ LegacyPromote(w) \/ PersistVersion(w) \/ InsertPromotion(w)
    \/ MarkPromoted(w)

Next ==
    \/ \E c \in Candidates : Create(c) \/ Register(c) \/ Expire(c)
    \/ SaveConfig
    \/ \E w \in Workers : DecideStep(w) \/ ReviewStep(w) \/ LegacyStep(w) \/ GiveUp(w)

Spec == Init /\ [][Next]_vars

-----------------------------------------------------------------------------
(* Properties.                                                             *)

ObservationType == [id : Nat, aligned : BOOLEAN, pass : BOOLEAN,
                    ready : BOOLEAN, fresh : BOOLEAN, config : RunnerConfig]

\* Every variable keeps its type; in particular a request only writes a status
\* of the lifecycle.
TypeOK ==
    /\ status \in [Candidates -> Status \cup {"none"}]
    /\ legacy \in [Candidates -> LegacyStatus \cup {"none"}]
    /\ promotedAt \in [Candidates -> BOOLEAN]
    /\ promotions \subseteq [id : Nat, cand : Candidates]
    /\ versions \subseteq Candidates
    /\ observation \in [Candidates -> ObservationType]
    /\ config \in RunnerConfig
    /\ events \subseteq [id : Nat, cand : Candidates, prev : Status \cup {"none"},
                         next : Status]
    /\ reviews \subseteq [id : Nat, cand : Candidates, prev : Status,
                          next : Status \cup {"none"}]
    /\ pc \in [Workers -> Labels]
    /\ job \in [Workers -> [op : Ops, id : Nat, cand : Candidates,
                            from : Status \cup {"none"}, next : Status \cup {"none"},
                            obs : ObservationType, config : RunnerConfig]]
    /\ writer \in [Candidates -> Nat]
    /\ unlogged \subseteq Nat
    /\ begun \in Nat

\* Whatever requests overlap and whatever they overwrite, a candidate that is
\* accepted for the shadow runner, or promoted to it, has been observed: both
\* accepts and the promotion ask for a persisted observation.
AcceptedWasObserved ==
    \A c \in Candidates :
        status[c] \in {"ACCEPTED_FOR_SHADOW", "PROMOTED_TO_SHADOW_CONFIG"}
            => observation[c].id > 0

\* The older row mirrors the newer one, except after a promotion of the older
\* one, of which a promotion row and the strategy's configuration are left; and
\* promoted_at is set for every promoted row.  A candidate has one promotion.
LegacyMirrors ==
    /\ \A c \in Candidates :
          /\ status[c] # "none" /\ legacy[c] # LegacyOf(status[c])
                => legacy[c] = "PROMOTED" /\ \E p \in promotions : p.cand = c
          /\ legacy[c] = "PROMOTED" => promotedAt[c]
    /\ \A p \in promotions : p.cand \in versions
    /\ \A p, q \in promotions : p.cand = q.cand => p = q

\* The request that wrote a candidate's status has a lifecycle event with that
\* status, or is about to append it, or ended in between.
EventExplainsStatus ==
    \A c \in Candidates : status[c] # "none" =>
        \/ \E e \in events : e.id = writer[c] /\ e.cand = c /\ e.next = status[c]
        \/ \E w \in Workers : /\ pc[w] = "append" /\ job[w].id = writer[c]
                              /\ job[w].cand = c /\ job[w].next = status[c]
        \/ writer[c] \in unlogged

\* The edges of the lifecycle, reviews included.
Edges ==
    (Active \X Closed) \cup (Closed \X Closed) \cup (Closed \X {"DISCOVERED"})
    \cup {<<"DISCOVERED", "OBSERVING">>, <<"DISCOVERED", "ACCEPTED_FOR_SHADOW">>,
          <<"OBSERVING", "ACCEPTED_FOR_SHADOW">>,
          <<"ACCEPTED_FOR_SHADOW", "PROMOTED_TO_SHADOW_CONFIG">>}

\* A status changes along the lifecycle's edges, unless the request that
\* writes it read another status than the one it overwrites.
EdgesKept ==
    [][\A c \in Candidates :
          status'[c] # status[c] /\ status[c] # "none" =>
             \/ <<status[c], status'[c]>> \in Edges
             \/ \E w \in Workers : /\ pc[w] \in {"write", "review"} /\ pc'[w] # pc[w]
                                   /\ job[w].cand = c /\ job[w].from # status[c]]_vars

-----------------------------------------------------------------------------
(* The inductive invariant behind these properties.                        *)

Accepted == {"ACCEPTED_FOR_SHADOW", "PROMOTED_TO_SHADOW_CONFIG"}

\* What a decision, a review or an observation may make of the status it read.
Moves == Edges \cup {<<"PROMOTED_TO_SHADOW_CONFIG", "PROMOTED_TO_SHADOW_CONFIG">>}

\* Both tables have a row for a candidate, or the older one alone.
RowEvidence == \A c \in Candidates : legacy[c] = "none" => status[c] = "none"

\* A task that has passed its checks knows what it read: a move of the
\* lifecycle, and for an accept or a promotion that there is an observation.
KnowsMove(label, j) ==
    /\ label \in {"observation", "runner", "persist", "write"}
          => <<j.from, j.next>> \in Moves
    /\ label \in {"runner", "persist"} => observation[j.cand].id > 0
    /\ label = "write" /\ j.next \in Accepted => observation[j.cand].id > 0
    /\ label = "preview"
          => /\ j.from \in Status
             /\ j.op = "ACCEPT_APPLY" => <<j.from, j.next>> \in Moves

\* What the steps after a write, a review, an observation and a promotion of
\* the older row rest on.
KnowsRow(label, j) ==
    /\ label = "append" => j.from \in Status /\ j.next \in Status
    /\ label = "review"
          => /\ j.from \in Status /\ j.next \notin Accepted
             /\ j.next # "none" => <<j.from, j.next>> \in Moves
    /\ label \in {"align", "insert"}
          => j.from \in Status /\ j.next = "OBSERVING" /\ j.id > 0
    /\ label = "insert" => j.obs.id > 0
    /\ label = "promotion" => j.cand \in versions
    /\ label = "mark" => \E p \in promotions : p.cand = j.cand

JobEvidence ==
    \A w \in Workers : KnowsMove(pc[w], job[w]) /\ KnowsRow(pc[w], job[w])

\* Inductive: the properties above, and what makes the next step keep them.
IInv ==
    /\ TypeOK /\ AcceptedWasObserved /\ LegacyMirrors /\ EventExplainsStatus
    /\ RowEvidence /\ JobEvidence
=============================================================================
